------------------------- MODULE GfcComputing_proofs --------------------------
(***************************************************************************)
(* The two parts that only compute: the words of big numbers and the       *)
(* encodings.                                                              *)
(*                                                                         *)
(* Numbers may have any length and words any size: whatever a loop of      *)
(* gfc_bignum.c carries from word to word, the number it writes is the     *)
(* integer result modulo the size of a number.                             *)
(*                                                                         *)
(* Loops are recursive functions of the turn.  That there is such a        *)
(* function (LoopExists), and what holds at each of its turns, is shown by *)
(* looking at the first turn at which it would fail (Upwards): sets of     *)
(* turns stand for the predicates of an induction.  Each operation has one *)
(* fact about a single turn (CarryIs, BorrowIs, RowIs, MulIs), and one     *)
(* about the values of the words up to a place, which follows from it.     *)
(*                                                                         *)
(* The encodings are those of texts of any length: what is written is cut  *)
(* into characters or groups at places their sizes tell, and each of them  *)
(* reads back alone.                                                       *)
(***************************************************************************)
EXTENDS GfcBignumWords, GfcText, Loops, FiniteSetTheorems, TLAPS

-----------------------------------------------------------------------------
\* Big numbers.
LEMMA WordFits == \A w \in Bn : \A i \in 0..Words-1 : w[i] \in 0..Base-1 /\ w[i] \in Nat
BY BignumWords DEF Bn

\* Weights of places.
LEMMA WeightIs ==
  /\ Weight[0] = 1
  /\ \A i \in 1..2 * Words : Weight[i] = Weight[i-1] * Base
<1> DEFINE N == 2 * Words
           g == [i \in 1..N |-> [s \in Nat |-> s * Base]]
           Eq(f) == f = [i \in 0..N |-> IF i = 0 THEN 1 ELSE f[i-1] * Base]
<1>1. N \in Nat
  BY BignumWords
<1>2. \A s \in Nat : s * Base \in Nat
  BY BignumWords
<1>3. g \in [1..N -> [Nat -> Nat]]
  BY <1>2
<1>4. PICK f \in [0..N -> Nat] : Loop(f, N, 1, g)
  <2> HIDE DEF N, g
  <2> QED BY <1>1, <1>3, LoopExists
<1>5. Eq(f)
  <2>1. \A i \in 1..N : g[i][f[i-1]] = f[i-1] * Base
    <3> TAKE i \in 1..N
    <3>1. i-1 \in 0..N
      BY <1>1
    <3>2. f[i-1] \in Nat
      BY <3>1
    <3> QED BY <3>2
  <2> HIDE DEF g, N
  <2>2. \A i \in 0..N : f[i] = IF i = 0 THEN 1 ELSE f[i-1] * Base
    BY <1>1, <1>4, <2>1 DEF Loop
  <2> QED BY <2>2
<1>6. Weight = CHOOSE u : Eq(u)
  BY Zenon DEF Weight
<1>7. Eq(Weight)
  <2> HIDE DEF Eq
  <2> QED BY <1>5, <1>6
<1>8. \A i \in 0..N : Weight[i] = IF i = 0 THEN 1 ELSE Weight[i-1] * Base
  BY <1>7
<1> QED BY <1>1, <1>8

LEMMA WeightNat == \A i \in 0..2 * Words : Weight[i] \in Nat /\ Weight[i] >= 1
<1> DEFINE Good == {i \in 0..2 * Words : Weight[i] \in Nat /\ Weight[i] >= 1}
<1>1. 2 * Words \in Nat /\ 0 \in Good
  BY WeightIs, BignumWords
<1>2. ASSUME NEW n \in 0..2 * Words - 1, n \in Good PROVE n+1 \in Good
  <2>1. n+1 \in 1..2 * Words /\ (n+1)-1 = n
    BY BignumWords
  <2>2. Weight[n+1] = Weight[n] * Base
    BY <2>1, WeightIs
  <2>3. \A w \in Nat, b \in Nat : w >= 1 /\ b >= 2 => w * b \in Nat /\ w * b >= 1
    OBVIOUS
  <2>4. Weight[n] * Base \in Nat /\ Weight[n] * Base >= 1
    BY <1>2, <2>3, BignumWords
  <2> QED BY <2>1, <2>2, <2>4
<1> HIDE DEF Good
<1>3. \A n \in 0..2 * Words - 1 : n \in Good => n+1 \in Good
  BY <1>2
<1>4. \A n \in 0..2 * Words : n \in Good
  BY <1>1, <1>3, Upwards
<1> QED BY <1>4 DEF Good

\* The sum of the words below a place is less than the weight of the place.
LEMMA DigitFits ==
  ASSUME NEW v \in Nat, NEW w \in Nat, NEW b \in Nat, NEW d \in Nat, v < w, d < b
  PROVE  v + d * w \in Nat /\ v + d * w < w * b
<1>1. PICK e \in Nat : b = d + 1 + e
  <2>1. b - d - 1 \in Nat /\ b = d + 1 + (b - d - 1)
    OBVIOUS
  <2> QED BY <2>1
<1>2. w * (d + 1 + e) = d * w + w + w * e /\ w * e >= 0 /\ d * w >= 0
  OBVIOUS
<1> QED BY <1>1, <1>2

LEMMA LowValIs ==
  ASSUME NEW x \in Bn
  PROVE  /\ LowVal(x)[0] = 0
         /\ \A i \in 0..Words-1 : LowVal(x)[i+1] = LowVal(x)[i] + x[i] * Weight[i]
<1> DEFINE N == Words
           g == [i \in 1..N |-> [s \in Nat |-> s + x[i-1] * Weight[i-1]]]
           Eq(f) == f = [i \in 0..N |-> IF i = 0 THEN 0 ELSE f[i-1] + x[i-1] * Weight[i-1]]
<1>1. N \in Nat
  BY BignumWords
<1>2. \A i \in 1..N : x[i-1] * Weight[i-1] \in Nat
  <2> TAKE i \in 1..N
  <2>1. i-1 \in 0..Words-1 /\ i-1 \in 0..2 * Words
    BY BignumWords
  <2>2. x[i-1] \in Nat /\ Weight[i-1] \in Nat
    BY <2>1, WeightNat, WordFits
  <2> QED BY <2>2
<1>3. g \in [1..N -> [Nat -> Nat]]
  BY <1>2
<1>4. PICK f \in [0..N -> Nat] : Loop(f, N, 0, g)
  <2> HIDE DEF N, g
  <2> QED BY <1>1, <1>3, LoopExists
<1>5. Eq(f)
  <2>1. \A i \in 1..N : g[i][f[i-1]] = f[i-1] + x[i-1] * Weight[i-1]
    <3> TAKE i \in 1..N
    <3>1. i-1 \in 0..N
      BY <1>1
    <3>2. f[i-1] \in Nat
      BY <3>1
    <3> QED BY <3>2
  <2> HIDE DEF g, N
  <2>2. \A i \in 0..N : f[i] = IF i = 0 THEN 0 ELSE f[i-1] + x[i-1] * Weight[i-1]
    BY <1>1, <1>4, <2>1 DEF Loop
  <2> QED BY <2>2
<1>6. LowVal(x) = CHOOSE u : Eq(u)
  BY Zenon DEF LowVal
<1>7. Eq(LowVal(x))
  <2> HIDE DEF Eq
  <2> QED BY <1>5, <1>6
<1>8. \A i \in 0..N : LowVal(x)[i] = IF i = 0 THEN 0 ELSE LowVal(x)[i-1] + x[i-1] * Weight[i-1]
  BY <1>7
<1>9. \A i \in 0..Words-1 : LowVal(x)[i+1] = LowVal(x)[i] + x[i] * Weight[i]
  <2> TAKE i \in 0..Words-1
  <2>1. i+1 \in 0..N /\ i+1 # 0 /\ (i+1)-1 = i
    BY <1>1
  <2> QED BY <1>8, <2>1
<1> QED BY <1>1, <1>8, <1>9

LEMMA LowValFits ==
  ASSUME NEW x \in Bn
  PROVE  \A i \in 0..Words : LowVal(x)[i] \in Nat /\ LowVal(x)[i] < Weight[i]
<1> DEFINE Good == {i \in 0..Words : LowVal(x)[i] \in Nat /\ LowVal(x)[i] < Weight[i]}
<1>1. Words \in Nat /\ 0 \in Good
  BY LowValIs, WeightIs, BignumWords
<1>2. ASSUME NEW n \in 0..Words - 1, n \in Good PROVE n+1 \in Good
  <2>1. n+1 \in 1..2 * Words /\ (n+1)-1 = n /\ n \in 0..2 * Words /\ n+1 \in 0..Words
    BY BignumWords
  <2>2. Weight[n+1] = Weight[n] * Base /\ Weight[n] \in Nat
    BY <2>1, WeightIs, WeightNat
  <2>3. x[n] \in Nat /\ x[n] < Base /\ Base \in Nat
    BY WordFits, BignumWords
  <2>4. /\ LowVal(x)[n] + x[n] * Weight[n] \in Nat
        /\ LowVal(x)[n] + x[n] * Weight[n] < Weight[n] * Base
    BY <1>2, <2>2, <2>3, DigitFits
  <2> QED BY <2>1, <2>2, <2>4, LowValIs
<1> HIDE DEF Good
<1>3. \A n \in 0..Words - 1 : n \in Good => n+1 \in Good
  BY <1>2
<1>4. \A n \in 0..Words : n \in Good
  BY <1>1, <1>3, Upwards
<1> QED BY <1>4 DEF Good

LEMMA ValFits ==
  /\ Modulus \in Nat /\ Modulus >= 1
  /\ \A x \in Bn : Val(x) \in 0..Modulus-1
<1>1. Words \in 0..Words /\ Words \in 0..2 * Words
  BY BignumWords
<1>2. Modulus \in Nat /\ Modulus >= 1
  BY <1>1, WeightNat DEF Modulus
<1>3. ASSUME NEW x \in Bn PROVE Val(x) \in 0..Modulus-1
  BY <1>1, <1>2, <1>3, LowValFits DEF Val, Modulus
<1> QED BY <1>2, <1>3

\* What a sum modulo the size of a number is.
LEMMA ModIs ==
  ASSUME NEW m \in Nat, m >= 1, NEW a \in 0..m-1, NEW q \in Int, NEW n \in Int, n = a + q * m
  PROVE  n % m = a
<1>1. n % m \in 0..m-1 /\ n = (n % m) + (n \div m) * m /\ n \div m \in Int
  OBVIOUS
<1> DEFINE r == n % m
           d == n \div m
<1> HIDE DEF r, d
<1>2. r \in 0..m-1 /\ d \in Int /\ r + d * m = a + q * m
  BY <1>1 DEF r, d
<1>3. ASSUME NEW e \in Nat PROVE (1 + e) * m >= m
  <2>1. (1 + e) * m = m + e * m /\ e * m >= 0
    OBVIOUS
  <2> QED BY <2>1
<1>4. (q - d) * m = q * m - d * m /\ (d - q) * m = d * m - q * m
  BY <1>2
<1>5. ~(d < q)
  <2> SUFFICES ASSUME d < q PROVE FALSE
    OBVIOUS
  <2>1. PICK e \in Nat : q - d = 1 + e
    <3>1. q - d - 1 \in Nat /\ q - d = 1 + (q - d - 1)
      BY <1>2
    <3> QED BY <3>1
  <2>2. (q - d) * m >= m
    BY <1>3, <2>1
  <2> QED BY <1>2, <1>4, <2>2
<1>6. ~(q < d)
  <2> SUFFICES ASSUME q < d PROVE FALSE
    OBVIOUS
  <2>1. PICK e \in Nat : d - q = 1 + e
    <3>1. d - q - 1 \in Nat /\ d - q = 1 + (d - q - 1)
      BY <1>2
    <3> QED BY <3>1
  <2>2. (d - q) * m >= m
    BY <1>3, <2>1
  <2> QED BY <1>2, <1>4, <2>2
<1>7. d = q
  BY <1>2, <1>5, <1>6
<1>8. r = a
  BY <1>2, <1>7
<1> QED BY <1>8 DEF r

-----------------------------------------------------------------------------
\* What goes from word to word.
LEMMA CarryIs ==
  ASSUME NEW x \in Bn, NEW y \in Bn
  PROVE  /\ Carry(x, y)[0] = 0
         /\ \A i \in 0..Words-1 :
              Carry(x, y)[i+1] = IF x[i] + y[i] + Carry(x, y)[i] > Base - 1 THEN 1 ELSE 0
         /\ \A i \in 0..Words : Carry(x, y)[i] \in {0, 1}
<1> DEFINE N == Words
           g == [i \in 1..N |-> [s \in {0, 1} |-> IF x[i-1] + y[i-1] + s > Base - 1 THEN 1 ELSE 0]]
           Eq(f) == f = [i \in 0..N |-> IF i = 0 THEN 0
                                      ELSE IF x[i-1] + y[i-1] + f[i-1] > Base - 1 THEN 1 ELSE 0]
<1>1. N \in Nat
  BY BignumWords
<1>2. g \in [1..N -> [{0, 1} -> {0, 1}]]
  OBVIOUS
<1>3. PICK f \in [0..N -> {0, 1}] : Loop(f, N, 0, g)
  <2>1. 0 \in {0, 1}
    OBVIOUS
  <2> HIDE DEF N, g
  <2> QED BY <1>1, <1>2, <2>1, LoopExists
<1>4. Eq(f)
  <2>1. \A i \in 1..N : g[i][f[i-1]] = IF x[i-1] + y[i-1] + f[i-1] > Base - 1 THEN 1 ELSE 0
    <3> TAKE i \in 1..N
    <3>1. i-1 \in 0..N
      BY <1>1
    <3>2. f[i-1] \in {0, 1}
      BY <3>1
    <3> QED BY <3>2
  <2> HIDE DEF g, N
  <2>2. \A i \in 0..N : f[i] = IF i = 0 THEN 0
                              ELSE IF x[i-1] + y[i-1] + f[i-1] > Base - 1 THEN 1 ELSE 0
    BY <1>1, <1>3, <2>1 DEF Loop
  <2> QED BY <2>2
<1>5. Carry(x, y) = CHOOSE u : Eq(u)
  BY Zenon DEF Carry
<1>6. Eq(Carry(x, y))
  <2> HIDE DEF Eq
  <2> QED BY <1>4, <1>5
<1>7. \A i \in 0..N : Carry(x, y)[i] = IF i = 0 THEN 0
                                   ELSE IF x[i-1] + y[i-1] + Carry(x, y)[i-1] > Base - 1 THEN 1 ELSE 0
  BY <1>6
<1>8. ASSUME NEW i \in 0..Words-1
      PROVE  Carry(x, y)[i+1] = IF x[i] + y[i] + Carry(x, y)[i] > Base - 1 THEN 1 ELSE 0
  <2>1. i+1 \in 0..N /\ i+1 # 0 /\ (i+1)-1 = i
    BY <1>1
  <2> QED BY <1>7, <2>1
<1> QED BY <1>1, <1>7, <1>8

LEMMA BorrowIs ==
  ASSUME NEW x \in Bn, NEW y \in Bn
  PROVE  /\ Borrow(x, y)[0] = 0
         /\ \A i \in 0..Words-1 :
              Borrow(x, y)[i+1] = IF x[i] + Base - (y[i] + Borrow(x, y)[i]) <= Base - 1 THEN 1 ELSE 0
         /\ \A i \in 0..Words : Borrow(x, y)[i] \in {0, 1}
<1> DEFINE N == Words
           g == [i \in 1..N |-> [s \in {0, 1} |-> IF x[i-1] + Base - (y[i-1] + s) <= Base - 1 THEN 1 ELSE 0]]
           Eq(f) == f = [i \in 0..N |-> IF i = 0 THEN 0
                                      ELSE IF x[i-1] + Base - (y[i-1] + f[i-1]) <= Base - 1 THEN 1 ELSE 0]
<1>1. N \in Nat
  BY BignumWords
<1>2. g \in [1..N -> [{0, 1} -> {0, 1}]]
  OBVIOUS
<1>3. PICK f \in [0..N -> {0, 1}] : Loop(f, N, 0, g)
  <2>1. 0 \in {0, 1}
    OBVIOUS
  <2> HIDE DEF N, g
  <2> QED BY <1>1, <1>2, <2>1, LoopExists
<1>4. Eq(f)
  <2>1. \A i \in 1..N : g[i][f[i-1]] = IF x[i-1] + Base - (y[i-1] + f[i-1]) <= Base - 1 THEN 1 ELSE 0
    <3> TAKE i \in 1..N
    <3>1. i-1 \in 0..N
      BY <1>1
    <3>2. f[i-1] \in {0, 1}
      BY <3>1
    <3> QED BY <3>2
  <2> HIDE DEF g, N
  <2>2. \A i \in 0..N : f[i] = IF i = 0 THEN 0
                              ELSE IF x[i-1] + Base - (y[i-1] + f[i-1]) <= Base - 1 THEN 1 ELSE 0
    BY <1>1, <1>3, <2>1 DEF Loop
  <2> QED BY <2>2
<1>5. Borrow(x, y) = CHOOSE u : Eq(u)
  BY Zenon DEF Borrow
<1>6. Eq(Borrow(x, y))
  <2> HIDE DEF Eq
  <2> QED BY <1>4, <1>5
<1>7. \A i \in 0..N : Borrow(x, y)[i] = IF i = 0 THEN 0
                                   ELSE IF x[i-1] + Base - (y[i-1] + Borrow(x, y)[i-1]) <= Base - 1 THEN 1 ELSE 0
  BY <1>6
<1>8. ASSUME NEW i \in 0..Words-1
      PROVE  Borrow(x, y)[i+1] = IF x[i] + Base - (y[i] + Borrow(x, y)[i]) <= Base - 1 THEN 1 ELSE 0
  <2>1. i+1 \in 0..N /\ i+1 # 0 /\ (i+1)-1 = i
    BY <1>1
  <2> QED BY <1>7, <2>1
<1> QED BY <1>1, <1>7, <1>8

LEMMA AddIs ==
  ASSUME NEW x \in Bn, NEW y \in Bn
  PROVE  /\ Add(x, y) \in Bn
         /\ \A i \in 0..Words-1 :
              Add(x, y)[i] + Carry(x, y)[i+1] * Base = x[i] + y[i] + Carry(x, y)[i]
<1> DEFINE c == Carry(x, y)
           f == [i \in 0..Words-1 |-> (x[i] + y[i] + c[i]) % Base]
<1>1. Add(x, y) = f
  BY Zenon DEF Add, Number
<1>2. /\ \A i \in 0..Words-1 : c[i+1] = IF x[i] + y[i] + c[i] > Base - 1 THEN 1 ELSE 0
      /\ \A i \in 0..Words-1 : c[i] \in {0, 1}
  BY CarryIs, BignumWords
<1> HIDE DEF c
<1>3. ASSUME NEW i \in 0..Words-1
      PROVE  f[i] \in 0..Base-1 /\ f[i] + c[i+1] * Base = x[i] + y[i] + c[i]
  <2> DEFINE n == x[i] + y[i] + c[i]
  <2>1. x[i] \in 0..Base-1 /\ y[i] \in 0..Base-1 /\ c[i] \in {0, 1} /\ Base \in Nat /\ Base >= 2
    BY <1>2, BignumWords DEF Bn
  <2>2. n \in Nat /\ n < 2 * Base
    BY <2>1
  <2>3. f[i] = n % Base /\ c[i+1] = IF n > Base - 1 THEN 1 ELSE 0
    BY <1>2
  <2> HIDE DEF n, f
  <2>4. CASE n > Base - 1
    <3>1. n - Base \in 0..Base-1 /\ n = (n - Base) + 1 * Base
      BY <2>1, <2>2, <2>4
    <3>2. n % Base = n - Base
      BY <2>1, <2>2, <3>1, ModIs
    <3> QED BY <2>1, <2>2, <2>3, <2>4, <3>1, <3>2 DEF n
  <2>5. CASE ~(n > Base - 1)
    <3>1. n \in 0..Base-1 /\ n = n + 0 * Base
      BY <2>1, <2>2, <2>5
    <3>2. n % Base = n
      BY <2>1, <2>2, <3>1, ModIs
    <3> QED BY <2>1, <2>2, <2>3, <2>5, <3>1, <3>2 DEF n
  <2> QED BY <2>4, <2>5
<1> QED BY <1>1, <1>3 DEF Bn, c

LEMMA SubIs ==
  ASSUME NEW x \in Bn, NEW y \in Bn
  PROVE  /\ Sub(x, y) \in Bn
         /\ \A i \in 0..Words-1 :
              Sub(x, y)[i] + y[i] + Borrow(x, y)[i] = x[i] + Borrow(x, y)[i+1] * Base
<1> DEFINE c == Borrow(x, y)
           f == [i \in 0..Words-1 |-> (x[i] + Base - (y[i] + c[i])) % Base]
<1>1. Sub(x, y) = f
  BY Zenon DEF Sub, Number
<1>2. /\ \A i \in 0..Words-1 : c[i+1] = IF x[i] + Base - (y[i] + c[i]) <= Base - 1 THEN 1 ELSE 0
      /\ \A i \in 0..Words-1 : c[i] \in {0, 1}
  BY BorrowIs, BignumWords
<1> HIDE DEF c
<1>3. ASSUME NEW i \in 0..Words-1
      PROVE  f[i] \in 0..Base-1 /\ f[i] + y[i] + c[i] = x[i] + c[i+1] * Base
  <2> DEFINE n == x[i] + Base - (y[i] + c[i])
  <2>1. x[i] \in 0..Base-1 /\ y[i] \in 0..Base-1 /\ c[i] \in {0, 1} /\ Base \in Nat /\ Base >= 2
    BY <1>2, BignumWords DEF Bn
  <2>2. n \in Nat /\ n < 2 * Base
    BY <2>1
  <2>3. f[i] = n % Base /\ c[i+1] = IF n <= Base - 1 THEN 1 ELSE 0
    BY <1>2
  <2> HIDE DEF n, f
  <2>4. CASE ~(n <= Base - 1)
    <3>1. n - Base \in 0..Base-1 /\ n = (n - Base) + 1 * Base
      BY <2>1, <2>2, <2>4
    <3>2. n % Base = n - Base
      BY <2>1, <2>2, <3>1, ModIs
    <3> QED BY <2>1, <2>2, <2>3, <2>4, <3>1, <3>2 DEF n
  <2>5. CASE n <= Base - 1
    <3>1. n \in 0..Base-1 /\ n = n + 0 * Base
      BY <2>1, <2>2, <2>5
    <3>2. n % Base = n
      BY <2>1, <2>2, <3>1, ModIs
    <3> QED BY <2>1, <2>2, <2>3, <2>5, <3>1, <3>2 DEF n
  <2> QED BY <2>4, <2>5
<1> QED BY <1>1, <1>3 DEF Bn, c

\* Numbers whose words differ from a sum of words by what goes from word to word: the values
\* differ by what goes into the first word and what is lost behind the last.
LEMMA Summing ==
  ASSUME NEW x \in Bn, NEW y \in Bn, NEW z \in Bn, NEW c,
         \A i \in 0..Words : c[i] \in {0, 1},
         \A i \in 0..Words-1 : z[i] + c[i+1] * Base = x[i] + y[i] + c[i]
  PROVE  Val(z) + c[Words] * Modulus = Val(x) + Val(y) + c[0]
<1> DEFINE Good == {i \in 0..Words :
                      LowVal(z)[i] + c[i] * Weight[i] = LowVal(x)[i] + LowVal(y)[i] + c[0]}
<1>0. Words \in Nat /\ Words \in 0..Words /\ c[0] \in {0, 1}
  BY BignumWords
<1>2. 0 \in Good
  BY <1>0, LowValIs, WeightIs
<1>3. ASSUME NEW n \in 0..Words-1, n \in Good PROVE n+1 \in Good
  <2>1. /\ n+1 \in 1..2 * Words /\ (n+1)-1 = n /\ n \in 0..2 * Words
        /\ n+1 \in 0..Words /\ n \in 0..Words
    BY BignumWords
  <2>2. Weight[n+1] = Weight[n] * Base /\ Weight[n] \in Nat
    BY <2>1, WeightIs, WeightNat
  <2>3. /\ LowVal(z)[n+1] = LowVal(z)[n] + z[n] * Weight[n]
        /\ LowVal(x)[n+1] = LowVal(x)[n] + x[n] * Weight[n]
        /\ LowVal(y)[n+1] = LowVal(y)[n] + y[n] * Weight[n]
    BY LowValIs
  <2>4. LowVal(z)[n] \in Nat /\ LowVal(x)[n] \in Nat /\ LowVal(y)[n] \in Nat
    BY <2>1, LowValFits
  <2>5. /\ z[n] \in Nat /\ x[n] \in Nat /\ y[n] \in Nat /\ Base \in Nat
        /\ c[n] \in Nat /\ c[n+1] \in Nat
    <3>1. c[n] \in {0, 1} /\ c[n+1] \in {0, 1}
      BY <2>1
    <3> QED BY <3>1, WordFits, BignumWords
  <2>6. z[n] + c[n+1] * Base = x[n] + y[n] + c[n]
    OBVIOUS
  <2>7. LowVal(z)[n] + c[n] * Weight[n] = LowVal(x)[n] + LowVal(y)[n] + c[0]
    BY <1>3
  <2> HIDE DEF Good
  <2>8. (z[n] + c[n+1] * Base) * Weight[n] = (x[n] + y[n] + c[n]) * Weight[n]
    BY <2>6
  <2>9. z[n] * Weight[n] + c[n+1] * (Weight[n] * Base)
        = x[n] * Weight[n] + y[n] * Weight[n] + c[n] * Weight[n]
    BY <2>2, <2>5, <2>8
  <2>10. LowVal(z)[n+1] + c[n+1] * Weight[n+1] = LowVal(x)[n+1] + LowVal(y)[n+1] + c[0]
    <3> DEFINE pz == z[n] * Weight[n]
               px == x[n] * Weight[n]
               py == y[n] * Weight[n]
               pc == c[n] * Weight[n]
               pd == c[n+1] * (Weight[n] * Base)
    <3>1. pz \in Nat /\ px \in Nat /\ py \in Nat /\ pc \in Nat /\ pd \in Nat
      BY <2>2, <2>5
    <3>2. c[n+1] * Weight[n+1] = pd
      BY <2>2
    <3>3. pz + pd = px + py + pc
      BY <2>9
    <3>4. LowVal(z)[n] + pc = LowVal(x)[n] + LowVal(y)[n] + c[0]
      BY <2>7
    <3>5. /\ LowVal(z)[n+1] = LowVal(z)[n] + pz
          /\ LowVal(x)[n+1] = LowVal(x)[n] + px
          /\ LowVal(y)[n+1] = LowVal(y)[n] + py
      BY <2>3
    <3> HIDE DEF pz, px, py, pc, pd
    <3>6. LowVal(z)[n+1] + pd = LowVal(x)[n+1] + LowVal(y)[n+1] + c[0]
      BY <1>0, <2>4, <3>1, <3>3, <3>4, <3>5
    <3> QED BY <3>2, <3>6
  <2> QED BY <2>1, <2>10 DEF Good
<1> HIDE DEF Good
<1>4. \A n \in 0..Words-1 : n \in Good => n+1 \in Good
  BY <1>3
<1>5. Words \in Good
  BY <1>0, <1>2, <1>4, Upwards
<1> QED BY <1>5 DEF Good, Val, Modulus

LEMMA AddVal ==
  ASSUME NEW x \in Bn, NEW y \in Bn
  PROVE  /\ Add(x, y) \in Bn
         /\ \E q \in {0, 1} : Val(Add(x, y)) + q * Modulus = Val(x) + Val(y)
<1> DEFINE c == Carry(x, y)
           z == Add(x, y)
<1>1. z \in Bn /\ \A i \in 0..Words-1 : z[i] + c[i+1] * Base = x[i] + y[i] + c[i]
  BY AddIs
<1>2. c[0] = 0 /\ c[Words] \in {0, 1} /\ \A i \in 0..Words : c[i] \in {0, 1}
  BY CarryIs, BignumWords
<1> HIDE DEF c, z
<1>3. Val(z) + c[Words] * Modulus = Val(x) + Val(y) + 0
  BY <1>1, <1>2, Summing
<1>4. Val(x) + Val(y) + 0 = Val(x) + Val(y)
  BY ValFits
<1> QED BY <1>1, <1>2, <1>3, <1>4 DEF z

LEMMA SubVal ==
  ASSUME NEW x \in Bn, NEW y \in Bn
  PROVE  /\ Sub(x, y) \in Bn
         /\ \E q \in {0, 1} : Val(x) + q * Modulus = Val(Sub(x, y)) + Val(y)
<1> DEFINE c == Borrow(x, y)
           z == Sub(x, y)
<1>1. z \in Bn /\ \A i \in 0..Words-1 : z[i] + y[i] + c[i] = x[i] + c[i+1] * Base
  BY SubIs
<1>2. c[0] = 0 /\ c[Words] \in {0, 1} /\ \A i \in 0..Words : c[i] \in {0, 1}
  BY BorrowIs, BignumWords
<1> HIDE DEF c, z
<1>3. Val(x) + c[Words] * Modulus = Val(z) + Val(y) + 0
  BY <1>1, <1>2, Summing
<1>4. Val(z) + Val(y) + 0 = Val(z) + Val(y)
  BY <1>1, ValFits
<1> QED BY <1>1, <1>2, <1>3, <1>4 DEF z

LEMMA ZeroVal == Zero \in Bn /\ Val(Zero) = 0 /\ \A i \in 0..Words-1 : Zero[i] = 0
<1> DEFINE z == [i \in 0..Words-1 |-> 0]
           Good == {i \in 0..Words : LowVal(z)[i] = 0}
<1>1. Zero = z
  BY Zenon DEF Zero, Number
<1>2. z \in Bn /\ Words \in Nat
  BY BignumWords DEF Bn
<1>3. 0 \in Good
  BY <1>2, LowValIs
<1>4. ASSUME NEW n \in 0..Words-1, n \in Good PROVE n+1 \in Good
  <2>1. LowVal(z)[n+1] = LowVal(z)[n] + z[n] * Weight[n]
    BY <1>2, LowValIs
  <2>2. z[n] = 0 /\ Weight[n] \in Nat /\ n+1 \in 0..Words
    BY WeightNat, BignumWords
  <2> HIDE DEF z
  <2> QED BY <1>4, <2>1, <2>2
<1>5. \A n \in 0..Words-1 : n \in Good => n+1 \in Good
  BY <1>4
<1> HIDE DEF Good
<1>6. \A n \in 0..Words : n \in Good
  BY <1>2, <1>3, <1>5, Upwards
<1>7. LowVal(z)[Words] = 0
  BY <1>2, <1>6 DEF Good
<1> QED BY <1>1, <1>2, <1>7 DEF Val

LEMMA IncVal ==
  ASSUME NEW x \in Bn
  PROVE  /\ Inc(x) \in Bn
         /\ \E q \in {0, 1} : Val(Inc(x)) + q * Modulus = Val(x) + 1
<1> DEFINE Full(i) == \A j \in 0..i-1 : x[j] = Base - 1
           c == [i \in 0..Words |-> IF Full(i) THEN 1 ELSE 0]
           z == [i \in 0..Words-1 |-> IF Full(i) THEN (x[i] + 1) % Base ELSE x[i]]
<1>1. Inc(x) = z
  BY Zenon DEF Inc, Number
<1>2. c[0] = 1 /\ c[Words] \in {0, 1} /\ \A i \in 0..Words : c[i] \in {0, 1}
  BY BignumWords
<1>3. ASSUME NEW i \in 0..Words-1
      PROVE  z[i] \in 0..Base-1 /\ z[i] + c[i+1] * Base = x[i] + Zero[i] + c[i]
  <2>1. x[i] \in 0..Base-1 /\ Base \in Nat /\ Base >= 2 /\ Zero[i] = 0
    BY ZeroVal, BignumWords DEF Bn
  <2>2. Full(i+1) <=> Full(i) /\ x[i] = Base - 1
    BY BignumWords
  <2>3. /\ c[i] = IF Full(i) THEN 1 ELSE 0
        /\ c[i+1] = IF Full(i+1) THEN 1 ELSE 0
        /\ z[i] = IF Full(i) THEN (x[i] + 1) % Base ELSE x[i]
    BY BignumWords
  <2> HIDE DEF Full, c, z
  <2>4. CASE Full(i) /\ x[i] = Base - 1
    <3>1. Base % Base = 0
      BY <2>1, ModIs
    <3>2. x[i] + 1 = Base
      BY <2>1, <2>4
    <3> QED BY <2>1, <2>2, <2>3, <2>4, <3>1, <3>2
  <2>5. CASE Full(i) /\ x[i] # Base - 1
    <3> DEFINE s == x[i] + 1
    <3>1. s \in 0..Base-1 /\ s \in Int /\ s = s + 0 * Base
      BY <2>1, <2>5
    <3>2. z[i] = s % Base /\ c[i+1] = 0 /\ c[i] = 1
      BY <2>2, <2>3, <2>5
    <3> HIDE DEF s
    <3>3. s % Base = s
      BY <2>1, <3>1, ModIs
    <3> QED BY <2>1, <3>1, <3>2, <3>3 DEF s
  <2>6. CASE ~Full(i)
    BY <2>1, <2>2, <2>3, <2>6
  <2> QED BY <2>4, <2>5, <2>6
<1>4. z \in Bn
  BY <1>3 DEF Bn
<1> HIDE DEF c, z
<1>5. Val(z) + c[Words] * Modulus = Val(x) + Val(Zero) + 1
  BY <1>2, <1>3, <1>4, ZeroVal, Summing
<1>6. Val(x) + Val(Zero) + 1 = Val(x) + 1
  BY ZeroVal, ValFits
<1> QED BY <1>1, <1>2, <1>4, <1>5, <1>6

LEMMA DecVal ==
  ASSUME NEW x \in Bn
  PROVE  /\ Dec(x) \in Bn
         /\ \E q \in {0, 1} : Val(x) + q * Modulus = Val(Dec(x)) + 1
<1> DEFINE Empty(i) == \A j \in 0..i-1 : x[j] = 0
           c == [i \in 0..Words |-> IF Empty(i) THEN 1 ELSE 0]
           z == [i \in 0..Words-1 |-> IF Empty(i) THEN (x[i] + Base - 1) % Base ELSE x[i]]
<1>1. Dec(x) = z
  BY Zenon DEF Dec, Number
<1>2. c[0] = 1 /\ c[Words] \in {0, 1} /\ \A i \in 0..Words : c[i] \in {0, 1}
  BY BignumWords
<1>3. ASSUME NEW i \in 0..Words-1
      PROVE  z[i] \in 0..Base-1 /\ x[i] + c[i+1] * Base = z[i] + Zero[i] + c[i]
  <2>1. x[i] \in 0..Base-1 /\ Base \in Nat /\ Base >= 2 /\ Zero[i] = 0
    BY ZeroVal, BignumWords DEF Bn
  <2>2. Empty(i+1) <=> Empty(i) /\ x[i] = 0
    BY BignumWords
  <2>3. /\ c[i] = IF Empty(i) THEN 1 ELSE 0
        /\ c[i+1] = IF Empty(i+1) THEN 1 ELSE 0
        /\ z[i] = IF Empty(i) THEN (x[i] + Base - 1) % Base ELSE x[i]
    BY BignumWords
  <2> HIDE DEF Empty, c, z
  <2>4. CASE Empty(i) /\ x[i] = 0
    <3>1. Base - 1 \in 0..Base-1 /\ x[i] + Base - 1 = (Base - 1) + 0 * Base
      BY <2>1, <2>4
    <3>2. (x[i] + Base - 1) % Base = Base - 1
      BY <2>1, <3>1, ModIs
    <3> QED BY <2>1, <2>2, <2>3, <2>4, <3>1, <3>2
  <2>5. CASE Empty(i) /\ x[i] # 0
    <3> DEFINE n == x[i] + Base - 1
               s == x[i] - 1
    <3>1. s \in 0..Base-1 /\ n \in Int /\ n = s + 1 * Base
      BY <2>1, <2>5
    <3>2. z[i] = n % Base /\ c[i+1] = 0 /\ c[i] = 1
      BY <2>2, <2>3, <2>5
    <3> HIDE DEF n, s
    <3>3. n % Base = s
      BY <2>1, <3>1, ModIs
    <3> QED BY <2>1, <3>1, <3>2, <3>3 DEF s
  <2>6. CASE ~Empty(i)
    BY <2>1, <2>2, <2>3, <2>6
  <2> QED BY <2>4, <2>5, <2>6
<1>4. z \in Bn
  BY <1>3 DEF Bn
<1> HIDE DEF c, z
<1>5. Val(x) + c[Words] * Modulus = Val(z) + Val(Zero) + 1
  BY <1>2, <1>3, <1>4, ZeroVal, Summing
<1>6. Val(z) + Val(Zero) + 1 = Val(z) + 1
  BY <1>4, ZeroVal, ValFits
<1> QED BY <1>1, <1>2, <1>4, <1>5, <1>6

-----------------------------------------------------------------------------
\* Numbers and their values.
LEMMA HigherDigit ==
  ASSUME NEW a \in Nat, NEW c \in Nat, NEW b \in Nat, NEW v \in Nat, NEW u \in Nat,
         v < b, u < b, a < c
  PROVE  v + a * b < u + c * b
<1>1. PICK e \in Nat : c = a + 1 + e
  <2>1. c - a - 1 \in Nat /\ c = a + 1 + (c - a - 1)
    OBVIOUS
  <2> QED BY <2>1
<1>2. (a + 1 + e) * b = a * b + b + e * b /\ e * b \in Nat /\ a * b \in Nat
  OBVIOUS
<1> QED BY <1>1, <1>2

LEMMA SameDigits ==
  ASSUME NEW a \in Nat, NEW c \in Nat, NEW b \in Nat, NEW v \in Nat, NEW u \in Nat,
         v < b, u < b, v + a * b = u + c * b
  PROVE  a = c /\ v = u
<1>1. a * b \in Nat /\ c * b \in Nat
  OBVIOUS
<1>2. ~(a < c) /\ ~(c < a)
  BY <1>1, HigherDigit
<1> QED BY <1>1, <1>2

LEMMA LargerVal ==
  ASSUME NEW x \in Bn, NEW y \in Bn, Larger(x, y)
  PROVE  Val(x) > Val(y)
<1>1. PICK i \in 0..Words-1 : x[i] > y[i] /\ \A j \in i+1..Words-1 : x[j] = y[j]
  BY DEF Larger
<1> DEFINE Good == {n \in 0..Words : n > i => LowVal(x)[n] > LowVal(y)[n]}
<1>2. Words \in Nat /\ 0 \in Good
  BY BignumWords
<1>3. ASSUME NEW n \in 0..Words-1, n \in Good PROVE n+1 \in Good
  <2>1. n+1 \in 0..Words /\ n \in 0..Words /\ n \in 0..2 * Words
    BY BignumWords
  <2>2. /\ LowVal(x)[n+1] = LowVal(x)[n] + x[n] * Weight[n]
        /\ LowVal(y)[n+1] = LowVal(y)[n] + y[n] * Weight[n]
    BY LowValIs
  <2>3. /\ LowVal(x)[n] \in Nat /\ LowVal(y)[n] \in Nat /\ Weight[n] \in Nat
        /\ LowVal(x)[n] < Weight[n] /\ LowVal(y)[n] < Weight[n]
    BY <2>1, LowValFits, WeightNat
  <2>4. \A w \in Bn : w[n] \in Nat
    BY WordFits
  <2> HIDE DEF Good
  <2>5. CASE n = i
    <3>1. y[n] < x[n]
      BY <1>1, <2>4, <2>5
    <3>2. LowVal(y)[n] + y[n] * Weight[n] < LowVal(x)[n] + x[n] * Weight[n]
      BY <2>3, <2>4, <3>1, HigherDigit
    <3> QED BY <2>1, <2>2, <2>3, <2>4, <3>2 DEF Good
  <2>6. CASE n > i
    <3>1. x[n] = y[n] /\ LowVal(x)[n] > LowVal(y)[n]
      BY <1>1, <1>3, <2>6 DEF Good
    <3> DEFINE p == y[n] * Weight[n]
    <3>2. p \in Nat /\ LowVal(x)[n+1] = LowVal(x)[n] + p /\ LowVal(y)[n+1] = LowVal(y)[n] + p
      BY <2>2, <2>3, <2>4, <3>1
    <3> HIDE DEF p
    <3>3. LowVal(x)[n+1] > LowVal(y)[n+1]
      BY <2>3, <3>1, <3>2
    <3> QED BY <2>1, <3>3 DEF Good
  <2>7. CASE n < i
    BY <2>1, <2>7 DEF Good
  <2> QED BY <2>5, <2>6, <2>7
<1>4. \A n \in 0..Words-1 : n \in Good => n+1 \in Good
  BY <1>3
<1> HIDE DEF Good
<1>5. \A n \in 0..Words : n \in Good
  BY <1>2, <1>4, Upwards
<1>6. Words \in 0..Words /\ Words > i
  BY <1>2
<1> QED BY <1>5, <1>6 DEF Good, Val

LEMMA SameWords ==
  ASSUME NEW x \in Bn, NEW y \in Bn, ~Larger(x, y), ~Larger(y, x)
  PROVE  x = y
<1> DEFINE Good == {n \in 0..Words : \A j \in Words-n..Words-1 : x[j] = y[j]}
<1>1. Words \in Nat /\ 0 \in Good
  BY BignumWords
<1>2. ASSUME NEW n \in 0..Words-1, n \in Good PROVE n+1 \in Good
  <2> DEFINE i == Words - n - 1
  <2>1. i \in 0..Words-1 /\ n+1 \in 0..Words
    BY <1>1
  <2>2. \A j \in i+1..Words-1 : x[j] = y[j]
    BY <1>1, <1>2
  <2>3. x[i] \in Int /\ y[i] \in Int
    BY <2>1, WordFits
  <2>4. ~(x[i] > y[i]) /\ ~(y[i] > x[i])
    <3> HIDE DEF i
    <3> QED BY <2>1, <2>2 DEF Larger
  <2>5. x[i] = y[i]
    BY <2>3, <2>4
  <2>6. \A j \in Words-(n+1)..Words-1 : j = i \/ j \in i+1..Words-1
    BY <1>1
  <2> QED BY <2>1, <2>2, <2>5, <2>6
<1>3. \A n \in 0..Words-1 : n \in Good => n+1 \in Good
  BY <1>2
<1> HIDE DEF Good
<1>4. \A n \in 0..Words : n \in Good
  BY <1>1, <1>3, Upwards
<1>5. Words \in Good
  BY <1>1, <1>4
<1>6. \A j \in 0..Words-1 : x[j] = y[j]
  <2>1. Words-Words = 0
    BY <1>1
  <2> QED BY <1>5, <2>1 DEF Good
<1>7. x = [j \in 0..Words-1 |-> x[j]] /\ y = [j \in 0..Words-1 |-> y[j]]
  BY DEF Bn
<1> QED BY <1>6, <1>7, Zenon

LEMMA Ordered ==
  ASSUME NEW x \in Bn, NEW y \in Bn
  PROVE  /\ Larger(x, y) <=> Val(x) > Val(y)
         /\ Val(x) = Val(y) => x = y
<1>1. Val(x) \in Int /\ Val(y) \in Int
  BY ValFits
<1>2. Larger(x, y) => Val(x) > Val(y)
  BY LargerVal
<1>3. Larger(y, x) => Val(y) > Val(x)
  BY LargerVal
<1>4. ~Larger(x, y) /\ ~Larger(y, x) => x = y
  BY SameWords
<1> QED BY <1>1, <1>2, <1>3, <1>4

-----------------------------------------------------------------------------
\* Products.
LEMMA WeightSum ==
  \A i, j \in 0..Words : i + j \in 0..2 * Words /\ Weight[i+j] = Weight[i] * Weight[j]
<1> SUFFICES ASSUME NEW i \in 0..Words
             PROVE  \A j \in 0..Words : i + j \in 0..2 * Words /\ Weight[i+j] = Weight[i] * Weight[j]
  OBVIOUS
<1> DEFINE Good == {j \in 0..Words : Weight[i+j] = Weight[i] * Weight[j]}
<1>1. Words \in Nat /\ Words >= 2
  BY BignumWords
<1>2. 0 \in Good
  <2>1. i \in 0..2 * Words /\ i + 0 = i
    BY <1>1
  <2>2. Weight[i] \in Nat /\ Weight[0] = 1
    BY <2>1, WeightNat, WeightIs
  <2> QED BY <1>1, <2>1, <2>2
<1>3. ASSUME NEW n \in 0..Words-1, n \in Good PROVE n+1 \in Good
  <2>1. /\ n+1 \in 1..2 * Words /\ n \in 0..2 * Words /\ (n+1)-1 = n
        /\ i+(n+1) \in 1..2 * Words /\ i+n \in 0..2 * Words /\ (i+(n+1))-1 = i+n
        /\ i \in 0..2 * Words /\ n+1 \in 0..Words
    BY <1>1
  <2>2. Weight[n+1] = Weight[n] * Base /\ Weight[i+(n+1)] = Weight[i+n] * Base
    BY <2>1, WeightIs
  <2>3. Weight[i] \in Nat /\ Weight[n] \in Nat /\ Base \in Nat
    BY <2>1, WeightNat, BignumWords
  <2>4. Weight[i+n] = Weight[i] * Weight[n]
    BY <1>3
  <2> DEFINE u == Weight[i]
             v == Weight[n]
  <2>5. Weight[i+(n+1)] = (u * v) * Base /\ Weight[n+1] = v * Base /\ u \in Nat /\ v \in Nat
    BY <2>2, <2>3, <2>4
  <2>6. Weight[i] = u
    OBVIOUS
  <2> HIDE DEF u, v
  <2>7. (u * v) * Base = u * (v * Base)
    BY <2>3, <2>5
  <2> QED BY <2>1, <2>5, <2>6, <2>7
<1>4. \A n \in 0..Words-1 : n \in Good => n+1 \in Good
  BY <1>3
<1> HIDE DEF Good
<1>5. \A n \in 0..Words : n \in Good
  BY <1>1, <1>2, <1>4, Upwards
<1>6. \A j \in 0..Words : i + j \in 0..2 * Words
  BY <1>1
<1> QED BY <1>5, <1>6 DEF Good

\* The words from a place on stand for a multiple of its weight.
LEMMA LowWords ==
  ASSUME NEW x \in Bn, NEW m \in 1..Words
  PROVE  \E k \in Nat : Val(x) = LowVal(x)[m] + k * Weight[m]
<1> DEFINE low == LowVal(x)[m]
           w == Weight[m]
           Good == {n \in 0..Words : n >= m => \E k \in Nat : LowVal(x)[n] = low + k * w}
<1>1. /\ Words \in Nat /\ m \in 0..Words /\ m \in 0..2 * Words /\ 0 \in Good
      /\ low \in Nat /\ w \in Nat
  <2>1. Words \in Nat /\ m \in 0..Words /\ m \in 0..2 * Words /\ ~(0 >= m) /\ 0 \in 0..Words
    BY BignumWords
  <2> QED BY <2>1, LowValFits, WeightNat
<1>2. ASSUME NEW n \in 0..Words-1, n \in Good PROVE n+1 \in Good
  <2>0. n+1 \in 0..Words /\ n \in Nat /\ m \in Nat
    BY BignumWords
  <2>1. CASE n+1 < m
    BY <2>0, <2>1
  <2>2. CASE n+1 = m
    <3>1. LowVal(x)[n+1] = low + 0 * w
      BY <1>1, <2>2
    <3> QED BY <2>0, <3>1
  <2>3. CASE n+1 > m
    <3>1. n >= m /\ n-m \in 0..Words /\ m + (n-m) = n
      BY <1>1, <2>0, <2>3
    <3>2. PICK k \in Nat : LowVal(x)[n] = low + k * w
      BY <1>2, <3>1
    <3>3. LowVal(x)[n+1] = LowVal(x)[n] + x[n] * Weight[n] /\ x[n] \in Nat
      BY WordFits, LowValIs
    <3>4. Weight[n] = w * Weight[n-m] /\ Weight[n-m] \in Nat
      <4>1. Weight[m + (n-m)] = Weight[m] * Weight[n-m] /\ n-m \in 0..2 * Words
        BY <1>1, <3>1, WeightSum
      <4> QED BY <3>1, <4>1, WeightNat
    <3> DEFINE d == x[n]
               u == Weight[n-m]
    <3>5. LowVal(x)[n+1] = low + k * w + d * (w * u) /\ d \in Nat /\ u \in Nat
      BY <3>2, <3>3, <3>4
    <3> HIDE DEF d, u, w, low
    <3>6. low + k * w + d * (w * u) = low + (k + d * u) * w /\ k + d * u \in Nat
      BY <1>1, <3>5
    <3> QED BY <2>0, <3>5, <3>6
  <2> QED BY <2>0, <2>1, <2>2, <2>3
<1> HIDE DEF Good
<1>3. \A n \in 0..Words-1 : n \in Good => n+1 \in Good
  BY <1>2
<1>4. \A n \in 0..Words : n \in Good
  BY <1>1, <1>3, Upwards
<1>5. Words \in Good /\ Words >= m
  BY <1>1, <1>4
<1> QED BY <1>5 DEF Good, Val

\* The signed number an int holds.
LEMMA IntIsSigned ==
  ASSUME NEW x \in Bn
  PROVE  /\ (ToInt(x) - Val(x)) % Weight[IntWords] = 0
         /\ -Weight[IntWords] <= 2 * ToInt(x) /\ 2 * ToInt(x) < Weight[IntWords]
<1> DEFINE v == LowVal(x)[IntWords]
           w == Weight[IntWords]
           t == ToInt(x)
<1>1. IntWords \in 1..Words /\ IntWords \in 0..Words /\ IntWords \in 0..2 * Words
  BY BignumWords
<1>2. v \in Nat /\ v < w /\ w \in Nat /\ w >= 1
  BY <1>1, LowValFits, WeightNat
<1>3. PICK k \in Nat : Val(x) = v + k * w
  BY <1>1, LowWords
<1>4. t = IF 2 * v >= w THEN v - w ELSE v
  BY DEF ToInt, Signed
<1> HIDE DEF v, w, t
<1>5. -w <= 2 * t /\ 2 * t < w /\ t \in Int
  BY <1>2, <1>4
<1>6. \E q \in Int : t - Val(x) = 0 + q * w
  <2>1. CASE t = v
    <3>1. -k \in Int /\ t - (v + k * w) = 0 + (-k) * w
      BY <1>2, <2>1
    <3> QED BY <1>3, <3>1
  <2>2. CASE t = v - w
    <3>1. -k-1 \in Int /\ t - (v + k * w) = 0 + (-k-1) * w
      BY <1>2, <2>2
    <3> QED BY <1>3, <3>1
  <2> QED BY <1>4, <2>1, <2>2
<1>7. (t - Val(x)) % w = 0
  <2>1. PICK q \in Int : t - Val(x) = 0 + q * w
    BY <1>6
  <2>2. 0 \in 0..w-1 /\ t - Val(x) \in Int
    BY <1>2, <2>1
  <2> QED BY <1>2, <2>1, <2>2, ModIs
<1> QED BY <1>5, <1>7 DEF t, w

\* A product of two words, its parts.
LEMMA TwoWords ==
  ASSUME NEW d \in 0..Base-1, NEW e \in 0..Base-1
  PROVE  /\ d * e \in Nat
         /\ (d * e) % Base \in 0..Base-1
         /\ (d * e) \div Base \in 0..Base-1
         /\ d * e = ((d * e) % Base) + ((d * e) \div Base) * Base
<1>1. Base \in Nat /\ Base >= 2
  BY BignumWords
<1> DEFINE p == d * e
<1>2. p \in Nat
  BY <1>1
<1>3. p <= (Base - 1) * e
  <2>1. PICK k \in Nat : Base - 1 = d + k
    <3>1. Base - 1 - d \in Nat /\ Base - 1 = d + (Base - 1 - d)
      BY <1>1
    <3> QED BY <3>1
  <2>2. (d + k) * e = d * e + k * e /\ k * e \in Nat /\ d * e \in Nat
    BY <1>1
  <2> QED BY <2>1, <2>2
<1>4. (Base - 1) * e = Base * e - e /\ Base * e \in Nat
  BY <1>1
<1>5. p <= Base * e
  <2> HIDE DEF p
  <2> QED BY <1>1, <1>2, <1>3, <1>4
<1> HIDE DEF p
<1>6. p % Base \in 0..Base-1 /\ p = (p % Base) + (p \div Base) * Base /\ p \div Base \in Int
  BY <1>1, <1>2
<1> DEFINE q == p \div Base
           r == p % Base
<1>7. r \in 0..Base-1 /\ p = r + q * Base /\ q \in Int
  BY <1>6
<1> HIDE DEF q, r
<1>8. q >= 0
  <2> SUFFICES ASSUME q < 0 PROVE FALSE
    BY <1>7
  <2>1. PICK k \in Nat : q = -1 - k
    <3>1. -1 - q \in Nat /\ q = -1 - (-1 - q)
      BY <1>7
    <3> QED BY <3>1
  <2>2. q * Base = -Base - k * Base /\ k * Base \in Nat
    BY <1>1, <2>1
  <2> QED BY <1>1, <1>2, <1>7, <2>2
<1>9. q <= e
  <2> SUFFICES ASSUME q > e PROVE FALSE
    BY <1>1, <1>7
  <2>1. PICK k \in Nat : q = e + 1 + k
    <3>1. q - e - 1 \in Nat /\ q = e + 1 + (q - e - 1)
      BY <1>1, <1>7
    <3> QED BY <3>1
  <2>2. q * Base = Base * e + Base + k * Base /\ k * Base \in Nat
    BY <1>1, <2>1
  <2> QED BY <1>1, <1>2, <1>4, <1>5, <1>7, <2>2
<1>10. q \in 0..Base-1
  BY <1>1, <1>7, <1>8, <1>9
<1> QED BY <1>2, <1>7, <1>10 DEF p, q, r

\* The product at its place, without what lies behind the last word.
LEMMA PlacedVal ==
  ASSUME NEW d \in 0..Base-1, NEW e \in 0..Base-1, NEW n \in 0..Words-1
  PROVE  /\ LshiftWord(FromInt(d * e), n) \in Bn
         /\ \E q \in Nat : Val(LshiftWord(FromInt(d * e), n)) + q * Modulus = (d * e) * Weight[n]
<1> DEFINE p == d * e
           lo == p % Base
           hi == p \div Base
           f == [i \in 0..Words-1 |-> IF i = 0 THEN p % Base
                                      ELSE IF i = 1 THEN (p \div Base) % Base ELSE 0]
           z == [i \in 0..Words-1 |-> IF i >= n THEN f[i-n] ELSE 0]
<1>1. Words \in Nat /\ Words >= 2 /\ Base \in Nat /\ Base >= 2
  BY BignumWords
<1>2. FromInt(p) = f
  BY Zenon DEF FromInt, Number
<1>3. LshiftWord(f, n) = z
  BY Zenon DEF LshiftWord, Number
<1>4. lo \in 0..Base-1 /\ hi \in 0..Base-1 /\ p = lo + hi * Base /\ p \in Nat
  BY TwoWords
<1>5. f = [i \in 0..Words-1 |-> IF i = 0 THEN lo ELSE IF i = 1 THEN hi ELSE 0]
  <2>1. hi % Base = hi
    <3>1. hi = hi + 0 * Base
      BY <1>1, <1>4
    <3> HIDE DEF hi
    <3> QED BY <1>1, <1>4, <3>1, ModIs
  <2> QED BY <2>1
<1> HIDE DEF f, lo, hi, p
<1>6. \A i \in 0..Words-1 : z[i] = IF i = n THEN lo ELSE IF i = n+1 THEN hi ELSE 0
  <2> TAKE i \in 0..Words-1
  <2>1. CASE i >= n
    <3>1. i-n \in 0..Words-1 /\ (i-n = 0 <=> i = n) /\ (i-n = 1 <=> i = n+1)
      BY <1>1, <2>1
    <3>2. z[i] = f[i-n]
      BY <2>1
    <3>3. f[i-n] = IF i-n = 0 THEN lo ELSE IF i-n = 1 THEN hi ELSE 0
      BY <1>5, <3>1
    <3> QED BY <3>1, <3>2, <3>3
  <2>2. CASE ~(i >= n)
    BY <1>1, <2>2
  <2> QED BY <2>1, <2>2
<1>7. z \in Bn
  <2>1. \A i \in 0..Words-1 : z[i] \in 0..Base-1
    BY <1>1, <1>4, <1>6
  <2> QED BY <2>1 DEF Bn
<1> DEFINE w == Weight[n]
<1>8. w \in Nat /\ n \in 0..2 * Words
  BY <1>1, WeightNat
<1>9. Weight[n+1] = w * Base
  <2>1. n+1 \in 1..2 * Words /\ (n+1)-1 = n
    BY <1>1
  <2> QED BY <2>1, WeightIs
<1> HIDE DEF z, w
<1>10. p * w = lo * w + hi * (w * Base) /\ lo * w \in Nat /\ hi * (w * Base) \in Nat
  BY <1>1, <1>4, <1>8
<1> DEFINE Good == {m \in 0..Words :
                      LowVal(z)[m] = IF m <= n THEN 0 ELSE IF m = n+1 THEN lo * w ELSE p * w}
<1>11. 0 \in Good
  BY <1>1, <1>7, LowValIs
<1>12. ASSUME NEW m \in 0..Words-1, m \in Good PROVE m+1 \in Good
  <2>1. LowVal(z)[m+1] = LowVal(z)[m] + z[m] * Weight[m]
    BY <1>7, LowValIs
  <2>2. Weight[m] \in Nat /\ m+1 \in 0..Words
    BY <1>1, WeightNat
  <2>3. LowVal(z)[m] = IF m <= n THEN 0 ELSE IF m = n+1 THEN lo * w ELSE p * w
    BY <1>12
  <2>4. z[m] = IF m = n THEN lo ELSE IF m = n+1 THEN hi ELSE 0
    BY <1>6
  <2> HIDE DEF Good
  <2>5. LowVal(z)[m+1] = IF m+1 <= n THEN 0 ELSE IF m+1 = n+1 THEN lo * w ELSE p * w
    <3>1. CASE m < n
      BY <2>1, <2>2, <2>3, <2>4, <3>1
    <3>2. CASE m = n
      <4>1. LowVal(z)[m+1] = 0 + lo * w
        BY <2>1, <2>3, <2>4, <3>2 DEF w
      <4>2. 0 + lo * w = lo * w
        BY <1>10
      <4> QED BY <3>2, <4>1, <4>2
    <3>3. CASE m = n+1
      <4>1. LowVal(z)[m+1] = lo * w + hi * (w * Base)
        BY <1>9, <2>1, <2>3, <2>4, <3>3
      <4> QED BY <1>10, <3>3, <4>1
    <3>4. CASE m > n+1
      <4>1. LowVal(z)[m+1] = p * w + 0 * Weight[m]
        BY <2>1, <2>3, <2>4, <3>4
      <4>2. p * w \in Nat
        BY <1>4, <1>8
      <4>3. p * w + 0 * Weight[m] = p * w
        BY <2>2, <4>2
      <4> QED BY <3>4, <4>1, <4>3
    <3> QED BY <3>1, <3>2, <3>3, <3>4
  <2> QED BY <2>2, <2>5 DEF Good
<1>13. \A m \in 0..Words-1 : m \in Good => m+1 \in Good
  BY <1>12
<1> HIDE DEF Good
<1>14. \A m \in 0..Words : m \in Good
  BY <1>1, <1>11, <1>13, Upwards
<1>15. Words \in 0..Words
  BY <1>1
<1>16. Val(z) = IF Words = n+1 THEN lo * w ELSE p * w
  <2>1. ~(Words <= n)
    BY <1>1
  <2> QED BY <1>14, <1>15, <2>1 DEF Good, Val
<1>17. \E q \in Nat : Val(z) + q * Modulus = p * w
  <2>1. CASE Words = n+1
    <3>1. Modulus = w * Base
      BY <1>9, <2>1 DEF Modulus
    <3>2. Val(z) + hi * Modulus = p * w
      BY <1>10, <1>16, <2>1, <3>1
    <3> QED BY <1>4, <3>2
  <2>2. CASE Words # n+1
    <3>1. p * w + 0 * Modulus = p * w
      BY <1>4, <1>8, ValFits
    <3> QED BY <1>16, <2>2, <3>1
  <2> QED BY <2>1, <2>2
<1> QED BY <1>2, <1>3, <1>7, <1>17 DEF p, w

\* Two values that agree but for what is lost behind the last word.
Same(v, n) == \E k \in Int : v + k * Modulus = n

LEMMA SameSum ==
  ASSUME NEW v \in Int, NEW n \in Int, NEW u \in Int, NEW m \in Int, NEW s \in Int,
         Same(v, n), Same(u, m), Same(s, v + u)
  PROVE  Same(s, n + m)
<1>1. PICK k \in Int : v + k * Modulus = n
  BY DEF Same
<1>2. PICK l \in Int : u + l * Modulus = m
  BY DEF Same
<1>3. PICK q \in Int : s + q * Modulus = v + u
  BY DEF Same
<1>4. (k + l + q) * Modulus = k * Modulus + l * Modulus + q * Modulus /\ k + l + q \in Int
  BY ValFits
<1>5. k * Modulus \in Int /\ l * Modulus \in Int /\ q * Modulus \in Int
  BY ValFits
<1>6. s + (k + l + q) * Modulus = n + m
  BY <1>1, <1>2, <1>3, <1>4, <1>5
<1> QED BY <1>4, <1>6 DEF Same

LEMMA SameAdd ==
  ASSUME NEW x \in Bn, NEW y \in Bn, NEW n \in Int, NEW m \in Int,
         Same(Val(x), n), Same(Val(y), m)
  PROVE  Add(x, y) \in Bn /\ Same(Val(Add(x, y)), n + m)
<1>1. Add(x, y) \in Bn /\ Same(Val(Add(x, y)), Val(x) + Val(y))
  BY AddVal DEF Same
<1>2. Val(x) \in Int /\ Val(y) \in Int /\ Val(Add(x, y)) \in Int
  BY <1>1, ValFits
<1> QED BY <1>1, <1>2, SameSum

LEMMA RowIs ==
  ASSUME NEW x \in Bn, NEW y \in Bn, NEW i \in 0..Words-1
  PROVE  \E f : /\ f[0] = Zero
                /\ \A j \in 0..Words-1 :
                     f[j+1] = IF i + j < Words
                              THEN Add(LshiftWord(FromInt(x[i] * y[j]), i + j), f[j])
                              ELSE f[j]
                /\ Row(x, y, i) = f[Words]
<1> DEFINE N == Words
           Turn(j, s) == IF i + j - 1 < Words
                         THEN Add(LshiftWord(FromInt(x[i] * y[j-1]), i + j - 1), s)
                         ELSE s
           g == [j \in 1..N |-> [s \in Bn |-> Turn(j, s)]]
           Eq(f) == f = [j \in 0..N |-> IF j = 0 THEN Zero
                           ELSE IF i + j - 1 < Words
                                THEN Add(LshiftWord(FromInt(x[i] * y[j-1]), i + j - 1), f[j-1])
                           ELSE f[j-1]]
           row == CHOOSE u : Eq(u)
<1>1. N \in Nat
  BY BignumWords
<1>2. ASSUME NEW j \in 1..N, NEW s \in Bn PROVE Turn(j, s) \in Bn
  <2>1. CASE i + j - 1 < Words
    <3> DEFINE n == i + j - 1
    <3>1. n \in 0..Words-1 /\ j-1 \in 0..Words-1
      BY <1>1, <2>1
    <3>2. x[i] \in 0..Base-1 /\ y[j-1] \in 0..Base-1
      BY <3>1, WordFits
    <3> HIDE DEF n
    <3>3. LshiftWord(FromInt(x[i] * y[j-1]), n) \in Bn
      BY <3>1, <3>2, PlacedVal
    <3>4. Add(LshiftWord(FromInt(x[i] * y[j-1]), n), s) \in Bn
      BY <3>3, AddIs
    <3> QED BY <2>1, <3>4 DEF n
  <2>2. CASE ~(i + j - 1 < Words)
    BY <2>2
  <2> QED BY <2>1, <2>2
<1>3. g \in [1..N -> [Bn -> Bn]]
  <2> HIDE DEF Turn
  <2> QED BY <1>2
<1>4. PICK f \in [0..N -> Bn] : Loop(f, N, Zero, g)
  <2>1. Zero \in Bn
    BY ZeroVal
  <2> HIDE DEF N, g
  <2> QED BY <1>1, <1>3, <2>1, LoopExists
<1>5. Eq(f)
  <2>1. \A j \in 1..N : g[j][f[j-1]] = Turn(j, f[j-1])
    <3> HIDE DEF Turn
    <3> TAKE j \in 1..N
    <3>1. j-1 \in 0..N
      BY <1>1
    <3>2. f[j-1] \in Bn
      BY <3>1
    <3> QED BY <3>2
  <2>2. ASSUME NEW j \in 0..N
        PROVE  f[j] = IF j = 0 THEN Zero ELSE Turn(j, f[j-1])
    <3> HIDE DEF Turn, g, N
    <3>1. CASE j = 0
      BY <1>4, <3>1 DEF Loop
    <3>2. CASE j # 0
      <4>1. j \in 1..N
        BY <1>1, <3>2
      <4> QED BY <1>4, <2>1, <3>2, <4>1 DEF Loop
    <3> QED BY <3>1, <3>2
  <2>3. f = [j \in 0..N |-> f[j]]
    BY <1>1
  <2>4. f = [j \in 0..N |-> IF j = 0 THEN Zero ELSE Turn(j, f[j-1])]
    <3> HIDE DEF Turn, N, g
    <3> QED BY <2>2, <2>3, Zenon
  <2> QED BY <2>4, Zenon
<1>6. Eq(row)
  <2> HIDE DEF Eq
  <2> QED BY <1>5
<1>7. Row(x, y, i) = row[Words]
  BY Zenon DEF Row
<1> HIDE DEF row
<1>8. \A j \in 0..N : row[j] = IF j = 0 THEN Zero
                           ELSE IF i + j - 1 < Words
                                THEN Add(LshiftWord(FromInt(x[i] * y[j-1]), i + j - 1), row[j-1])
                           ELSE row[j-1]
  BY <1>6, Zenon
<1>9. ASSUME NEW j \in 0..Words-1
      PROVE  row[j+1] = IF i + j < Words
                        THEN Add(LshiftWord(FromInt(x[i] * y[j]), i + j), row[j])
                        ELSE row[j]
  <2>1. j+1 \in 0..N /\ j+1 # 0 /\ (j+1)-1 = j /\ i + (j+1) - 1 = i + j
    BY <1>1
  <2> QED BY <1>8, <2>1
<1>10. row[0] = Zero
  BY <1>1, <1>8
<1> QED BY <1>7, <1>9, <1>10

\* A row is the product of a word at its place and a number, modulo the size of a number.
LEMMA RowVal ==
  ASSUME NEW x \in Bn, NEW y \in Bn, NEW i \in 0..Words-1
  PROVE  /\ Row(x, y, i) \in Bn
         /\ Same(Val(Row(x, y, i)), (x[i] * Weight[i]) * Val(y))
<1>1. PICK f : /\ f[0] = Zero
               /\ \A j \in 0..Words-1 :
                    f[j+1] = IF i + j < Words
                             THEN Add(LshiftWord(FromInt(x[i] * y[j]), i + j), f[j])
                             ELSE f[j]
               /\ Row(x, y, i) = f[Words]
  BY RowIs
<1>2. Words \in Nat /\ Base \in Nat /\ i \in 0..Words /\ i \in 0..2 * Words /\ Words \in 0..Words
  BY BignumWords
<1> DEFINE d == x[i]
           w == Weight[i]
<1>3. d \in 0..Base-1 /\ d \in Nat /\ w \in Nat
  <2>1. d \in 0..Base-1
    BY WordFits
  <2> QED BY <1>2, <2>1, WeightNat
<1> HIDE DEF d, w
<1> DEFINE dw == d * w
<1>4. dw \in Nat
  BY <1>3
<1> HIDE DEF dw
<1> DEFINE Good == {j \in 0..Words : f[j] \in Bn /\ Same(Val(f[j]), dw * LowVal(y)[j])}
<1>5. 0 \in Good
  <2>1. dw * 0 = 0 /\ 0 + 0 * Modulus = 0
    BY <1>4, ValFits
  <2> QED BY <1>1, <1>2, <2>1, ZeroVal, LowValIs DEF Same
<1>6. ASSUME NEW j \in 0..Words-1, j \in Good PROVE j+1 \in Good
  <2>1. j+1 \in 0..Words /\ j \in 0..Words /\ j \in 0..2 * Words
    BY <1>2
  <2> DEFINE e == y[j]
             v == Weight[j]
             l == LowVal(y)[j]
             t == d * e
  <2>2. e \in 0..Base-1 /\ e \in Nat /\ v \in Nat /\ l \in Nat
    <3>1. e \in 0..Base-1
      BY WordFits
    <3> QED BY <1>2, <2>1, <3>1, WeightNat, LowValFits
  <2>3. LowVal(y)[j+1] = l + e * v
    BY LowValIs
  <2>4. Weight[i+j] = w * v /\ i+j \in 0..2 * Words
    BY <1>2, <2>1, WeightSum DEF w
  <2>5. f[j] \in Bn /\ Same(Val(f[j]), dw * l)
    BY <1>6
  <2>6. f[j+1] = IF i + j < Words THEN Add(LshiftWord(FromInt(t), i + j), f[j]) ELSE f[j]
    BY <1>1 DEF d
  <2> HIDE DEF Good, e, v, l
  <2>7. /\ dw * (l + e * v) = t * (w * v) + dw * l
        /\ t * (w * v) \in Nat /\ dw * l \in Nat /\ t \in Nat
    BY <1>3, <1>4, <2>2 DEF dw
  <2>8. CASE i + j < Words
    <3> DEFINE n == i + j
               z == LshiftWord(FromInt(t), n)
    <3>1. n \in 0..Words-1
      BY <1>2, <2>8
    <3>2. z \in Bn /\ \E q \in Nat : Val(z) + q * Modulus = t * Weight[n]
      <4> HIDE DEF n
      <4> QED BY <1>3, <2>2, <3>1, PlacedVal
    <3>3. Same(Val(z), t * (w * v))
      <4> HIDE DEF z
      <4>1. PICK q \in Nat : Val(z) + q * Modulus = t * Weight[n]
        BY <3>2
      <4>2. q \in Int
        OBVIOUS
      <4> QED BY <2>4, <4>1, <4>2 DEF Same
    <3>4. f[j+1] = Add(z, f[j])
      BY <2>6, <2>8
    <3> HIDE DEF z, n, t
    <3>5. f[j+1] \in Bn /\ Same(Val(f[j+1]), t * (w * v) + dw * l)
      BY <2>5, <2>7, <3>2, <3>3, <3>4, SameAdd
    <3> QED BY <2>1, <2>3, <2>7, <3>5 DEF Good
  <2>9. CASE ~(i + j < Words)
    <3> DEFINE n == i + j - Words
    <3>1. n \in 0..Words /\ i + j = Words + n /\ n \in 0..2 * Words
      BY <1>2, <2>9
    <3> HIDE DEF n
    <3>2. w * v = Modulus * Weight[n] /\ Weight[n] \in Nat
      BY <1>2, <2>4, <3>1, WeightSum, WeightNat DEF Modulus
    <3>3. f[j+1] = f[j]
      BY <2>6, <2>9
    <3>4. PICK k \in Int : Val(f[j]) + k * Modulus = dw * l
      BY <2>5 DEF Same
    <3> DEFINE u == Weight[n]
               M == Modulus
    <3>5. u \in Nat /\ M \in Nat /\ Val(f[j]) \in Int
      BY <2>5, <3>2, ValFits
    <3>6. Val(f[j]) + k * M = dw * l /\ t * (w * v) = t * (M * u)
      BY <3>2, <3>4
    <3>61. Modulus = M
      OBVIOUS
    <3> HIDE DEF u, M, t
    <3>7. (k + t * u) * M = k * M + t * (M * u) /\ k + t * u \in Int /\ k * M \in Int
      BY <2>7, <3>5
    <3>8. Val(f[j]) + (k + t * u) * M = t * (w * v) + dw * l
      BY <2>7, <3>5, <3>6, <3>7
    <3>9. Same(Val(f[j+1]), t * (w * v) + dw * l)
      BY <3>3, <3>61, <3>7, <3>8 DEF Same
    <3> QED BY <2>1, <2>3, <2>5, <2>7, <3>3, <3>9 DEF Good
  <2> QED BY <2>8, <2>9
<1>7. \A j \in 0..Words-1 : j \in Good => j+1 \in Good
  BY <1>6
<1> HIDE DEF Good
<1>8. Words \in Good
  BY <1>2, <1>5, <1>7, Upwards
<1> QED BY <1>1, <1>8 DEF Good, Val, dw, d, w

LEMMA MulIs ==
  ASSUME NEW x \in Bn, NEW y \in Bn
  PROVE  \E f : /\ f[0] = Zero
                /\ \A i \in 0..Words-1 : f[i+1] = Add(f[i], Row(x, y, i))
                /\ Mul(x, y) = f[Words]
<1> DEFINE N == Words
           Turn(i, s) == Add(s, Row(x, y, i - 1))
           g == [i \in 1..N |-> [s \in Bn |-> Turn(i, s)]]
           Eq(f) == f = [i \in 0..N |-> IF i = 0 THEN Zero ELSE Add(f[i-1], Row(x, y, i - 1))]
           sum == CHOOSE u : Eq(u)
<1>1. N \in Nat
  BY BignumWords
<1>2. ASSUME NEW i \in 1..N, NEW s \in Bn PROVE Turn(i, s) \in Bn
  <2>1. i-1 \in 0..Words-1
    BY <1>1
  <2>2. Row(x, y, i-1) \in Bn
    BY <2>1, RowVal
  <2> QED BY <2>2, AddIs
<1>3. g \in [1..N -> [Bn -> Bn]]
  <2> HIDE DEF Turn
  <2> QED BY <1>2
<1>4. PICK f \in [0..N -> Bn] : Loop(f, N, Zero, g)
  <2>1. Zero \in Bn
    BY ZeroVal
  <2> HIDE DEF N, g
  <2> QED BY <1>1, <1>3, <2>1, LoopExists
<1>5. Eq(f)
  <2>1. \A i \in 1..N : g[i][f[i-1]] = Turn(i, f[i-1])
    <3> HIDE DEF Turn
    <3> TAKE i \in 1..N
    <3>1. i-1 \in 0..N
      BY <1>1
    <3>2. f[i-1] \in Bn
      BY <3>1
    <3> QED BY <3>2
  <2>2. ASSUME NEW i \in 0..N
        PROVE  f[i] = IF i = 0 THEN Zero ELSE Turn(i, f[i-1])
    <3> HIDE DEF Turn, g, N
    <3>1. CASE i = 0
      BY <1>4, <3>1 DEF Loop
    <3>2. CASE i # 0
      <4>1. i \in 1..N
        BY <1>1, <3>2
      <4> QED BY <1>4, <2>1, <3>2, <4>1 DEF Loop
    <3> QED BY <3>1, <3>2
  <2>3. f = [i \in 0..N |-> f[i]]
    BY <1>1
  <2>4. f = [i \in 0..N |-> IF i = 0 THEN Zero ELSE Turn(i, f[i-1])]
    <3> HIDE DEF Turn, N, g
    <3> QED BY <2>2, <2>3, Zenon
  <2> QED BY <2>4, Zenon
<1>6. Eq(sum)
  <2> HIDE DEF Eq
  <2> QED BY <1>5
<1>7. Mul(x, y) = sum[Words]
  BY Zenon DEF Mul
<1> HIDE DEF sum
<1>8. \A i \in 0..N : sum[i] = IF i = 0 THEN Zero ELSE Add(sum[i-1], Row(x, y, i - 1))
  BY <1>6, Zenon
<1>9. ASSUME NEW i \in 0..Words-1
      PROVE  sum[i+1] = Add(sum[i], Row(x, y, i))
  <2>1. i+1 \in 0..N /\ i+1 # 0 /\ (i+1)-1 = i
    BY <1>1
  <2> QED BY <1>8, <2>1
<1>10. sum[0] = Zero
  BY <1>1, <1>8
<1> QED BY <1>7, <1>9, <1>10

LEMMA MulVal ==
  ASSUME NEW x \in Bn, NEW y \in Bn
  PROVE  Mul(x, y) \in Bn /\ Same(Val(Mul(x, y)), Val(x) * Val(y))
<1>1. PICK f : /\ f[0] = Zero
               /\ \A i \in 0..Words-1 : f[i+1] = Add(f[i], Row(x, y, i))
               /\ Mul(x, y) = f[Words]
  BY MulIs
<1> DEFINE b == Val(y)
<1>2. Words \in Nat /\ Words \in 0..Words /\ b \in Nat
  BY BignumWords, ValFits
<1> HIDE DEF b
<1> DEFINE Good == {i \in 0..Words : f[i] \in Bn /\ Same(Val(f[i]), LowVal(x)[i] * b)}
<1>3. 0 \in Good
  <2>1. 0 * b = 0 /\ 0 + 0 * Modulus = 0
    BY <1>2, ValFits
  <2> QED BY <1>1, <1>2, <2>1, ZeroVal, LowValIs DEF Same
<1>4. ASSUME NEW i \in 0..Words-1, i \in Good PROVE i+1 \in Good
  <2>1. i+1 \in 0..Words /\ i \in 0..Words /\ i \in 0..2 * Words
    BY <1>2
  <2> DEFINE p == x[i] * Weight[i]
             l == LowVal(x)[i]
  <2>2. p \in Nat /\ l \in Nat
    <3>1. x[i] \in Nat /\ Weight[i] \in Nat
      BY <2>1, WordFits, WeightNat
    <3> QED BY <2>1, <3>1, LowValFits
  <2>3. LowVal(x)[i+1] = l + p
    BY LowValIs
  <2>4. f[i] \in Bn /\ Same(Val(f[i]), l * b)
    BY <1>4
  <2>5. Row(x, y, i) \in Bn /\ Same(Val(Row(x, y, i)), p * b)
    BY RowVal DEF b
  <2> HIDE DEF Good, p, l
  <2>6. (l + p) * b = l * b + p * b /\ l * b \in Int /\ p * b \in Int
    BY <1>2, <2>2
  <2>7. f[i+1] \in Bn /\ Same(Val(f[i+1]), l * b + p * b)
    BY <1>1, <2>4, <2>5, <2>6, SameAdd
  <2> QED BY <2>1, <2>3, <2>6, <2>7 DEF Good
<1>5. \A i \in 0..Words-1 : i \in Good => i+1 \in Good
  BY <1>4
<1> HIDE DEF Good
<1>6. Words \in Good
  BY <1>2, <1>3, <1>5, Upwards
<1> QED BY <1>1, <1>6 DEF Good, Val, b

LEMMA SameMod ==
  ASSUME NEW x \in Bn, NEW n \in Int, Same(Val(x), n)
  PROVE  Val(x) = n % Modulus
<1>1. Modulus \in Nat /\ Modulus >= 1 /\ Val(x) \in 0..Modulus-1
  BY ValFits
<1>2. PICK k \in Int : n = Val(x) + k * Modulus
  BY DEF Same
<1> QED BY <1>1, <1>2, ModIs

LEMMA SubUndoesAdd ==
  ASSUME NEW x \in Bn, NEW y \in Bn
  PROVE  Sub(Add(x, y), y) = x
<1> DEFINE s == Add(x, y)
           d == Sub(s, y)
<1>1. s \in Bn /\ \E q \in {0, 1} : Val(s) + q * Modulus = Val(x) + Val(y)
  BY AddVal
<1> HIDE DEF s
<1>2. d \in Bn /\ \E q \in {0, 1} : Val(s) + q * Modulus = Val(d) + Val(y)
  BY <1>1, SubVal
<1> HIDE DEF d
<1>3. /\ Modulus \in Nat /\ Val(x) \in 0..Modulus-1 /\ Val(d) \in 0..Modulus-1
      /\ Val(s) \in Nat /\ Val(y) \in Nat
  BY <1>1, <1>2, ValFits
<1>4. Val(d) = Val(x)
  BY <1>1, <1>2, <1>3
<1>5. d = x
  BY <1>2, <1>4, Ordered
<1> QED BY <1>5 DEF d, s

LEMMA CallExact ==
  ASSUME NEW a \in Bn, NEW b \in Bn
  PROVE  /\ Val(Add(a, b)) = (Val(a) + Val(b)) % Modulus
         /\ Val(Sub(a, b)) = (Val(a) - Val(b)) % Modulus
         /\ Val(Mul(a, b)) = (Val(a) * Val(b)) % Modulus
         /\ Sub(Add(a, b), b) = a
         /\ Val(Inc(a)) = (Val(a) + 1) % Modulus
         /\ Val(Dec(a)) = (Val(a) - 1) % Modulus
         /\ (ToInt(a) - Val(a)) % Weight[IntWords] = 0
         /\ -Weight[IntWords] <= 2 * ToInt(a) /\ 2 * ToInt(a) < Weight[IntWords]
         /\ Larger(a, b) <=> Val(a) > Val(b)
         /\ Val(a) = Val(b) => a = b
<1>1. Val(a) \in Nat /\ Val(b) \in Nat /\ Val(a) * Val(b) \in Nat /\ Modulus \in Nat
  BY ValFits
<1>2. Val(Add(a, b)) = (Val(a) + Val(b)) % Modulus
  <2>1. Add(a, b) \in Bn /\ Same(Val(Add(a, b)), Val(a) + Val(b))
    BY AddVal DEF Same
  <2> QED BY <1>1, <2>1, SameMod
<1>3. Val(Sub(a, b)) = (Val(a) - Val(b)) % Modulus
  <2>1. PICK q \in {0, 1} : Val(a) + q * Modulus = Val(Sub(a, b)) + Val(b)
    BY SubVal
  <2>2. Sub(a, b) \in Bn /\ Val(Sub(a, b)) \in Int
    BY SubVal, ValFits
  <2>3. PICK k \in Int : Val(Sub(a, b)) + k * Modulus = Val(a) - Val(b)
    <3>1. Val(Sub(a, b)) + (-q) * Modulus = Val(a) - Val(b) /\ -q \in Int
      BY <1>1, <2>1, <2>2
    <3> QED BY <3>1
  <2>4. Same(Val(Sub(a, b)), Val(a) - Val(b))
    BY <2>3, Zenon DEF Same
  <2>5. Val(a) - Val(b) \in Int
    BY <1>1
  <2> QED BY <2>2, <2>4, <2>5, SameMod
<1>4. Val(Mul(a, b)) = (Val(a) * Val(b)) % Modulus
  BY <1>1, MulVal, SameMod
<1>5. Val(Inc(a)) = (Val(a) + 1) % Modulus
  <2>1. Inc(a) \in Bn /\ Same(Val(Inc(a)), Val(a) + 1)
    BY IncVal DEF Same
  <2> QED BY <1>1, <2>1, SameMod
<1>6. Val(Dec(a)) = (Val(a) - 1) % Modulus
  <2>1. PICK q \in {0, 1} : Val(a) + q * Modulus = Val(Dec(a)) + 1
    BY DecVal
  <2>2. Dec(a) \in Bn /\ Val(Dec(a)) \in Int
    BY DecVal, ValFits
  <2>3. PICK k \in Int : Val(Dec(a)) + k * Modulus = Val(a) - 1
    <3>1. Val(Dec(a)) + (-q) * Modulus = Val(a) - 1 /\ -q \in Int
      BY <1>1, <2>1, <2>2
    <3> QED BY <3>1
  <2>4. Same(Val(Dec(a)), Val(a) - 1)
    BY <2>3, Zenon DEF Same
  <2>5. Val(a) - 1 \in Int
    BY <1>1
  <2> QED BY <2>2, <2>4, <2>5, SameMod
<1> QED BY <1>2, <1>3, <1>4, <1>5, <1>6, SubUndoesAdd, IntIsSigned, Ordered

\* The operands are always a pair of numbers of the code's length, or none.
Operands == operands \in {<<>>} \cup (Bn \X Bn)

LEMMA OperandsInvariant == BnSpec => []Operands
<1>1. BnInit => Operands
  BY DEF BnInit, Operands
<1>2. Operands /\ [BnNext]_operands => Operands'
  <2> SUFFICES ASSUME Operands, [BnNext]_operands PROVE Operands'
    OBVIOUS
  <2>1. CASE BnCall
    BY <2>1 DEF BnCall, Operands
  <2>2. CASE BnReturn
    BY <2>2 DEF BnReturn, Operands
  <2>3. CASE UNCHANGED operands
    BY <2>3 DEF Operands
  <2> QED BY <2>1, <2>2, <2>3 DEF BnNext
<1> QED BY <1>1, <1>2, PTL DEF BnSpec

\* For numbers of any length, words of any size and ints of any number of words: the results of
\* add, sub, mul, inc and dec in gfc_bignum.c are those of integers modulo the size of a number,
\* cmp orders by value, a subtraction takes back an addition, whatever was lost behind the last
\* word, and to_int returns the signed number an int makes of the value.
THEOREM ArithmeticCorrect == BnSpec => []ArithmeticExact
<1>1. Operands => ArithmeticExact
  <2> SUFFICES ASSUME Operands, operands # <<>> PROVE ArithmeticExact
    BY DEF ArithmeticExact
  <2> DEFINE a == operands[1]
             b == operands[2]
  <2>1. a \in Bn /\ b \in Bn
    BY DEF Operands
  <2> HIDE DEF a, b
  <2>2. /\ Val(Add(a, b)) = (Val(a) + Val(b)) % Modulus
        /\ Val(Sub(a, b)) = (Val(a) - Val(b)) % Modulus
        /\ Val(Mul(a, b)) = (Val(a) * Val(b)) % Modulus
        /\ Sub(Add(a, b), b) = a
        /\ Val(Inc(a)) = (Val(a) + 1) % Modulus
        /\ Val(Dec(a)) = (Val(a) - 1) % Modulus
        /\ (ToInt(a) - Val(a)) % Weight[IntWords] = 0
        /\ -Weight[IntWords] <= 2 * ToInt(a) /\ 2 * ToInt(a) < Weight[IntWords]
        /\ Larger(a, b) <=> Val(a) > Val(b)
        /\ Val(a) = Val(b) => a = b
    BY <2>1, CallExact
  <2> QED BY <2>2, Zenon DEF ArithmeticExact, a, b
<1> QED BY <1>1, OperandsInvariant, PTL

-----------------------------------------------------------------------------
\* Base64: the groups of four characters that are written for three bytes.
Character == Symbols \cup {Pad, Feed}
GroupsOf(v) == (Len(v) + 2) \div 3

\* The parts of a sequence all have c elements, and thus begin at the multiples of c.
AllHave(q, c) == \A k \in 1..Len(q) : Len(q[k]) = c
Multiples(begin, q, c) == \A k \in 0..Len(q) : begin[k] = c * k

LEMMA EqualParts ==
  \A S : \A q \in Seq(Seq(S)) : \A c \in Nat : \A begin :
    JoinedAs(begin, q, S) /\ AllHave(q, c) => Multiples(begin, q, c)
<1> SUFFICES ASSUME NEW S, NEW q \in Seq(Seq(S)), NEW c \in Nat, NEW begin, JoinedAs(begin, q, S),
                    AllHave(q, c)
             PROVE  Multiples(begin, q, c)
  OBVIOUS
<1> DEFINE N == Len(q)
           Good == {k \in 0..N : begin[k] = c * k}
<1>1. N \in Nat
  BY LenProperties
<1>2. 0 \in Good
  BY <1>1 DEF JoinedAs, BeginsAt
<1>3. ASSUME NEW k \in 0..N-1, k \in Good PROVE k+1 \in Good
  <2>1. begin[k+1] = begin[k] + Len(q[k+1])
    BY DEF JoinedAs, BeginsAt
  <2>2. k+1 \in 1..N /\ k+1 \in 0..N /\ k \in Nat
    BY <1>1
  <2>3. begin[k] = c * k /\ Len(q[k+1]) = c
    BY <1>3, <2>2 DEF AllHave
  <2>4. c * (k+1) = c * k + c
    BY <2>2
  <2> HIDE DEF N
  <2> QED BY <2>1, <2>2, <2>3, <2>4
<1> HIDE DEF Good
<1>4. \A k \in 0..N : k \in Good
  BY <1>1, <1>2, <1>3, Upwards
<1> QED BY <1>4 DEF Good, Multiples

\* The numbers of the four characters are the sixes of bits of the three bytes, of which those
\* behind the end are zero and the characters that hold nothing else pads.
LEMMA GroupIs ==
  ASSUME NEW v \in Seq(Byte), NEW g \in Nat \ {0}
  PROVE  LET a == Byte64(v, 3*g-2)
             b == Byte64(v, 3*g-1)
             c == Byte64(v, 3*g)
             u == Group(v, g)
         IN  /\ a \in Byte /\ b \in Byte /\ c \in Byte
             /\ u \in Seq(Symbols \cup {Pad}) /\ Len(u) = 4
             /\ Value64(u[1]) = a \div 4 /\ Value64(u[2]) = (a % 4) * 16 + (b \div 16)
             /\ Value64(u[3]) = (b % 16) * 4 + (c \div 64) /\ Value64(u[4]) = c % 64
             /\ u[1] # Pad /\ (u[2] # Pad)
             /\ (u[3] = Pad <=> 3*g-1 > Len(v)) /\ (u[4] = Pad <=> 3*g > Len(v))
<1> DEFINE a == Byte64(v, 3*g-2)
           b == Byte64(v, 3*g-1)
           c == Byte64(v, 3*g)
<1>1. Len(v) \in Nat /\ \A i \in 1..Len(v) : v[i] \in Byte
  BY LenProperties, ElementOfSeq
<1>2. a \in Byte /\ b \in Byte /\ c \in Byte
  <2>1. 3*g-2 \in Nat \ {0} /\ 3*g-1 \in Nat \ {0} /\ 3*g \in Nat \ {0}
    OBVIOUS
  <2>2. \A i \in Nat \ {0} : i <= Len(v) => i \in 1..Len(v)
    BY <1>1
  <2>3. \A i \in Nat \ {0} : Byte64(v, i) \in Byte
    BY <1>1, <2>2 DEF Byte64, Byte
  <2> QED BY <2>1, <2>3
<1>3. (3*g-1 > Len(v) => b = 0) /\ (3*g-1 > Len(v) => 3*g > Len(v)) /\ (3*g > Len(v) => c = 0)
  BY <1>1 DEF Byte64
<1> HIDE DEF a, b, c
<1> DEFINE p1 == a \div 4
           p2 == (a % 4) * 16 + (b \div 16)
           p3 == (b % 16) * 4 + (c \div 64)
           p4 == c % 64
<1>4. p1 \in Symbols /\ p2 \in Symbols /\ p3 \in Symbols /\ p4 \in Symbols
  BY <1>2 DEF Byte, Symbols
<1>5. (3*g-1 > Len(v) => p3 = 0) /\ (3*g > Len(v) => p4 = 0)
  BY <1>3
<1>6. \A s \in Symbols : s # Pad /\ Value64(s) = s
  BY Base64Assumption DEF Symbols, Value64
<1>7. Value64(Pad) = 0
  BY DEF Value64
<1> DEFINE third == IF 3*g-1 > Len(v) THEN Pad ELSE p3
           fourth == IF 3*g > Len(v) THEN Pad ELSE p4
<1>8. Group(v, g) = <<p1, p2, third, fourth>>
  BY DEF Group, a, b, c
<1> HIDE DEF p1, p2, p3, p4
<1>9. /\ third \in Symbols \cup {Pad} /\ (third = Pad <=> 3*g-1 > Len(v)) /\ Value64(third) = p3
      /\ fourth \in Symbols \cup {Pad} /\ (fourth = Pad <=> 3*g > Len(v)) /\ Value64(fourth) = p4
  BY <1>4, <1>5, <1>6, <1>7
<1> HIDE DEF third, fourth
<1>10. \A T : \A x, y, z, w \in T : 
         LET u == <<x, y, z, w>>
         IN  u \in Seq(T) /\ Len(u) = 4 /\ u[1] = x /\ u[2] = y /\ u[3] = z /\ u[4] = w
  OBVIOUS
<1>11. LET u == Group(v, g)
       IN  u \in Seq(Symbols \cup {Pad}) /\ Len(u) = 4 /\ u[1] = p1 /\ u[2] = p2 /\ u[3] = third /\ u[4] = fourth
  BY <1>4, <1>8, <1>9, <1>10
<1> QED BY <1>2, <1>4, <1>6, <1>9, <1>11 DEF a, b, c, p1, p2, p3, p4

\* A line feed is behind the g-th group.
Breaks(v, g) == (4 * g) % LineLength = 0 \/ g = GroupsOf(v)

\* begin says where the groups of v are in the text that is written.
EncodedAs(begin, v) ==
  LET letters == Encode64(v)
  IN  /\ begin \in [0..GroupsOf(v) -> Nat] /\ begin[0] = 0
      /\ letters \in Seq(Character) /\ Len(letters) = begin[GroupsOf(v)]
      /\ \A g \in 0..GroupsOf(v)-1 :
           /\ \A i \in 1..4 : begin[g] + i <= Len(letters) /\ letters[begin[g] + i] = Group(v, g+1)[i]
           /\ Breaks(v, g+1) => /\ begin[g+1] = begin[g] + 5
                                /\ begin[g] + 5 <= Len(letters) /\ letters[begin[g] + 5] = Feed
           /\ ~Breaks(v, g+1) => begin[g+1] = begin[g] + 4

LEMMA AppendEnds ==
  \A S : \A s \in Seq(S), e \in S :
    /\ Append(s, e) \in Seq(S) /\ Len(Append(s, e)) = Len(s)+1
    /\ \A i \in 1..Len(s) : Append(s, e)[i] = s[i]
    /\ Append(s, e)[Len(s)+1] = e
BY AppendProperties

LEMMA EncodedIs == \A v \in Seq(Byte) : \E begin : EncodedAs(begin, v)
<1> SUFFICES ASSUME NEW v \in Seq(Byte) PROVE \E begin : EncodedAs(begin, v)
  OBVIOUS
<1> DEFINE G == GroupsOf(v)
           part(g) == IF Breaks(v, g) THEN Append(Group(v, g), Feed) ELSE Group(v, g)
           q == [g \in 1..G |-> part(g)]
<1>1. G \in Nat /\ Len(v) \in Nat
  BY LenProperties DEF GroupsOf
<1>2. \A g \in 1..G : Group(v, g) \in Seq(Character) /\ Len(Group(v, g)) = 4
  <2> SUFFICES ASSUME NEW g \in 1..G PROVE Group(v, g) \in Seq(Character) /\ Len(Group(v, g)) = 4
    OBVIOUS
  <2>1. g \in Nat \ {0}
    BY <1>1
  <2>2. Group(v, g) \in Seq(Symbols \cup {Pad}) /\ Len(Group(v, g)) = 4
    BY <2>1, GroupIs
  <2>3. Symbols \cup {Pad} \subseteq Character
    BY DEF Character
  <2> QED BY <2>2, <2>3
<1>3. Feed \in Character
  BY DEF Character
<1>4. \A g \in 1..G :
        /\ part(g) \in Seq(Character)
        /\ \A i \in 1..4 : part(g)[i] = Group(v, g)[i]
        /\ Breaks(v, g) => Len(part(g)) = 5 /\ part(g)[5] = Feed
        /\ ~Breaks(v, g) => Len(part(g)) = 4
  <2> SUFFICES ASSUME NEW g \in 1..G
               PROVE  /\ part(g) \in Seq(Character)
                      /\ \A i \in 1..4 : part(g)[i] = Group(v, g)[i]
                      /\ Breaks(v, g) => Len(part(g)) = 5 /\ part(g)[5] = Feed
                      /\ ~Breaks(v, g) => Len(part(g)) = 4
    OBVIOUS
  <2> DEFINE u == Group(v, g)
  <2>1. u \in Seq(Character) /\ Len(u) = 4
    BY <1>2
  <2> HIDE DEF u
  <2>2. /\ Append(u, Feed) \in Seq(Character) /\ Len(Append(u, Feed)) = 5
        /\ Append(u, Feed)[5] = Feed /\ \A i \in 1..4 : Append(u, Feed)[i] = u[i]
    <3>1. /\ Append(u, Feed) \in Seq(Character) /\ Len(Append(u, Feed)) = Len(u)+1
          /\ \A i \in 1..Len(u) : Append(u, Feed)[i] = u[i]
          /\ Append(u, Feed)[Len(u)+1] = Feed
      BY <1>3, <2>1, AppendEnds, Zenon
    <3>2. 4 + 1 = 5
      OBVIOUS
    <3> QED BY <2>1, <3>1, <3>2
  <2>3. CASE Breaks(v, g)
    BY <2>2, <2>3 DEF u
  <2>4. CASE ~Breaks(v, g)
    BY <2>1, <2>4 DEF u
  <2> QED BY <2>3, <2>4
<1> HIDE DEF part
<1>5. q \in Seq(Seq(Character)) /\ Len(q) = G /\ \A g \in 0..G-1 : q[g+1] = part(g+1)
  <2>1. q \in [1..G -> Seq(Character)]
    BY <1>4
  <2>2. \A S : [1..G -> S] \subseteq Seq(S)
    BY <1>1
  <2>3. Len(q) = G
    BY <1>1
  <2>4. \A g \in 0..G-1 : g+1 \in 1..G
    BY <1>1
  <2>5. \A g \in 0..G-1 : q[g+1] = part(g+1)
    BY <2>4
  <2> QED BY <2>1, <2>2, <2>3, <2>5
<1>6. Encode64(v) = FlattenSeq(q)
  BY DEF Encode64, part, Breaks, GroupsOf
<1> HIDE DEF q
<1>7. PICK begin : JoinedAs(begin, q, Character)
  BY <1>5, JoinedIs
<1>8. \A g \in 0..G-1 : g+1 \in 1..G /\ g+1 \in 0..G /\ g \in 0..G
  BY <1>1
<1>9. ASSUME NEW g \in 0..G-1
      PROVE  /\ \A i \in 1..4 : begin[g] + i <= begin[G] /\ Encode64(v)[begin[g] + i] = Group(v, g+1)[i]
             /\ Breaks(v, g+1) => /\ begin[g+1] = begin[g] + 5
                                  /\ begin[g] + 5 <= begin[G] /\ Encode64(v)[begin[g] + 5] = Feed
             /\ ~Breaks(v, g+1) => begin[g+1] = begin[g] + 4
  <2>1. /\ begin[g+1] = begin[g] + Len(q[g+1])
        /\ \A i \in 1..Len(q[g+1]) : begin[g] + i <= begin[G] /\ Encode64(v)[begin[g] + i] = q[g+1][i]
    BY <1>5, <1>6, <1>7 DEF JoinedAs, BeginsAt
  <2>2. q[g+1] = part(g+1)
    BY <1>5
  <2>3. /\ \A i \in 1..4 : part(g+1)[i] = Group(v, g+1)[i]
        /\ Breaks(v, g+1) => Len(part(g+1)) = 5 /\ part(g+1)[5] = Feed
        /\ ~Breaks(v, g+1) => Len(part(g+1)) = 4
    BY <1>4, <1>8
  <2>4. CASE Breaks(v, g+1)
    BY <2>1, <2>2, <2>3, <2>4
  <2>5. CASE ~Breaks(v, g+1)
    BY <2>1, <2>2, <2>3, <2>5
  <2> QED BY <2>4, <2>5
<1>10. /\ begin \in [0..G -> Nat] /\ begin[0] = 0
       /\ Encode64(v) \in Seq(Character) /\ Len(Encode64(v)) = begin[G]
  BY <1>5, <1>6, <1>7 DEF JoinedAs, BeginsAt
<1> QED BY <1>9, <1>10 DEF EncodedAs

\* Skipping the line feeds leaves the groups.
LEMMA KnownIs64 ==
  \A v \in Seq(Byte) :
    LET known == Known64(Encode64(v))
    IN  /\ known \in Seq(Character) /\ Len(known) = 4 * GroupsOf(v)
        /\ \A g \in 0..GroupsOf(v)-1 : \A i \in 1..4 : known[4*g + i] = Group(v, g+1)[i]
<1> SUFFICES ASSUME NEW v \in Seq(Byte)
             PROVE  LET known == Known64(Encode64(v))
                    IN  /\ known \in Seq(Character) /\ Len(known) = 4 * GroupsOf(v)
                        /\ \A g \in 0..GroupsOf(v)-1 : \A i \in 1..4 : known[4*g + i] = Group(v, g+1)[i]
  OBVIOUS
<1> DEFINE G == GroupsOf(v)
           letters == Encode64(v)
           known == Known64(letters)
           L == Len(letters)
           part(i) == IF letters[i] \in Symbols \cup {Pad} THEN <<letters[i]>> ELSE <<>>
           r == [i \in DOMAIN letters |-> part(i)]
<1>1. PICK place : EncodedAs(place, v)
  BY EncodedIs
<1>2. /\ place \in [0..G -> Nat] /\ place[0] = 0
      /\ letters \in Seq(Character) /\ L = place[G]
      /\ \A g \in 0..G-1 :
           /\ \A i \in 1..4 : place[g] + i <= L /\ letters[place[g] + i] = Group(v, g+1)[i]
           /\ Breaks(v, g+1) => place[g+1] = place[g] + 5 /\ place[g] + 5 <= L /\ letters[place[g] + 5] = Feed
           /\ ~Breaks(v, g+1) => place[g+1] = place[g] + 4
  BY <1>1 DEF EncodedAs
<1>3. G \in Nat /\ L \in Nat /\ DOMAIN letters = 1..L /\ \A i \in 1..L : letters[i] \in Character
  BY <1>2, LenProperties, ElementOfSeq DEF GroupsOf
<1>4. known = FlattenSeq(r)
  BY DEF Known64
<1> HIDE DEF letters, known
<1>5. \A i \in 1..L : part(i) \in Seq(Character)
  BY <1>3
<1>6. r \in Seq(Seq(Character)) /\ Len(r) = L /\ \A i \in 1..L : r[i] = part(i)
  <2>1. r \in [1..L -> Seq(Character)]
    BY <1>3, <1>5
  <2>2. \A S : [1..L -> S] \subseteq Seq(S)
    BY <1>3
  <2> QED BY <1>3, <2>1, <2>2
<1> HIDE DEF r, L
<1>7. PICK begin : JoinedAs(begin, r, Character)
  BY <1>6, JoinedIs
<1>8. /\ begin \in [0..L -> Nat] /\ begin[0] = 0
      /\ known \in Seq(Character) /\ Len(known) = begin[L]
  BY <1>4, <1>6, <1>7 DEF JoinedAs, BeginsAt
<1>9. \A i \in 1..L :
        /\ letters[i] \in Symbols \cup {Pad} => begin[i] = begin[i-1] + 1 /\ known[begin[i-1] + 1] = letters[i]
        /\ letters[i] \notin Symbols \cup {Pad} => begin[i] = begin[i-1]
  <2> SUFFICES ASSUME NEW i \in 1..L
               PROVE  /\ letters[i] \in Symbols \cup {Pad} =>
                           begin[i] = begin[i-1] + 1 /\ known[begin[i-1] + 1] = letters[i]
                      /\ letters[i] \notin Symbols \cup {Pad} => begin[i] = begin[i-1]
    OBVIOUS
  <2>1. i-1 \in 0..L-1 /\ (i-1)+1 = i /\ begin[i] \in Nat /\ begin[i-1] \in Nat
    BY <1>3, <1>8
  <2>2. /\ begin[(i-1)+1] = begin[i-1] + Len(r[(i-1)+1])
        /\ \A k \in 1..Len(r[(i-1)+1]) : known[begin[i-1] + k] = r[(i-1)+1][k]
    BY <1>4, <1>6, <1>7, <2>1 DEF JoinedAs, BeginsAt
  <2>3. /\ begin[i] = begin[i-1] + Len(part(i))
        /\ \A k \in 1..Len(part(i)) : known[begin[i-1] + k] = part(i)[k]
    BY <1>6, <2>1, <2>2
  <2>4. CASE letters[i] \in Symbols \cup {Pad}
    <3>1. part(i) = <<letters[i]>>
      BY <2>4
    <3>2. Len(part(i)) = 1 /\ part(i)[1] = letters[i]
      BY <3>1
    <3> QED BY <2>3, <2>4, <3>2
  <2>5. CASE letters[i] \notin Symbols \cup {Pad}
    <3>1. Len(part(i)) = 0
      BY <2>5
    <3> QED BY <2>1, <2>3, <2>5, <3>1
  <2> QED BY <2>4, <2>5
<1> HIDE DEF part
<1> DEFINE Good == {g \in 0..G : begin[place[g]] = 4 * g}
<1>10. \A g \in 0..G-1 : \A i \in 1..4 :
         Group(v, g+1)[i] \in Symbols \cup {Pad} /\ g+1 \in 0..G /\ g \in 0..G
  <2> SUFFICES ASSUME NEW g \in 0..G-1, NEW i \in 1..4
               PROVE  Group(v, g+1)[i] \in Symbols \cup {Pad} /\ g+1 \in 0..G /\ g \in 0..G
    OBVIOUS
  <2>1. g+1 \in Nat \ {0} /\ g+1 \in 0..G /\ g \in 0..G
    BY <1>3
  <2>2. Group(v, g+1) \in Seq(Symbols \cup {Pad}) /\ Len(Group(v, g+1)) = 4
    BY <2>1, GroupIs
  <2> QED BY <2>1, <2>2, ElementOfSeq
<1>11. Feed \notin Symbols \cup {Pad}
  <2>1. Symbols \subseteq Nat
    BY DEF Symbols
  <2> QED BY <2>1, Base64Assumption, Zenon
<1>12. ASSUME NEW g \in 0..G-1, g \in Good
       PROVE  /\ g+1 \in Good
              /\ \A i \in 1..4 : known[4*g + i] = Group(v, g+1)[i]
  <2> DEFINE p == place[g]
             b(i) == begin[p + i]
  <2>1. p \in Nat /\ begin[p] = 4 * g /\ p + 4 <= L /\ g \in Nat
    <3>1. g \in 0..G /\ g \in Nat
      BY <1>3, <1>10
    <3>2. p + 4 <= L
      <4>1. 4 \in 1..4
        OBVIOUS
      <4> QED BY <1>2, <4>1
    <3> QED BY <1>2, <1>12, <3>1, <3>2
  <2> HIDE DEF p
  <2>2. \A i \in 1..4 : /\ p + i \in 1..L /\ (p + i) - 1 = p + (i - 1)
                        /\ letters[p + i] = Group(v, g+1)[i] /\ letters[p + i] \in Symbols \cup {Pad}
    <3>1. \A i \in 1..4 : p + i \in 1..L /\ (p + i) - 1 = p + (i - 1)
      BY <1>3, <2>1
    <3>2. \A i \in 1..4 : letters[p + i] = Group(v, g+1)[i]
      BY <1>2 DEF p
    <3> QED BY <1>10, <3>1, <3>2
  <2>3. \A i \in 1..4 : begin[p + i] = begin[p + (i - 1)] + 1 /\ known[begin[p + (i - 1)] + 1] = letters[p + i]
    BY <1>9, <2>2
  <2>4. p + (1-1) = p /\ p + (2-1) = p+1 /\ p + (3-1) = p+2 /\ p + (4-1) = p+3
    BY <2>1
  <2>5. /\ begin[p+1] = 4*g+1 /\ begin[p+2] = 4*g+2 /\ begin[p+3] = 4*g+3 /\ begin[p+4] = 4*g+4
    <3>1. begin[p+1] = begin[p] + 1
      BY <2>3, <2>4
    <3>2. begin[p+2] = begin[p+1] + 1
      BY <2>3, <2>4
    <3>3. begin[p+3] = begin[p+2] + 1
      BY <2>3, <2>4
    <3>4. begin[p+4] = begin[p+3] + 1
      BY <2>3, <2>4
    <3> QED BY <2>1, <3>1, <3>2, <3>3, <3>4
  <2>6. \A i \in 1..4 : known[4*g + i] = Group(v, g+1)[i]
    <3>1. known[begin[p] + 1] = Group(v, g+1)[1]
      <4>1. 1 \in 1..4
        OBVIOUS
      <4> QED BY <2>2, <2>3, <2>4, <4>1, Zenon
    <3>2. known[begin[p+1] + 1] = Group(v, g+1)[2]
      BY <2>2, <2>3, <2>4
    <3>3. known[begin[p+2] + 1] = Group(v, g+1)[3]
      BY <2>2, <2>3, <2>4
    <3>4. known[begin[p+3] + 1] = Group(v, g+1)[4]
      BY <2>2, <2>3, <2>4
    <3>5. begin[p] + 1 = 4*g+1 /\ begin[p+1] + 1 = 4*g+2 /\ begin[p+2] + 1 = 4*g+3 /\ begin[p+3] + 1 = 4*g+4
      BY <2>1, <2>5
    <3>6. \A i \in 1..4 : i = 1 \/ i = 2 \/ i = 3 \/ i = 4
      OBVIOUS
    <3> QED BY <3>1, <3>2, <3>3, <3>4, <3>5, <3>6
  <2>7. begin[place[g+1]] = 4*g+4
    <3>1. CASE Breaks(v, g+1)
      <4>1. place[g+1] = p + 5 /\ p + 5 \in 1..L /\ letters[p + 5] = Feed /\ (p + 5) - 1 = p + 4
        <5>1. place[g+1] = p + 5 /\ p + 5 <= L /\ letters[p + 5] = Feed
          BY <1>2, <3>1 DEF p
        <5> QED BY <1>3, <2>1, <5>1
      <4>2. begin[p + 5] = begin[p + 4]
        BY <1>9, <1>11, <4>1
      <4> QED BY <2>5, <4>1, <4>2
    <3>2. CASE ~Breaks(v, g+1)
      <4>1. place[g+1] = p + 4
        BY <1>2, <3>2 DEF p
      <4> QED BY <2>5, <4>1
    <3> QED BY <3>1, <3>2
  <2>8. 4 * (g+1) = 4*g+4
    BY <2>1
  <2> QED BY <1>10, <2>6, <2>7, <2>8
<1>13. 0 \in Good
  BY <1>2, <1>3, <1>8
<1>14. \A g \in 0..G-1 : g \in Good => g+1 \in Good
  BY <1>12
<1> HIDE DEF Good
<1>15. \A g \in 0..G : g \in Good
  BY <1>3, <1>13, <1>14, Upwards
<1>16. \A g \in 0..G-1 : \A i \in 1..4 : known[4*g + i] = Group(v, g+1)[i]
  BY <1>10, <1>12, <1>15
<1>17. begin[place[G]] = 4 * G
  BY <1>3, <1>15 DEF Good
<1> QED BY <1>2, <1>8, <1>16, <1>17 DEF known, letters

\* The text and its terminating zero fit the buffer.
LEMMA RoomIs == \A v \in Seq(Byte) : Len(Encode64(v)) + 1 <= EncodeRoom(Len(v))
<1> SUFFICES ASSUME NEW v \in Seq(Byte) PROVE Len(Encode64(v)) + 1 <= EncodeRoom(Len(v))
  OBVIOUS
<1> DEFINE G == GroupsOf(v)
           n == Len(v)
           L == Len(Encode64(v))
<1>1. n \in Nat /\ G \in Nat /\ G = (n + 2) \div 3
  BY LenProperties DEF GroupsOf
<1>2. PICK place : EncodedAs(place, v)
  BY EncodedIs
<1>3. /\ place \in [0..G -> Nat] /\ place[0] = 0 /\ L = place[G]
      /\ \A g \in 0..G-1 : place[g+1] = place[g] + (IF Breaks(v, g+1) THEN 5 ELSE 4)
  BY <1>2 DEF EncodedAs
<1>4. \A g \in 1..G : Breaks(v, g) <=> (g % 18 = 0 \/ g = G)
  <2>1. \A g \in 1..G : (4 * g) % 72 = 0 <=> g % 18 = 0
    BY <1>1
  <2> QED BY <2>1 DEF Breaks, LineLength
<1> HIDE DEF G, L, n
<1> DEFINE Good == {g \in 0..G : g < G => place[g] = 4 * g + (g \div 18)}
<1>5. 0 \in Good
  BY <1>1, <1>3
<1>6. ASSUME NEW g \in 0..G-1, g \in Good PROVE g+1 \in Good
  <2>1. g \in Nat /\ g+1 \in 1..G /\ g < G /\ g+1 \in 0..G
    BY <1>1
  <2>2. place[g] = 4 * g + (g \div 18)
    BY <1>6, <2>1
  <2>3. g+1 < G => place[g+1] = place[g] + (IF (g+1) % 18 = 0 THEN 5 ELSE 4)
    BY <1>1, <1>3, <1>4, <2>1
  <2>4. 4 * (g+1) + ((g+1) \div 18) = 4 * g + (g \div 18) + (IF (g+1) % 18 = 0 THEN 5 ELSE 4)
    BY <2>1
  <2> QED BY <2>1, <2>2, <2>3, <2>4
<1> HIDE DEF Good
<1>7. \A g \in 0..G : g \in Good
  BY <1>1, <1>5, <1>6, Upwards
<1>8. EncodeRoom(n) = ((n * 4) \div 3 + 4) + (((n * 4) \div 3 + 4) \div 72) + 1
  BY DEF EncodeRoom, LineLength
<1>9. CASE G = 0
  <2>1. L = 0
    BY <1>3, <1>9
  <2>2. EncodeRoom(n) >= 1
    BY <1>1, <1>8
  <2> QED BY <2>1, <2>2 DEF L, n
<1>10. CASE G # 0
  <2>1. G-1 \in 0..G-1 /\ G-1 \in 0..G /\ G-1 < G /\ (G-1)+1 = G /\ G \in 1..G
    BY <1>1, <1>10
  <2>2. place[G-1] = 4 * (G-1) + ((G-1) \div 18)
    BY <1>7, <2>1 DEF Good
  <2>3. L = place[G-1] + 5
    BY <1>3, <1>4, <2>1
  <2>4. L = 4 * G + 1 + ((G-1) \div 18)
    BY <1>1, <2>2, <2>3
  <2>5. 4 * G + 1 <= (n * 4) \div 3 + 4
    BY <1>1
  <2>6. (G-1) \div 18 <= ((n * 4) \div 3 + 4) \div 72
    BY <1>1, <1>10, <2>5
  <2>7. L \in Int /\ EncodeRoom(n) \in Int
    BY <1>1, <1>8, <2>4
  <2>8. L + 1 <= EncodeRoom(n)
    BY <1>1, <1>8, <2>4, <2>5, <2>6
  <2> QED BY <2>8 DEF L, n
<1> QED BY <1>9, <1>10

\* Four times six bits are three bytes.
LEMMA SixesBack ==
  \A a, b, c \in Byte :
    /\ ((a \div 4) * 4 + (((a % 4) * 16 + (b \div 16)) \div 16)) % 256 = a
    /\ (((a % 4) * 16 + (b \div 16)) * 16 + (((b % 16) * 4 + (c \div 64)) \div 4)) % 256 = b
    /\ (((b % 16) * 4 + (c \div 64)) * 64 + (c % 64)) % 256 = c
<1> SUFFICES ASSUME NEW a \in Byte, NEW b \in Byte, NEW c \in Byte
             PROVE  /\ ((a \div 4) * 4 + (((a % 4) * 16 + (b \div 16)) \div 16)) % 256 = a
                    /\ (((a % 4) * 16 + (b \div 16)) * 16 + (((b % 16) * 4 + (c \div 64)) \div 4)) % 256 = b
                    /\ (((b % 16) * 4 + (c \div 64)) * 64 + (c % 64)) % 256 = c
  OBVIOUS
<1> DEFINE a1 == a \div 4
           a2 == a % 4
           b1 == b \div 16
           b2 == b % 16
           c1 == c \div 64
           c2 == c % 64
<1>1. /\ a1 \in 0..63 /\ a2 \in 0..3 /\ a = 4 * a1 + a2 /\ a \in 0..255
      /\ b1 \in 0..15 /\ b2 \in 0..15 /\ b = 16 * b1 + b2 /\ b \in 0..255
      /\ c1 \in 0..3 /\ c2 \in 0..63 /\ c = 64 * c1 + c2 /\ c \in 0..255
  BY DEF Byte
<1> HIDE DEF a1, a2, b1, b2, c1, c2
<1>2. (a2 * 16 + b1) \div 16 = a2 /\ (b2 * 4 + c1) \div 4 = b2
  BY <1>1
<1>3. /\ (a1 * 4 + a2) % 256 = a
      /\ ((a2 * 16 + b1) * 16 + b2) % 256 = b
      /\ ((b2 * 4 + c1) * 64 + c2) % 256 = c
  BY <1>1
<1>4. /\ (a1 * 4 + ((a2 * 16 + b1) \div 16)) % 256 = a
      /\ ((a2 * 16 + b1) * 16 + ((b2 * 4 + c1) \div 4)) % 256 = b
      /\ ((b2 * 4 + c1) * 64 + c2) % 256 = c
  BY <1>2, <1>3, Zenon
<1> QED BY <1>4 DEF a1, a2, b1, b2, c1, c2

LEMMA FunctionIsSeq == \A n \in Nat \ {0} : \A S : \A f \in [1..n -> S] : f \in Seq(S) /\ Len(f) = n
OBVIOUS

LEMMA TripleIs ==
  \A S : \A x, y, z \in S :
    LET t == <<x, y, z>>
    IN  t \in Seq(S) /\ Len(t) = 3 /\ t[1] = x /\ t[2] = y /\ t[3] = z
OBVIOUS

\* The pads of a group say how many of its bytes are behind the end of v, and the group is the
\* bytes from which it was written.
LEMMA GroupBack ==
  ASSUME NEW v \in Seq(Byte), NEW known, NEW g \in 1..GroupsOf(v),
         \A h \in 0..GroupsOf(v)-1 : \A i \in 1..4 : known[4*h + i] = Group(v, h+1)[i]
  PROVE  /\ Pads64(known, g) = IF g < GroupsOf(v) THEN 0 ELSE 3 * g - Len(v)
         /\ Pads64(known, g) \in 0..2
         /\ Bytes64(known, g) = <<Byte64(v, 3*g-2), Byte64(v, 3*g-1), Byte64(v, 3*g)>>
         /\ Byte64(v, 3*g-2) \in Byte /\ Byte64(v, 3*g-1) \in Byte /\ Byte64(v, 3*g) \in Byte
<1> DEFINE n == Len(v)
           G == GroupsOf(v)
           u == Group(v, g)
           a == Byte64(v, 3*g-2)
           b == Byte64(v, 3*g-1)
           c == Byte64(v, 3*g)
<1>1. n \in Nat /\ G = (n + 2) \div 3 /\ G \in Nat
  BY LenProperties DEF GroupsOf
<1>2. g \in Nat \ {0} /\ g-1 \in 0..G-1 /\ (g-1)+1 = g
  BY <1>1
<1>3. \A i \in 1..4 : known[4 * (g-1) + i] = u[i]
  BY <1>2
<1>4. /\ a \in Byte /\ b \in Byte /\ c \in Byte
      /\ Value64(u[1]) = a \div 4 /\ Value64(u[2]) = (a % 4) * 16 + (b \div 16)
      /\ Value64(u[3]) = (b % 16) * 4 + (c \div 64) /\ Value64(u[4]) = c % 64
      /\ u[1] # Pad /\ u[2] # Pad
      /\ (u[3] = Pad <=> 3*g-1 > n) /\ (u[4] = Pad <=> 3*g > n)
  BY <1>2, GroupIs
<1> HIDE DEF n, G, u, a, b, c
<1>5. Pads64(known, g) = Cardinality({i \in 1..4 : u[i] = Pad})
  <2>1. {i \in 1..4 : known[4 * (g-1) + i] = Pad} = {i \in 1..4 : u[i] = Pad}
    BY <1>3
  <2> QED BY <2>1, Zenon DEF Pads64
<1>6. Pads64(known, g) = (IF g < G THEN 0 ELSE 3 * g - n) /\ Pads64(known, g) \in 0..2
  <2>1. CASE 3*g <= n
    <3>1. {i \in 1..4 : u[i] = Pad} = {}
      <4>1. u[1] # Pad /\ u[2] # Pad /\ u[3] # Pad /\ u[4] # Pad
        BY <1>1, <1>2, <1>4, <2>1
      <4> QED BY <4>1
    <3>2. Pads64(known, g) = 0
      BY <1>5, <3>1, FS_EmptySet
    <3>3. g < G \/ 3 * g - n = 0
      BY <1>1, <1>2, <2>1
    <3> QED BY <3>2, <3>3
  <2>2. CASE 3*g = n + 1
    <3>1. {i \in 1..4 : u[i] = Pad} = {4}
      <4>1. u[1] # Pad /\ u[2] # Pad /\ u[3] # Pad /\ u[4] = Pad
        BY <1>1, <1>2, <1>4, <2>2
      <4> QED BY <4>1
    <3>2. Pads64(known, g) = 1
      BY <1>5, <3>1, FS_Singleton
    <3>3. ~(g < G) /\ 3 * g - n = 1
      BY <1>1, <1>2, <2>2
    <3> QED BY <3>2, <3>3
  <2>3. CASE 3*g = n + 2
    <3>1. {i \in 1..4 : u[i] = Pad} = {3} \cup {4}
      <4>1. u[1] # Pad /\ u[2] # Pad /\ u[3] = Pad /\ u[4] = Pad
        BY <1>1, <1>2, <1>4, <2>3
      <4> QED BY <4>1
    <3>2. Pads64(known, g) = 2
      <4>1. IsFiniteSet({3}) /\ Cardinality({3}) = 1 /\ 4 \notin {3}
        <5>1. IsFiniteSet({3}) /\ Cardinality({3}) = 1
          BY FS_Singleton
        <5> QED BY <5>1
      <4>2. Cardinality({3} \cup {4}) = Cardinality({3}) + 1
        BY <4>1, FS_AddElement
      <4>3. 1 + 1 = 2
        OBVIOUS
      <4> QED BY <1>5, <3>1, <4>1, <4>2, <4>3
    <3>3. ~(g < G) /\ 3 * g - n = 2
      BY <1>1, <1>2, <2>3
    <3> QED BY <3>2, <3>3
  <2>4. 3*g <= n \/ 3*g = n + 1 \/ 3*g = n + 2
    BY <1>1, <1>2
  <2> QED BY <2>1, <2>2, <2>3, <2>4
<1>7. Bytes64(known, g) = <<a, b, c>>
  <2> DEFINE w == [i \in 1..4 |-> Value64(known[4 * (g - 1) + i])]
  <2>1. \A i \in 1..4 : w[i] = Value64(u[i])
    BY <1>3
  <2>2. /\ w[1] = a \div 4 /\ w[2] = (a % 4) * 16 + (b \div 16)
        /\ w[3] = (b % 16) * 4 + (c \div 64) /\ w[4] = c % 64
    BY <1>4, <2>1
  <2>3. Bytes64(known, g) = <<(w[1] * 4 + (w[2] \div 16)) % 256, (w[2] * 16 + (w[3] \div 4)) % 256,
                              (w[3] * 64 + w[4]) % 256>>
    BY DEF Bytes64
  <2> HIDE DEF w
  <2>4. /\ ((a \div 4) * 4 + (((a % 4) * 16 + (b \div 16)) \div 16)) % 256 = a
        /\ (((a % 4) * 16 + (b \div 16)) * 16 + (((b % 16) * 4 + (c \div 64)) \div 4)) % 256 = b
        /\ (((b % 16) * 4 + (c \div 64)) * 64 + (c % 64)) % 256 = c
    BY <1>4, SixesBack
  <2>5. /\ (w[1] * 4 + (w[2] \div 16)) % 256 = a
        /\ (w[2] * 16 + (w[3] \div 4)) % 256 = b
        /\ (w[3] * 64 + w[4]) % 256 = c
    BY <2>2, <2>4, Zenon
  <2> QED BY <2>3, <2>5
<1> QED BY <1>4, <1>6, <1>7 DEF a, b, c, n, G

\* What base64 writes reads back, for every sequence of bytes but the empty one.
LEMMA Decode64Is == \A v \in Seq(Byte) : v # <<>> => Decode64(Encode64(v)) = v
<1> SUFFICES ASSUME NEW v \in Seq(Byte), v # <<>> PROVE Decode64(Encode64(v)) = v
  OBVIOUS
<1> DEFINE G == GroupsOf(v)
           n == Len(v)
           known == Known64(Encode64(v))
           count == Len(known) \div 4
           padded == {g \in 1..count : Pads64(known, g) > 0}
           final == IF padded = {} THEN count ELSE Min(padded)
           q == [g \in 1..final |-> Bytes64(known, g)]
           out == FlattenSeq(q)
<1>1. n \in Nat \ {0} /\ G = (n + 2) \div 3 /\ G \in Nat \ {0} /\ \A i \in 1..n : v[i] \in Byte
  BY LenProperties, EmptySeq, ElementOfSeq DEF GroupsOf
<1>2. /\ known \in Seq(Character) /\ Len(known) = 4 * G
      /\ \A g \in 0..G-1 : \A i \in 1..4 : known[4*g + i] = Group(v, g+1)[i]
  BY KnownIs64
<1>3. count = G /\ Len(known) % 4 = 0
  BY <1>1, <1>2
<1>4. Decode64(Encode64(v)) =
        IF count = 0 \/ Len(known) % 4 # 0 THEN NULL64
        ELSE IF Pads64(known, final) > 2 THEN NULL64
        ELSE SubSeq(out, 1, Len(out) - Pads64(known, final))
  BY DEF Decode64
<1> HIDE DEF known
<1>5. \A g \in 1..G : /\ Pads64(known, g) = IF g < G THEN 0 ELSE 3 * g - n
                      /\ Pads64(known, g) \in 0..2
                      /\ Bytes64(known, g) = <<Byte64(v, 3*g-2), Byte64(v, 3*g-1), Byte64(v, 3*g)>>
                      /\ Byte64(v, 3*g-2) \in Byte /\ Byte64(v, 3*g-1) \in Byte /\ Byte64(v, 3*g) \in Byte
  BY <1>2, GroupBack
<1> HIDE DEF count, G, n
<1>6. final = G
  <2>1. CASE padded = {}
    BY <1>3, <2>1
  <2>2. CASE padded # {}
    <3>1. padded \subseteq Nat
      BY <1>1, <1>3
    <3>2. Min(padded) \in padded
      BY <2>2, <3>1, MinIs
    <3>3. \A g \in padded : g = G
      <4> SUFFICES ASSUME NEW g \in padded PROVE g = G
        OBVIOUS
      <4>1. g \in 1..G /\ Pads64(known, g) > 0
        BY <1>3
      <4> QED BY <1>1, <1>5, <4>1
    <3>4. Min(padded) = G
      BY <3>2, <3>3
    <3> QED BY <2>2, <3>4
  <2> QED BY <2>1, <2>2
<1>7. q = [g \in 1..G |-> Bytes64(known, g)]
  BY <1>6
<1> HIDE DEF final
<1>8. \A g \in 1..G : Bytes64(known, g) \in Seq(Byte) /\ Len(Bytes64(known, g)) = 3
  <2> SUFFICES ASSUME NEW g \in 1..G PROVE Bytes64(known, g) \in Seq(Byte) /\ Len(Bytes64(known, g)) = 3
    OBVIOUS
  <2> DEFINE x == Byte64(v, 3*g-2)
             y == Byte64(v, 3*g-1)
             z == Byte64(v, 3*g)
  <2>1. Bytes64(known, g) = <<x, y, z>> /\ x \in Byte /\ y \in Byte /\ z \in Byte
    BY <1>5
  <2> HIDE DEF x, y, z
  <2>2. <<x, y, z>> \in Seq(Byte) /\ Len(<<x, y, z>>) = 3
    BY <2>1, TripleIs
  <2> QED BY <2>1, <2>2
<1>9. q \in Seq(Seq(Byte)) /\ Len(q) = G /\ \A k \in 0..G-1 : q[k+1] = Bytes64(known, k+1)
  <2>1. q \in [1..G -> Seq(Byte)]
    BY <1>7, <1>8
  <2>2. q \in Seq(Seq(Byte)) /\ Len(q) = G
    BY <1>1, <2>1, FunctionIsSeq, Zenon
  <2>4. \A k \in 0..G-1 : k+1 \in 1..G
    BY <1>1
  <2>5. \A k \in 0..G-1 : q[k+1] = Bytes64(known, k+1)
    BY <1>7, <2>4
  <2> QED BY <2>2, <2>5
<1>10. \A k \in 1..Len(q) : Len(q[k]) = 3
  BY <1>7, <1>8, <1>9
<1> HIDE DEF q
<1>11. PICK begin : JoinedAs(begin, q, Byte)
  BY <1>9, JoinedIs
<1>12. \A k \in 0..G : begin[k] = 3 * k
  <2>1. \A k \in 0..Len(q) : begin[k] = 3 * k
    <3>1. 3 \in Nat
      OBVIOUS
    <3>2. q \in Seq(Seq(Byte)) /\ JoinedAs(begin, q, Byte) /\ AllHave(q, 3)
      BY <1>9, <1>10, <1>11 DEF AllHave
    <3>3. Multiples(begin, q, 3)
      BY <3>1, <3>2, EqualParts, Zenon
    <3> QED BY <3>3 DEF Multiples
  <2> QED BY <1>9, <2>1
<1>13. out \in Seq(Byte) /\ Len(out) = 3 * G
  BY <1>1, <1>9, <1>11, <1>12 DEF JoinedAs
<1>14. \A k \in 0..G-1 : \A i \in 1..3 : out[3 * k + i] = Byte64(v, 3 * k + i)
  <2> SUFFICES ASSUME NEW k \in 0..G-1 PROVE \A i \in 1..3 : out[3 * k + i] = Byte64(v, 3 * k + i)
    OBVIOUS
  <2>1. k+1 \in 1..G /\ k \in 0..G /\ k \in Nat
    BY <1>1
  <2>2. \A i \in 1..3 : out[3 * k + i] = Bytes64(known, k+1)[i]
    <3>1. \A i \in 1..Len(q[k+1]) : out[begin[k] + i] = q[k+1][i]
      BY <1>9, <1>11 DEF JoinedAs
    <3> QED BY <1>8, <1>9, <1>12, <2>1, <3>1
  <2>3. Bytes64(known, k+1) = <<Byte64(v, 3*(k+1)-2), Byte64(v, 3*(k+1)-1), Byte64(v, 3*(k+1))>>
    BY <1>5, <2>1
  <2>4. 3*(k+1)-2 = 3*k+1 /\ 3*(k+1)-1 = 3*k+2 /\ 3*(k+1) = 3*k+3
    BY <2>1
  <2>5. Bytes64(known, k+1) = <<Byte64(v, 3*k+1), Byte64(v, 3*k+2), Byte64(v, 3*k+3)>>
    BY <2>3, <2>4
  <2> QED BY <2>2, <2>5
<1> HIDE DEF out
<1>15. Pads64(known, G) = 3 * G - n /\ Pads64(known, G) \in 0..2
  BY <1>1, <1>5
<1>16. Decode64(Encode64(v)) = SubSeq(out, 1, n)
  <2>1. Len(out) - Pads64(known, G) = n
    BY <1>1, <1>13, <1>15
  <2>2. count # 0 /\ ~(Pads64(known, G) > 2)
    BY <1>1, <1>3, <1>15
  <2> QED BY <1>3, <1>4, <1>6, <2>1, <2>2
<1>17. \A i \in 1..n : out[i] = v[i]
  <2> SUFFICES ASSUME NEW i \in 1..n PROVE out[i] = v[i]
    OBVIOUS
  <2> DEFINE k == (i - 1) \div 3
             j == i - 3 * k
  <2>1. k \in 0..G-1 /\ j \in 1..3 /\ i = 3 * k + j /\ i \in Nat
    BY <1>1
  <2> HIDE DEF k, j
  <2>2. out[i] = Byte64(v, i)
    BY <1>14, <2>1
  <2>3. Byte64(v, i) = v[i]
    BY <1>1 DEF Byte64, n
  <2> QED BY <2>2, <2>3
<1>18. SubSeq(out, 1, n) = v
  <2>1. n \in Int /\ 1 \in Int /\ \A i \in 1..n : out[i] \in Byte
    BY <1>1, <1>17
  <2>2. /\ SubSeq(out, 1, n) \in Seq(Byte)
        /\ Len(SubSeq(out, 1, n)) = IF 1 <= n THEN n-1+1 ELSE 0
        /\ \A i \in 1..n-1+1 : SubSeq(out, 1, n)[i] = out[1+i-1]
    BY <2>1, SubSeqProperties
  <2>3. Len(SubSeq(out, 1, n)) = n /\ \A i \in 1..n : SubSeq(out, 1, n)[i] = out[i]
    BY <1>1, <2>2
  <2>4. Len(SubSeq(out, 1, n)) = Len(v) /\ \A i \in 1..Len(SubSeq(out, 1, n)) : SubSeq(out, 1, n)[i] = v[i]
    BY <1>17, <2>3 DEF n
  <2> QED BY <2>2, <2>4, SeqEqual
<1> QED BY <1>16, <1>18

(***************************************************************************)
(* What gfc_base64_encode writes for a text of one byte or more,           *)
(* gfc_base64_decode reads back, and it fits the buffer that was allocated *)
(* for it with the zero behind it.                                         *)
(***************************************************************************)
THEOREM Base64Correct == \A v \in Seq(Byte) : v # <<>> => Base64Exact(v)
BY Decode64Is, RoomIs DEF Base64Exact

-----------------------------------------------------------------------------
\* A character of UTF-8: the first byte tells how many there are, and only the others continue.
Utf8Character(u) ==
  /\ u \in Seq(Byte) /\ Len(u) \in 1..4
  /\ u[1] \div 64 # 2 /\ \A i \in 2..Len(u) : u[i] \div 64 = 2
  /\ Len(u) = 1 => u[1] < 128
  /\ Len(u) = 2 => u[1] \div 32 = 6
  /\ Len(u) = 3 => u[1] \div 16 = 14
  /\ Len(u) = 4 => u[1] \div 8 = 30

LEMMA FourIs == \A n \in 1..4 : 1 \in 1..n /\ n \in 1..n /\ n \in Nat
OBVIOUS

LEMMA CharacterIs == \A cp \in CodePoint : Utf8Character(Utf8Bytes(cp))
<1> SUFFICES ASSUME NEW cp \in CodePoint PROVE Utf8Character(Utf8Bytes(cp))
  OBVIOUS
<1>0. cp \in Nat /\ cp > 0 /\ cp \div 262144 <= 4
  BY SMT DEF CodePoint
<1> DEFINE six(n) == 128 + ((cp \div n) % 64)
           a == six(1)
           b == six(64)
           c == six(4096)
           u == Utf8Bytes(cp)
<1>1. /\ a \in Byte /\ a \div 64 = 2
      /\ b \in Byte /\ b \div 64 = 2
      /\ c \in Byte /\ c \div 64 = 2
  BY <1>0 DEF Byte
<1>2. u = IF cp < 128 THEN <<cp>>
          ELSE IF cp < 2048 THEN <<192 + (cp \div 64), a>>
          ELSE IF cp < 65536 THEN <<224 + (cp \div 4096), b, a>>
          ELSE <<240 + (cp \div 262144), c, b, a>>
  BY SMT DEF Utf8Bytes
<1> HIDE DEF u, a, b, c
<1>3. CASE cp < 128
  <2>1. u = <<cp>> /\ cp \in Byte /\ cp \div 64 # 2
    BY <1>0, <1>2, <1>3 DEF Byte
  <2>2. u \in Seq(Byte) /\ Len(u) = 1 /\ u[1] = cp
    BY <2>1
  <2> QED BY <1>3, <2>1, <2>2 DEF Utf8Character, u
<1>4. CASE cp >= 128 /\ cp < 2048
  <2> DEFINE f == 192 + (cp \div 64)
  <2>1. f \in Byte /\ f \div 64 # 2 /\ f \div 32 = 6
    BY <1>0, <1>4 DEF Byte
  <2>2. u = <<f, a>>
    BY <1>0, <1>2, <1>4
  <2> HIDE DEF f
  <2>3. u \in Seq(Byte) /\ Len(u) = 2 /\ u[1] = f /\ u[2] = a
    BY <1>1, <2>1, <2>2
  <2>4. \A i \in 2..Len(u) : u[i] \div 64 = 2
    <3>1. \A i \in 2..2 : i = 2
      OBVIOUS
    <3> QED BY <1>1, <2>3, <3>1
  <2> QED BY <2>1, <2>3, <2>4 DEF Utf8Character, u
<1>5. CASE cp >= 2048 /\ cp < 65536
  <2> DEFINE f == 224 + (cp \div 4096)
  <2>1. f \in Byte /\ f \div 64 # 2 /\ f \div 16 = 14
    BY <1>0, <1>5 DEF Byte
  <2>2. u = <<f, b, a>>
    BY <1>0, <1>2, <1>5
  <2> HIDE DEF f
  <2>3. u \in Seq(Byte) /\ Len(u) = 3 /\ u[1] = f /\ u[2] = b /\ u[3] = a
    BY <1>1, <2>1, <2>2
  <2>4. \A i \in 2..Len(u) : u[i] \div 64 = 2
    <3>1. \A i \in 2..3 : i = 2 \/ i = 3
      OBVIOUS
    <3> QED BY <1>1, <2>3, <3>1
  <2> QED BY <2>1, <2>3, <2>4 DEF Utf8Character, u
<1>6. CASE cp >= 65536
  <2> DEFINE f == 240 + (cp \div 262144)
  <2>1. f \in Byte /\ f \div 64 # 2 /\ f \div 8 = 30
    BY <1>0, <1>6 DEF Byte
  <2>2. u = <<f, c, b, a>>
    BY <1>0, <1>2, <1>6
  <2> HIDE DEF f
  <2>3. u \in Seq(Byte) /\ Len(u) = 4 /\ u[1] = f /\ u[2] = c /\ u[3] = b /\ u[4] = a
    BY <1>1, <2>1, <2>2
  <2>4. \A i \in 2..Len(u) : u[i] \div 64 = 2
    <3>1. \A i \in 2..4 : i = 2 \/ i = 3 \/ i = 4
      OBVIOUS
    <3> QED BY <1>1, <2>3, <3>1
  <2> QED BY <2>1, <2>3, <2>4 DEF Utf8Character, u
<1> QED BY <1>0, <1>3, <1>4, <1>5, <1>6

\* A string of characters, and where each of them is.
Characters(q) == q \in Seq(Seq(Byte)) /\ \A k \in 1..Len(q) : Utf8Character(q[k])

InString(q, begin, k) ==
  LET s == FlattenSeq(q)
      u == q[k+1]
  IN  /\ Utf8Character(u) /\ begin[k] \in Nat
      /\ begin[k+1] = begin[k] + Len(u) /\ begin[k+1] <= Len(s)
      /\ \A i \in 1..Len(u) : s[begin[k] + i] = u[i]

PlacesIn(q, begin) ==
  /\ begin \in [0..Len(q) -> Nat] /\ begin[0] = 0 /\ begin[Len(q)] = Len(FlattenSeq(q))
  /\ FlattenSeq(q) \in Seq(Byte)
  /\ \A k \in 0..Len(q)-1 : InString(q, begin, k)

LEMMA PlacesExist == \A q : Characters(q) => \E begin : PlacesIn(q, begin)
<1> SUFFICES ASSUME NEW q, Characters(q) PROVE \E begin : PlacesIn(q, begin)
  OBVIOUS
<1>1. q \in Seq(Seq(Byte)) /\ Len(q) \in Nat /\ \A k \in 0..Len(q)-1 : Utf8Character(q[k+1])
  BY LenProperties DEF Characters
<1>2. PICK begin : JoinedAs(begin, q, Byte)
  BY <1>1, JoinedIs
<1>3. /\ begin \in [0..Len(q) -> Nat] /\ begin[0] = 0 /\ begin[Len(q)] = Len(FlattenSeq(q))
      /\ FlattenSeq(q) \in Seq(Byte)
      /\ \A k \in 0..Len(q)-1 : begin[k+1] = begin[k] + Len(q[k+1])
      /\ \A k \in 0..Len(q)-1 : \A i \in 1..Len(q[k+1]) :
           begin[k] + i <= Len(FlattenSeq(q)) /\ FlattenSeq(q)[begin[k] + i] = q[k+1][i]
  BY <1>2 DEF JoinedAs, BeginsAt
<1>4. ASSUME NEW k \in 0..Len(q)-1 PROVE InString(q, begin, k)
  <2>1. Len(q[k+1]) \in 1..Len(q[k+1]) /\ k \in 0..Len(q)
    BY <1>1, FourIs DEF Utf8Character
  <2> QED BY <1>1, <1>3, <2>1 DEF InString
<1> QED BY <1>3, <1>4 DEF PlacesIn

\* What convert and initial look at tells the number of bytes.
LEMMA SizeIs ==
  ASSUME NEW q, NEW begin, PlacesIn(q, begin), NEW k \in 0..Len(q)-1
  PROVE  Utf8Size(FlattenSeq(q), begin[k] + 1) = Len(q[k+1])
<1> DEFINE u == q[k+1]
           f == u[1]
<1>1. InString(q, begin, k)
  BY DEF PlacesIn
<1>2. /\ Len(u) \in 1..4
      /\ Len(u) = 1 => f < 128
      /\ Len(u) = 2 => f \div 32 = 6
      /\ Len(u) = 3 => f \div 16 = 14
      /\ Len(u) = 4 => f \div 8 = 30
      /\ f \in Byte
  <2>1. u \in Seq(Byte) /\ Len(u) \in 1..4
    BY <1>1 DEF InString, Utf8Character
  <2>2. 1 \in 1..Len(u)
    BY <2>1, FourIs
  <2>3. f \in Byte
    BY <2>1, <2>2, ElementOfSeq
  <2> QED BY <1>1, <2>3 DEF InString, Utf8Character
<1>3. FlattenSeq(q)[begin[k] + 1] = f
  BY <1>1, <1>2 DEF InString
<1> HIDE DEF f
<1>4. Utf8Size(FlattenSeq(q), begin[k] + 1)
        = IF f >= 240 THEN 4 ELSE IF f >= 224 THEN 3 ELSE IF f >= 192 THEN 2 ELSE 1
  BY <1>3 DEF Utf8Size
<1> HIDE DEF u
<1>5. f \in 0..255
  BY <1>2 DEF Byte
<1>6. CASE Len(u) = 1
  BY <1>2, <1>4, <1>5, <1>6 DEF u
<1>7. CASE Len(u) = 2
  BY <1>2, <1>4, <1>5, <1>7 DEF u
<1>8. CASE Len(u) = 3
  BY <1>2, <1>4, <1>5, <1>8 DEF u
<1>9. CASE Len(u) = 4
  BY <1>2, <1>4, <1>5, <1>9 DEF u
<1> QED BY <1>2, <1>6, <1>7, <1>8, <1>9

\* A string has as many bytes that do not continue a character as it has characters.
LEMMA LengthOfString == \A q : Characters(q) => Utf8Length(FlattenSeq(q)) = Len(q)
<1> SUFFICES ASSUME NEW q, Characters(q) PROVE Utf8Length(FlattenSeq(q)) = Len(q)
  OBVIOUS
<1> DEFINE s == FlattenSeq(q)
           N == Len(q)
           L == Len(s)
<1>1. N \in Nat
  BY LenProperties DEF Characters
<1>2. PICK begin : PlacesIn(q, begin)
  BY PlacesExist
<1>3. /\ begin \in [0..N -> Nat] /\ begin[0] = 0 /\ begin[N] = L /\ s \in Seq(Byte)
      /\ \A k \in 0..N-1 : InString(q, begin, k)
  BY <1>2 DEF PlacesIn
<1>4. L \in Nat /\ DOMAIN s = 1..L
  BY <1>3, LenProperties
<1> DEFINE First(k) == {i \in 1..begin[k] : i <= L /\ s[i] \div 64 # 2}
           Good == {k \in 0..N : IsFiniteSet(First(k)) /\ Cardinality(First(k)) = k}
<1>5. 0 \in Good
  <2>1. First(0) = {}
    BY <1>3
  <2> QED BY <1>1, <2>1, FS_EmptySet
<1>6. ASSUME NEW k \in 0..N-1, k \in Good PROVE k+1 \in Good
  <2> DEFINE b == begin[k]
             u == q[k+1]
             m == Len(u)
  <2>1. /\ b \in Nat /\ m \in 1..4 /\ begin[k+1] = b + m /\ b + m <= L
        /\ \A i \in 1..m : s[b + i] = u[i]
        /\ u[1] \div 64 # 2 /\ \A i \in 2..m : u[i] \div 64 = 2
    BY <1>3 DEF InString, Utf8Character
  <2> HIDE DEF b, m, u, s, L
  <2>2. s[b + 1] \div 64 # 2 /\ \A i \in 2..m : s[b + i] \div 64 = 2
    <3>1. 1 \in 1..m /\ \A i \in 2..m : i \in 1..m
      BY <2>1
    <3> QED BY <2>1, <3>1
  <2>3. First(k+1) = First(k) \cup {b + 1}
    <3>1. ASSUME NEW i \in 1..b + m PROVE i \in 1..b \/ i = b + 1 \/ s[i] \div 64 = 2
      <4>1. CASE i >= b + 2
        <5>1. i - b \in 2..m /\ b + (i - b) = i
          BY <2>1, <4>1
        <5> QED BY <2>2, <5>1
      <4> QED BY <2>1, <4>1
    <3>2. First(k+1) = {i \in 1..b + m : i <= L /\ s[i] \div 64 # 2}
      BY <2>1
    <3>3. First(k) = {i \in 1..b : i <= L /\ s[i] \div 64 # 2}
      BY DEF b
    <3>4. b + 1 \in 1..b + m /\ b + 1 <= L /\ \A i \in 1..b : i \in 1..b + m
      BY <1>4, <2>1
    <3> QED BY <2>2, <3>1, <3>2, <3>3, <3>4
  <2>4. b + 1 \notin First(k)
    BY <2>1 DEF b
  <2> HIDE DEF First
  <2>5. IsFiniteSet(First(k)) /\ Cardinality(First(k)) = k
    BY <1>6
  <2>6. IsFiniteSet(First(k+1)) /\ Cardinality(First(k+1)) = k + 1
    BY <2>3, <2>4, <2>5, FS_AddElement
  <2>7. k + 1 \in 0..N
    BY <1>1
  <2> QED BY <2>6, <2>7
<1> HIDE DEF Good
<1>7. N \in Good
  <2>1. \A k \in 0..N : k \in Good
    BY <1>1, <1>5, <1>6, Upwards
  <2> QED BY <1>1, <2>1
<1>8. {i \in DOMAIN s : ~Continuation(s, i)} = First(N)
  BY <1>3, <1>4 DEF Continuation
<1> QED BY <1>7, <1>8 DEF Good, Utf8Length

LEMMA CutIs ==
  ASSUME NEW S, NEW s, NEW u \in Seq(S), NEW b \in Nat, \A i \in 1..Len(u) : s[b + i] = u[i]
  PROVE  SubSeq(s, b + 1, b + Len(u)) = u
<1> DEFINE m == Len(u)
           t == SubSeq(s, b + 1, b + m)
<1>1. m \in Nat /\ \A i \in 1..m : u[i] \in S
  BY LenProperties, ElementOfSeq
<1>2. \A i \in b+1 .. b+m : s[i] \in S
  <2> SUFFICES ASSUME NEW i \in b+1 .. b+m PROVE s[i] \in S
    OBVIOUS
  <2> DEFINE j == i - b
  <2>1. j \in 1..m /\ b + j = i
    BY <1>1
  <2> HIDE DEF j
  <2>2. s[b + j] \in S
    BY <1>1, <2>1
  <2> QED BY <2>1, <2>2
<1> HIDE DEF m
<1>3. b+1 \in Int /\ b+m \in Int
  BY <1>1
<1>4. /\ t \in Seq(S) /\ Len(t) = IF b+1 <= b+m THEN (b+m)-(b+1)+1 ELSE 0
      /\ \A i \in 1..(b+m)-(b+1)+1 : t[i] = s[(b+1)+i-1]
  BY <1>2, <1>3, SubSeqProperties
<1>5. (b+m)-(b+1)+1 = m /\ (IF b+1 <= b+m THEN (b+m)-(b+1)+1 ELSE 0) = m
  BY <1>1
<1>6. \A i \in 1..m : (b+1)+i-1 = b+i
  BY <1>1
<1> HIDE DEF t
<1>7. Len(t) = Len(u) /\ \A i \in 1..Len(t) : t[i] = u[i]
  BY <1>4, <1>5, <1>6 DEF m
<1>8. t = u
  BY <1>4, <1>7, SeqEqual
<1> QED BY <1>8 DEF t, m

\* The first character of a string is found by its first byte and those that continue it.
LEMMA InitialOfString ==
  \A q : Characters(q) /\ Len(q) # 0 => Utf8Initial(FlattenSeq(q)).bytes = q[1]
<1> SUFFICES ASSUME NEW q, Characters(q), Len(q) # 0 PROVE Utf8Initial(FlattenSeq(q)).bytes = q[1]
  OBVIOUS
<1> DEFINE s == FlattenSeq(q)
           u == q[1]
           m == Len(u)
<1>1. 0 \in 0..Len(q)-1 /\ 0 + 1 = 1
  BY LenProperties DEF Characters
<1>2. PICK begin : PlacesIn(q, begin)
  BY PlacesExist
<1>3. InString(q, begin, 0) /\ begin[0] = 0 /\ s \in Seq(Byte)
  BY <1>1, <1>2 DEF PlacesIn
<1>4. Utf8Character(u) /\ begin[1] = 0 + m /\ begin[1] <= Len(s) /\ \A i \in 1..m : s[0 + i] = u[i]
  BY <1>1, <1>3 DEF InString
<1>5. /\ m \in 1..4 /\ m <= Len(s) /\ Len(s) \in Nat /\ s[1] = u[1] /\ u[1] \in Nat
      /\ \A i \in 2..m : Continuation(s, i)
  <2>1. m \in 1..4 /\ 1 \in 1..m /\ u \in Seq(Byte) /\ \A i \in 2..m : i \in 1..m
    BY <1>4, FourIs DEF Utf8Character
  <2>2. Len(s) \in Nat
    BY <1>3, LenProperties
  <2>3. 0 + m = m /\ \A i \in 1..m : 0 + i = i
    BY <2>1
  <2>4. m <= Len(s) /\ \A i \in 1..m : s[i] = u[i]
    BY <1>4, <2>3
  <2>5. u[1] \in Byte
    BY <2>1, ElementOfSeq
  <2>6. \A i \in 2..m : i <= Len(s) /\ s[i] \div 64 = 2
    <3>1. \A i \in 2..m : i <= Len(s)
      BY <2>1, <2>2, <2>4
    <3>2. \A i \in 2..m : s[i] \div 64 = 2
      BY <1>4, <2>1, <2>4 DEF Utf8Character
    <3> QED BY <3>1, <3>2
  <2>7. \A i \in 2..m : Continuation(s, i)
    BY <2>6 DEF Continuation
  <2>8. u[1] \in Nat
    <3>1. Byte \subseteq Nat
      BY DEF Byte
    <3> QED BY <2>5, <3>1, Zenon
  <2>9. s[1] = u[1]
    BY <2>1, <2>4
  <2> QED BY <2>1, <2>2, <2>4, <2>7, <2>8, <2>9, Zenon
<1>6. /\ m = 1 => u[1] < 128
      /\ m = 2 => u[1] \div 32 = 6
      /\ m = 3 => u[1] \div 16 = 14
      /\ m = 4 => u[1] \div 8 = 30
  BY <1>4 DEF Utf8Character
<1> DEFINE bytes == IF Single(s) THEN 1 ELSE IF Double(s) THEN 2 ELSE IF Triple(s) THEN 3
                   ELSE IF Quadruple(s) THEN 4 ELSE 0
<1>7. Utf8Initial(s).bytes = SubSeq(s, 1, bytes)
  BY DEF Utf8Initial
<1> HIDE DEF s, u, m
<1>8. bytes = m
  <2>1. CASE m = 1
    <3>1. Single(s)
      BY <1>5, <1>6, <2>1 DEF Single
    <3> QED BY <2>1, <3>1
  <2>2. CASE m = 2
    <3>1. ~Single(s) /\ s[1] \div 32 = 6
      BY <1>5, <1>6, <2>2 DEF Single
    <3>2. 2 \in 2..m
      BY <2>2
    <3>3. Double(s)
      BY <1>5, <3>1, <3>2 DEF Double
    <3> QED BY <2>2, <3>1, <3>3
  <2>3. CASE m = 3
    <3>1. ~Single(s) /\ s[1] \div 32 # 6 /\ s[1] \div 16 = 14
      BY <1>5, <1>6, <2>3 DEF Single
    <3>2. 2 \in 2..m /\ 3 \in 2..m
      BY <2>3
    <3>3. ~Double(s) /\ Triple(s)
      BY <1>5, <3>1, <3>2 DEF Double, Triple
    <3> QED BY <2>3, <3>1, <3>3
  <2>4. CASE m = 4
    <3>1. ~Single(s) /\ s[1] \div 32 # 6 /\ s[1] \div 16 # 14 /\ s[1] \div 8 = 30
      BY <1>5, <1>6, <2>4 DEF Single
    <3>2. 2 \in 2..m /\ 3 \in 2..m /\ 4 \in 2..m
      BY <2>4
    <3>3. ~Double(s) /\ ~Triple(s) /\ Quadruple(s)
      BY <1>5, <3>1, <3>2 DEF Double, Triple, Quadruple
    <3> QED BY <2>4, <3>1, <3>3
  <2>5. m = 1 \/ m = 2 \/ m = 3 \/ m = 4
    BY <1>5
  <2> QED BY <2>1, <2>2, <2>3, <2>4, <2>5
<1>9. SubSeq(s, 0 + 1, 0 + m) = u
  <2>1. u \in Seq(Byte)
    BY <1>4 DEF Utf8Character
  <2> QED BY <1>4, <2>1, CutIs DEF m
<1>10. 0 + 1 = 1 /\ 0 + m = m
  BY <1>5
<1>11. SubSeq(s, 1, m) = u
  BY <1>9, <1>10
<1> HIDE DEF bytes
<1> QED BY <1>7, <1>8, <1>11 DEF s, u

\* What convert takes from place i on, given what it takes behind.
Taken(s, f, i) ==
  LET rest == i + Utf8Size(s, i)
  IN  <<SubSeq(s, i, rest - 1)>> \o (IF rest > Len(s) THEN <<>> ELSE f[rest])

TakenFrom(s, f, a) == f = [i \in a..Len(s) |-> Taken(s, f, i)]

LEMMA ConvertIs ==
  \A s \in Seq(Byte) : \E f :
    /\ \A i \in 1..Len(s) : f[i] = Taken(s, f, i)
    /\ Utf8Convert(s) = IF s = <<>> THEN <<>> ELSE f[1]
<1> SUFFICES ASSUME NEW s \in Seq(Byte)
             PROVE  \E f : /\ \A i \in 1..Len(s) : f[i] = Taken(s, f, i)
                           /\ Utf8Convert(s) = IF s = <<>> THEN <<>> ELSE f[1]
  OBVIOUS
<1> DEFINE L == Len(s)
           Good == {k \in 0..L : \E f : TakenFrom(s, f, L+1-k)}
<1>1. L \in Nat
  BY LenProperties
<1>2. 0 \in Good
  <2> DEFINE f == [i \in L+1..L |-> <<>>]
  <2>1. L+1..L = {}
    BY <1>1
  <2>2. TakenFrom(s, f, L+1)
    BY <2>1 DEF TakenFrom
  <2>3. L+1-0 = L+1 /\ 0 \in 0..L
    BY <1>1
  <2> QED BY <2>2, <2>3
<1>3. ASSUME NEW k \in 0..L-1, k \in Good PROVE k+1 \in Good
  <2> DEFINE a == L+1-k
  <2>1. PICK f : TakenFrom(s, f, a)
    BY <1>3
  <2> DEFINE h == [i \in a-1..L |-> IF i = a-1 THEN Taken(s, f, i) ELSE f[i]]
  <2>2. a \in 2..L+1 /\ L+1-(k+1) = a-1 /\ k+1 \in 0..L
    BY <1>1
  <2> HIDE DEF a, L
  <2>3. \A i \in a..L : f[i] = Taken(s, f, i)
    BY <2>1 DEF TakenFrom, L
  <2>4. \A i \in a..L : h[i] = f[i]
    BY <2>2
  <2>5. \A i \in a-1..L : Taken(s, h, i) = Taken(s, f, i)
    <3> SUFFICES ASSUME NEW i \in a-1..L PROVE Taken(s, h, i) = Taken(s, f, i)
      OBVIOUS
    <3> HIDE DEF h
    <3> DEFINE rest == i + Utf8Size(s, i)
    <3>1. Utf8Size(s, i) \in 1..4
      BY DEF Utf8Size
    <3>2. rest > L \/ rest \in a..L
      BY <1>1, <2>2, <3>1
    <3>3. CASE rest > L
      BY <3>3 DEF Taken, L
    <3>4. CASE rest \in a..L
      <4>1. h[rest] = f[rest]
        BY <2>4, <3>4
      <4> QED BY <4>1 DEF Taken
    <3> QED BY <3>2, <3>3, <3>4
  <2>6. \A i \in a-1..L : h[i] = Taken(s, h, i)
    <3>1. \A i \in a-1..L : h[i] = Taken(s, f, i)
      <4> SUFFICES ASSUME NEW i \in a-1..L PROVE h[i] = Taken(s, f, i)
        OBVIOUS
      <4>1. CASE i = a-1
        BY <4>1
      <4>2. CASE i # a-1
        <5>1. i \in a..L
          BY <1>1, <2>2, <4>2
        <5> QED BY <2>3, <2>4, <5>1
      <4> QED BY <4>1, <4>2
    <3> QED BY <2>5, <3>1, Zenon
  <2>7. h = [i \in a-1..L |-> h[i]]
    OBVIOUS
  <2> HIDE DEF h
  <2>8. h = [i \in a-1..L |-> Taken(s, h, i)]
    BY <2>6, <2>7
  <2>9. TakenFrom(s, h, a-1)
    BY <2>8 DEF TakenFrom, L
  <2> QED BY <2>2, <2>9
<1> HIDE DEF Good
<1>4. L \in Good
  <2>1. \A k \in 0..L : k \in Good
    BY <1>1, <1>2, <1>3, Upwards
  <2> QED BY <1>1, <2>1
<1>5. \E f : TakenFrom(s, f, 1)
  <2>1. L+1-L = 1
    BY <1>1
  <2> QED BY <1>4, <2>1 DEF Good
<1> DEFINE f == CHOOSE g : TakenFrom(s, g, 1)
<1>6. TakenFrom(s, f, 1)
  BY <1>5, Zenon
<1> DEFINE conv[i \in 1..Len(s)] ==
             LET rest == i + Utf8Size(s, i)
             IN  <<SubSeq(s, i, rest - 1)>> \o (IF rest > Len(s) THEN <<>> ELSE conv[rest])
<1>7. f = conv
  BY Zenon DEF TakenFrom, Taken
<1>8. Utf8Convert(s) = IF s = <<>> THEN <<>> ELSE f[1]
  <2>1. Utf8Convert(s) = IF s = <<>> THEN <<>> ELSE conv[1]
    BY Zenon DEF Utf8Convert
  <2> HIDE DEF f, conv
  <2> QED BY <1>7, <2>1
<1> HIDE DEF f
<1>9. \A i \in 1..Len(s) : f[i] = Taken(s, f, i)
  BY <1>6 DEF TakenFrom
<1> QED BY <1>8, <1>9

\* The characters behind the first k.
TailFrom(q, k) == [j \in 1..Len(q)-k |-> q[k+j]]

LEMMA TailFromIs ==
  \A S : \A q \in Seq(S) :
    /\ TailFrom(q, 0) = q /\ TailFrom(q, Len(q)) = <<>>
    /\ \A k \in 0..Len(q)-1 : TailFrom(q, k) = <<q[k+1]>> \o TailFrom(q, k+1)
<1> SUFFICES ASSUME NEW S, NEW q \in Seq(S)
             PROVE  /\ TailFrom(q, 0) = q /\ TailFrom(q, Len(q)) = <<>>
                    /\ \A k \in 0..Len(q)-1 : TailFrom(q, k) = <<q[k+1]>> \o TailFrom(q, k+1)
  OBVIOUS
<1>1. Len(q) \in Nat /\ \A i \in 1..Len(q) : q[i] \in S
  BY LenProperties, ElementOfSeq
<1>2. \A k \in 0..Len(q) :
        /\ TailFrom(q, k) \in Seq(S) /\ Len(TailFrom(q, k)) = Len(q) - k
        /\ \A j \in 1..Len(q)-k : TailFrom(q, k)[j] = q[k+j]
  BY <1>1 DEF TailFrom
<1>3. TailFrom(q, 0) = q
  <2>1. 0 \in 0..Len(q) /\ Len(q) - 0 = Len(q) /\ \A j \in 1..Len(q) : 0 + j = j
    BY <1>1
  <2>2. TailFrom(q, 0) \in Seq(S) /\ Len(TailFrom(q, 0)) = Len(q)
    BY <1>2, <2>1
  <2>3. \A j \in 1..Len(TailFrom(q, 0)) : TailFrom(q, 0)[j] = q[j]
    BY <1>2, <2>1, <2>2
  <2> QED BY <2>2, <2>3, SeqEqual
<1>4. TailFrom(q, Len(q)) = <<>>
  <2>1. TailFrom(q, Len(q)) \in Seq(S) /\ Len(TailFrom(q, Len(q))) = 0
    BY <1>1, <1>2
  <2> QED BY <2>1, EmptySeq
<1>5. ASSUME NEW k \in 0..Len(q)-1 PROVE TailFrom(q, k) = <<q[k+1]>> \o TailFrom(q, k+1)
  <2> DEFINE t == TailFrom(q, k+1)
             u == TailFrom(q, k)
             n == Len(q)
             one == <<q[k+1]>>
  <2>1. k \in 0..n /\ k+1 \in 0..n /\ k+1 \in 1..n /\ n \in Nat /\ k \in Nat
    BY <1>1
  <2>2. t \in Seq(S) /\ Len(t) = n - (k+1) /\ \A j \in 1..n-(k+1) : t[j] = q[(k+1)+j]
    BY <1>2, <2>1
  <2>3. u \in Seq(S) /\ Len(u) = n - k /\ \A j \in 1..n-k : u[j] = q[k+j]
    BY <1>2, <2>1
  <2>4. one \in Seq(S) /\ Len(one) = 1 /\ one[1] = q[k+1]
    BY <1>1, <2>1
  <2> HIDE DEF t, u, one, n
  <2>5. /\ one \o t \in Seq(S) /\ Len(one \o t) = Len(one) + Len(t)
        /\ \A i \in 1..Len(one) + Len(t) : (one \o t)[i] = IF i <= Len(one) THEN one[i] ELSE t[i - Len(one)]
    <3>1. \A x, y \in Seq(S) :
            /\ x \o y \in Seq(S) /\ Len(x \o y) = Len(x) + Len(y)
            /\ \A i \in 1..Len(x) + Len(y) : (x \o y)[i] = IF i <= Len(x) THEN x[i] ELSE y[i - Len(x)]
      BY ConcatIs, Zenon
    <3>2. one \in Seq(S) /\ t \in Seq(S)
      BY <2>2, <2>4
    <3> QED BY <3>1, <3>2
  <2>6. Len(one \o t) = n - k /\ Len(one) + Len(t) = n - k
    BY <2>1, <2>2, <2>4, <2>5
  <2>7. ASSUME NEW i \in 1..n-k PROVE u[i] = (one \o t)[i]
    <3>1. CASE i = 1
      BY <2>1, <2>3, <2>4, <2>5, <2>6, <3>1
    <3>2. CASE i # 1
      <4>1. i - 1 \in 1..n-(k+1) /\ ~(i <= 1) /\ (k+1)+(i-1) = k+i
        BY <2>1, <3>2
      <4>2. (one \o t)[i] = t[i - 1]
        BY <2>4, <2>5, <2>6, <4>1
      <4> QED BY <2>2, <2>3, <4>1, <4>2
    <3> QED BY <3>1, <3>2
  <2>8. u = one \o t
    BY <2>3, <2>5, <2>6, <2>7, SeqEqual
  <2> QED BY <2>8 DEF u, one, t
<1> QED BY <1>3, <1>4, <1>5

\* convert cuts a string into its characters.
LEMMA ConvertedString == \A q : Characters(q) => Utf8Convert(FlattenSeq(q)) = q
<1> SUFFICES ASSUME NEW q, Characters(q) PROVE Utf8Convert(FlattenSeq(q)) = q
  OBVIOUS
<1> DEFINE s == FlattenSeq(q)
           N == Len(q)
           L == Len(s)
<1>1. q \in Seq(Seq(Byte)) /\ N \in Nat
  BY LenProperties DEF Characters
<1>2. PICK begin : PlacesIn(q, begin)
  BY PlacesExist
<1>3. /\ begin \in [0..N -> Nat] /\ begin[0] = 0 /\ begin[N] = L /\ s \in Seq(Byte)
      /\ \A k \in 0..N-1 : InString(q, begin, k)
  BY <1>2 DEF PlacesIn
<1>4. PICK f : /\ \A i \in 1..Len(s) : f[i] = Taken(s, f, i)
               /\ Utf8Convert(s) = IF s = <<>> THEN <<>> ELSE f[1]
  BY <1>3, ConvertIs
<1>5. L \in Nat /\ (s = <<>> <=> L = 0)
  BY <1>3, LenProperties, EmptySeq
<1> DEFINE R(k) == IF begin[k] + 1 > L THEN <<>> ELSE f[begin[k] + 1]
<1>6. R(N) = <<>>
  BY <1>3, <1>5
<1>7. ASSUME NEW k \in 0..N-1 PROVE R(k) = <<q[k+1]>> \o R(k+1)
  <2> DEFINE b == begin[k]
             u == q[k+1]
             m == Len(u)
             p == b + 1
  <2>1. /\ Utf8Character(u) /\ b \in Nat /\ begin[k+1] = b + m /\ begin[k+1] <= L
        /\ \A i \in 1..m : s[b + i] = u[i]
    BY <1>3 DEF InString
  <2>2. u \in Seq(Byte) /\ m \in 1..4
    BY <2>1 DEF Utf8Character
  <2>3. Utf8Size(s, p) = m
    BY <1>2, SizeIs
  <2>4. p \in 1..L /\ ~(b + 1 > L) /\ p + m = (b + m) + 1 /\ (p + m) - 1 = b + m
    <3>1. b \in Nat /\ b + m <= L /\ m \in 1..4 /\ L \in Nat
      BY <1>5, <2>1, <2>2
    <3> HIDE DEF b, m, L
    <3> QED BY <3>1
  <2>5. f[p] = Taken(s, f, p)
    BY <1>4, <2>4
  <2>6. Taken(s, f, p) = <<SubSeq(s, p, (p + m) - 1)>> \o (IF p + m > L THEN <<>> ELSE f[p + m])
    BY <2>3 DEF Taken
  <2>7. SubSeq(s, b + 1, b + m) = u
    <3>1. u \in Seq(Byte) /\ b \in Nat /\ \A i \in 1..Len(u) : s[b + i] = u[i]
      BY <2>1, <2>2
    <3> HIDE DEF b, u, s
    <3> QED BY <3>1, CutIs
  <2>8. R(k+1) = IF p + m > L THEN <<>> ELSE f[p + m]
    BY <2>1, <2>4
  <2>9. R(k) = f[p]
    BY <2>4
  <2> HIDE DEF R
  <2> QED BY <2>4, <2>5, <2>6, <2>7, <2>8, <2>9
<1> DEFINE Good == {m \in 0..N : R(N-m) = TailFrom(q, N-m)}
<1>8. /\ TailFrom(q, 0) = q /\ TailFrom(q, N) = <<>>
      /\ \A k \in 0..N-1 : TailFrom(q, k) = <<q[k+1]>> \o TailFrom(q, k+1)
  BY <1>1, TailFromIs
<1>9. R(0) = Utf8Convert(s)
  BY <1>3, <1>4, <1>5
<1> HIDE DEF R, N
<1>10. 0 \in Good
  <2>1. N-0 = N /\ 0 \in 0..N
    BY <1>1
  <2> QED BY <1>6, <1>8, <2>1
<1>11. ASSUME NEW m \in 0..N-1, m \in Good PROVE m+1 \in Good
  <2> DEFINE k == N-(m+1)
  <2>1. k \in 0..N-1 /\ k+1 = N-m /\ m+1 \in 0..N
    BY <1>1
  <2>2. R(k+1) = TailFrom(q, k+1)
    BY <1>11, <2>1
  <2> HIDE DEF k
  <2>3. R(k) = TailFrom(q, k)
    BY <1>7, <1>8, <2>1, <2>2
  <2> QED BY <2>1, <2>3 DEF k
<1> HIDE DEF Good
<1>12. N \in Good
  <2>1. \A m \in 0..N : m \in Good
    BY <1>1, <1>10, <1>11, Upwards
  <2> QED BY <1>1, <2>1
<1>13. R(0) = TailFrom(q, 0)
  <2>1. N-N = 0
    BY <1>1
  <2> QED BY <1>12, <2>1 DEF Good
<1> QED BY <1>8, <1>9, <1>13

(***************************************************************************)
(* A string of any characters, encoded as UTF-8 defines, has their number  *)
(* for gfc_utf8_length, begins with the first for gfc_utf8_initial and is  *)
(* cut into them by gfc_utf8_convert.                                      *)
(***************************************************************************)
THEOREM Utf8Correct == \A v \in Seq(CodePoint) : Utf8Exact(v)
<1> SUFFICES ASSUME NEW v \in Seq(CodePoint) PROVE Utf8Exact(v)
  OBVIOUS
<1> DEFINE q == [i \in DOMAIN v |-> Utf8Bytes(v[i])]
           s == FlattenSeq(q)
           N == Len(v)
<1>1. N \in Nat /\ DOMAIN v = 1..N /\ \A i \in 1..N : v[i] \in CodePoint
  BY LenProperties, ElementOfSeq
<1>2. \A i \in 1..N : q[i] = Utf8Bytes(v[i]) /\ Utf8Character(q[i])
  BY <1>1, CharacterIs
<1>3. q \in Seq(Seq(Byte)) /\ Len(q) = N
  <2>1. q \in [1..N -> Seq(Byte)]
    BY <1>1, <1>2 DEF Utf8Character
  <2>2. \A S : \A x \in [1..N -> S] : x \in Seq(S) /\ Len(x) = N
    BY <1>1
  <2> QED BY <2>1, <2>2, Zenon
<1>4. Characters(q)
  BY <1>2, <1>3 DEF Characters
<1>5. v # <<>> <=> N # 0
  BY EmptySeq
<1>6. Utf8Length(s) = N /\ Utf8Convert(s) = q
  BY <1>3, <1>4, LengthOfString, ConvertedString
<1>7. v # <<>> => Utf8Initial(s).bytes = Utf8Bytes(v[1])
  BY <1>1, <1>2, <1>3, <1>4, <1>5, InitialOfString
<1>8. N = 1 => Utf8ConvertedLength(s) = Len(s)
  <2> SUFFICES ASSUME N = 1 PROVE Utf8ConvertedLength(s) = Len(s)
    OBVIOUS
  <2>1. PICK begin : PlacesIn(q, begin)
    BY <1>4, PlacesExist
  <2>2. InString(q, begin, 0) /\ begin[0] = 0 /\ begin[1] = Len(s) /\ s \in Seq(Byte)
    <3>1. 0 \in 0..1-1
      OBVIOUS
    <3> QED BY <1>3, <2>1, <3>1 DEF PlacesIn
  <2>3. Utf8Character(q[1]) /\ Len(s) = 0 + Len(q[1])
    <3>1. 0 + 1 = 1
      OBVIOUS
    <3> QED BY <2>2, <3>1 DEF InString
  <2>4. Len(q[1]) \in 1..4 /\ Len(s) = Len(q[1])
    BY <2>3 DEF Utf8Character
  <2>5. s # <<>>
    BY <2>2, <2>4, EmptySeq
  <2>6. Utf8ConvertedLength(s) = Len(Last(q))
    BY <1>6, <2>5 DEF Utf8ConvertedLength
  <2>7. Last(q) = q[1]
    BY <1>3 DEF Last
  <2> QED BY <2>4, <2>6, <2>7
<1> HIDE DEF s
<1> QED BY <1>6, <1>7, <1>8 DEF Utf8Exact, s

-----------------------------------------------------------------------------
\* Hexadecimal: the sixteen digits.
Digit == {HexDigits[d + 1] : d \in 0..15}

LEMMA DigitsAre ==
  /\ Range(HexDigits) = Digit
  /\ \A d \in 0..15 : HexToInt(HexDigits[d + 1]) = d /\ HexToChar(d) = HexDigits[d + 1]
<1>1. /\ HexDigits[1] = "0" /\ HexDigits[2] = "1" /\ HexDigits[3] = "2" /\ HexDigits[4] = "3"
      /\ HexDigits[5] = "4" /\ HexDigits[6] = "5" /\ HexDigits[7] = "6" /\ HexDigits[8] = "7"
      /\ HexDigits[9] = "8" /\ HexDigits[10] = "9" /\ HexDigits[11] = "A" /\ HexDigits[12] = "B"
      /\ HexDigits[13] = "C" /\ HexDigits[14] = "D" /\ HexDigits[15] = "E" /\ HexDigits[16] = "F"
      /\ DOMAIN HexDigits = 1..16
  BY DEF HexDigits
<1>2. \A i, j \in 1..16 : HexDigits[i] = HexDigits[j] => i = j
  BY <1>1
<1>3. \A d \in 0..15 : d+1 \in 1..16
  OBVIOUS
<1>4. Range(HexDigits) = Digit
  <2>1. \A i \in 1..16 : i-1 \in 0..15 /\ (i-1)+1 = i
    OBVIOUS
  <2>2. Range(HexDigits) = {HexDigits[i] : i \in 1..16}
    BY <1>1 DEF Range
  <2> QED BY <1>3, <2>1, <2>2 DEF Digit
<1>5. ASSUME NEW d \in 0..15 PROVE HexToInt(HexDigits[d + 1]) = d
  <2>1. HexDigits[d + 1] \in Range(HexDigits)
    BY <1>4 DEF Digit
  <2>2. \A e \in 0..15 : HexDigits[e + 1] = HexDigits[d + 1] => e = d
    <3> SUFFICES ASSUME NEW e \in 0..15, HexDigits[e + 1] = HexDigits[d + 1] PROVE e = d
      OBVIOUS
    <3>1. e + 1 = d + 1
      BY <1>2, <1>3
    <3> QED BY <3>1
  <2> DEFINE c == CHOOSE e \in 0..15 : HexDigits[e + 1] = HexDigits[d + 1]
  <2>3. c \in 0..15 /\ HexDigits[c + 1] = HexDigits[d + 1]
    OBVIOUS
  <2>4. HexToInt(HexDigits[d + 1]) = c
    BY <2>1 DEF HexToInt
  <2> HIDE DEF c
  <2> QED BY <2>2, <2>3, <2>4
<1>6. \A d \in 0..15 : HexToChar(d) = HexDigits[d + 1]
  BY DEF HexToChar
<1> QED BY <1>4, <1>5, <1>6

LEMMA HexToIntIs == \A ch : HexToInt(ch) \in Nat
<1> SUFFICES ASSUME NEW ch PROVE HexToInt(ch) \in Nat
  OBVIOUS
<1>1. CASE ch \in Range(HexDigits)
  <2>1. PICK d \in 0..15 : ch = HexDigits[d + 1]
    BY <1>1, DigitsAre DEF Digit
  <2>2. HexToInt(ch) = d
    BY <2>1, DigitsAre
  <2> QED BY <2>2
<1>2. CASE ch \notin Range(HexDigits)
  BY <1>2 DEF HexToInt
<1> QED BY <1>1, <1>2

\* The digits of a byte.
LEMMA DigitsOf ==
  \A b \in Byte :
    /\ b \div 16 \in 0..15 /\ b % 16 \in 0..15 /\ b = 16 * (b \div 16) + (b % 16)
    /\ HexToInt(HexToChar(b \div 16)) = b \div 16 /\ HexToInt(HexToChar(b % 16)) = b % 16
<1> SUFFICES ASSUME NEW b \in Byte
             PROVE  /\ b \div 16 \in 0..15 /\ b % 16 \in 0..15 /\ b = 16 * (b \div 16) + (b % 16)
                    /\ HexToInt(HexToChar(b \div 16)) = b \div 16 /\ HexToInt(HexToChar(b % 16)) = b % 16
  OBVIOUS
<1>1. b \div 16 \in 0..15 /\ b % 16 \in 0..15 /\ b = 16 * (b \div 16) + (b % 16)
  BY DEF Byte
<1>2. \A d \in 0..15 : HexToInt(HexToChar(d)) = d
  BY DigitsAre
<1> QED BY <1>1, <1>2, Zenon

\* A bit of a byte that is odd, and of its successor or predecessor.
BitOf(b, i) == (b \div <<1, 2, 4, 8, 16, 32, 64, 128>>[i]) % 2

LEMMA OnesIs == \A b \in Byte : b % 2 = 0 => Ones(b) \in Nat /\ Ones(b + 1) = Ones(b) + 1
<1> SUFFICES ASSUME NEW b \in Byte, b % 2 = 0 PROVE Ones(b) \in Nat /\ Ones(b + 1) = Ones(b) + 1
  OBVIOUS
<1> DEFINE One(x) == {i \in 1..8 : BitOf(x, i) = 1}
<1>1. BitOf(b, 1) = 0 /\ BitOf(b + 1, 1) = 1
  BY DEF BitOf, Byte
<1>2. ASSUME NEW i \in 2..8 PROVE BitOf(b + 1, i) = BitOf(b, i)
  <2>1. b \in Nat /\ b % 2 = 0
    BY DEF Byte
  <2>2. /\ (b+1) \div 2 = b \div 2 /\ (b+1) \div 4 = b \div 4 /\ (b+1) \div 8 = b \div 8
        /\ (b+1) \div 16 = b \div 16 /\ (b+1) \div 32 = b \div 32 /\ (b+1) \div 64 = b \div 64
        /\ (b+1) \div 128 = b \div 128
    BY <2>1
  <2>3. i = 2 \/ i = 3 \/ i = 4 \/ i = 5 \/ i = 6 \/ i = 7 \/ i = 8
    OBVIOUS
  <2> QED BY <2>2, <2>3 DEF BitOf
<1>3. One(b + 1) = One(b) \cup {1} /\ 1 \notin One(b)
  <2>1. \A i \in 1..8 : i = 1 \/ i \in 2..8
    OBVIOUS
  <2>2. 1 \in 1..8
    OBVIOUS
  <2> QED BY <1>1, <1>2, <2>1, <2>2
<1>4. IsFiniteSet(One(b))
  <2>1. IsFiniteSet(1..8)
    <3>1. 1 \in Int /\ 8 \in Int
      OBVIOUS
    <3> QED BY <3>1, FS_Interval, Zenon
  <2> QED BY <2>1, FS_Subset
<1> HIDE DEF One
<1>5. Cardinality(One(b)) \in Nat /\ Cardinality(One(b + 1)) = Cardinality(One(b)) + 1
  BY <1>3, <1>4, FS_AddElement, FS_CardinalityType
<1> QED BY <1>5 DEF One, Ones, BitOf

\* A byte whose parity is corrected without a carry has an odd number of ones.
LEMMA ParityIs ==
  \A v \in Seq(Byte) : \A i \in DOMAIN v :
    v[i] % 2 = 0 \/ v[i] % 16 = 15 => Ones(HexParity(v)[i]) % 2 = 1
<1> SUFFICES ASSUME NEW v \in Seq(Byte), NEW i \in DOMAIN v, v[i] % 2 = 0 \/ v[i] % 16 = 15
             PROVE  Ones(HexParity(v)[i]) % 2 = 1
  OBVIOUS
<1> DEFINE x == v[i]
           y == HexParity(v)[i]
<1>1. x \in Byte
  BY LenProperties, ElementOfSeq
<1>2. y = IF Ones(x) % 2 = 1 THEN x ELSE IF x % 16 = 15 THEN x - 1 ELSE x + 1
  BY DEF HexParity
<1> HIDE DEF x, y
<1>3. CASE Ones(x) % 2 = 1
  BY <1>2, <1>3 DEF y
<1>4. CASE Ones(x) % 2 # 1 /\ x % 16 = 15
  <2>1. x - 1 \in Byte /\ (x - 1) % 2 = 0 /\ (x - 1) + 1 = x
    <3> DEFINE h == x \div 16
    <3>1. x \in 0..255 /\ h \in 0..15 /\ x = 16 * h + 15
      BY <1>1, <1>4 DEF Byte
    <3> HIDE DEF h
    <3>2. x - 1 \in 0..255 /\ (x - 1) + 1 = x /\ x - 1 = 2 * (8 * h + 7)
      BY <3>1
    <3>3. (2 * (8 * h + 7)) % 2 = 0
      BY <3>1
    <3> QED BY <3>2, <3>3 DEF Byte
  <2>2. Ones(x - 1) \in Nat /\ Ones(x) = Ones(x - 1) + 1
    BY <2>1, OnesIs
  <2>3. Ones(x - 1) % 2 = 1
    BY <1>4, <2>2
  <2> QED BY <1>2, <1>4, <2>3 DEF y
<1>5. CASE Ones(x) % 2 # 1 /\ x % 16 # 15
  <2>1. x % 2 = 0
    BY <1>5 DEF x
  <2>2. Ones(x) \in Nat /\ Ones(x + 1) = Ones(x) + 1
    BY <1>1, <2>1, OnesIs
  <2>3. Ones(x + 1) % 2 = 1
    BY <1>5, <2>2
  <2> QED BY <1>2, <1>5, <2>3 DEF y
<1> QED BY <1>3, <1>4, <1>5

\* Two decimal digits are packed as their number.
LEMMA BcdIs ==
  \A b \in 0..99 :
    AscToBcd(<<HexDigits[(b \div 10) + 1], HexDigits[(b % 10) + 1]>>) = <<DecToBcd(b)>>
<1> SUFFICES ASSUME NEW b \in 0..99
             PROVE  AscToBcd(<<HexDigits[(b \div 10) + 1], HexDigits[(b % 10) + 1]>>) = <<DecToBcd(b)>>
  OBVIOUS
<1> DEFINE c == HexDigits[(b \div 10) + 1]
           d == HexDigits[(b % 10) + 1]
           t == <<c, d>>
           h == b \div 10
           l == b % 10
<1>1. h \in 0..15 /\ l \in 0..15
  OBVIOUS
<1>2. HexToInt(c) = h /\ HexToInt(d) = l
  <2> HIDE DEF h, l
  <2> QED BY <1>1, DigitsAre DEF h, l
<1> HIDE DEF c, d
<1>3. Len(t) = 2 /\ t[1] = c /\ t[2] = d
  OBVIOUS
<1>4. AscToBcd(t) = [i \in 1..((Len(t) + 1) \div 2) |->
         HexToInt(t[2 * i - 1]) * 16 + (IF 2 * i <= Len(t) THEN HexToInt(t[2 * i]) ELSE 0)]
  BY DEF AscToBcd
<1> HIDE DEF t
<1>5. (Len(t) + 1) \div 2 = 1 /\ 2 * 1 - 1 = 1 /\ 2 * 1 = 2 /\ 2 * 1 <= Len(t)
  BY <1>3
<1>6. AscToBcd(t) = [i \in 1..1 |-> h * 16 + l]
  <2>1. \A i \in 1..1 : i = 1
    OBVIOUS
  <2>2. \A i \in 1..1 : HexToInt(t[2 * i - 1]) * 16 + (IF 2 * i <= Len(t) THEN HexToInt(t[2 * i]) ELSE 0)
                          = h * 16 + l
    <3> HIDE DEF h, l
    <3> QED BY <1>2, <1>3, <1>5, <2>1
  <2> HIDE DEF h, l
  <2> QED BY <1>4, <1>5, <2>2
<1>7. [i \in 1..1 |-> h * 16 + l] = <<h * 16 + l>>
  OBVIOUS
<1>8. DecToBcd(b) = h * 16 + l
  BY DEF DecToBcd
<1> QED BY <1>6, <1>7, <1>8 DEF t, c, d

\* The bits of a digit.
LEMMA BitsAre ==
  \A d \in 0..15 :
    LET bits == HexToBits(HexDigits[d + 1])
    IN  /\ bits = [i \in 1..4 |-> (d \div <<8, 4, 2, 1>>[i]) % 2]
        /\ bits[1] \in 0..1 /\ bits[2] \in 0..1 /\ bits[3] \in 0..1 /\ bits[4] \in 0..1
        /\ d = 8 * bits[1] + 4 * bits[2] + 2 * bits[3] + bits[4]
<1> SUFFICES ASSUME NEW d \in 0..15
             PROVE  LET bits == HexToBits(HexDigits[d + 1])
                    IN  /\ bits = [i \in 1..4 |-> (d \div <<8, 4, 2, 1>>[i]) % 2]
                        /\ bits[1] \in 0..1 /\ bits[2] \in 0..1 /\ bits[3] \in 0..1 /\ bits[4] \in 0..1
                        /\ d = 8 * bits[1] + 4 * bits[2] + 2 * bits[3] + bits[4]
  OBVIOUS
<1> DEFINE bits == HexToBits(HexDigits[d + 1])
<1>1. HexToInt(HexDigits[d + 1]) = d
  BY DigitsAre
<1>2. bits = [i \in 1..4 |-> (d \div <<8, 4, 2, 1>>[i]) % 2]
  BY <1>1 DEF HexToBits
<1> HIDE DEF bits
<1>3. bits[1] = (d \div 8) % 2 /\ bits[2] = (d \div 4) % 2 /\ bits[3] = (d \div 2) % 2 /\ bits[4] = (d \div 1) % 2
  BY <1>2
<1>4. /\ bits[1] \in 0..1 /\ bits[2] \in 0..1 /\ bits[3] \in 0..1 /\ bits[4] \in 0..1
      /\ d = 8 * bits[1] + 4 * bits[2] + 2 * bits[3] + bits[4]
  BY <1>3
<1> QED BY <1>2, <1>4 DEF bits

LEMMA BitsBack == \A ch \in Digit : BitsToChar(HexToBits(ch)) = ch
<1> SUFFICES ASSUME NEW d \in 0..15 PROVE BitsToChar(HexToBits(HexDigits[d + 1])) = HexDigits[d + 1]
  BY DEF Digit
<1> DEFINE bits == HexToBits(HexDigits[d + 1])
           c == CHOOSE ch \in Range(HexDigits) : HexToBits(ch) = bits
<1>1. HexDigits[d + 1] \in Range(HexDigits)
  BY DigitsAre DEF Digit
<1>2. c \in Range(HexDigits) /\ HexToBits(c) = bits
  BY <1>1
<1>3. BitsToChar(bits) = c
  BY DEF BitsToChar
<1> HIDE DEF c
<1>4. PICK e \in 0..15 : c = HexDigits[e + 1]
  BY <1>2, DigitsAre DEF Digit
<1>5. HexToBits(HexDigits[e + 1]) = bits
  BY <1>2, <1>4
<1> DEFINE w(x) == 8 * x[1] + 4 * x[2] + 2 * x[3] + x[4]
<1>6. d = w(bits) /\ e = w(HexToBits(HexDigits[e + 1]))
  BY BitsAre
<1> HIDE DEF bits, w
<1>7. d = e
  BY <1>5, <1>6
<1> QED BY <1>3, <1>4, <1>7 DEF bits

\* A recursive function whose value at i is made of the one before, as a loop makes it.
Turns(f, N, a, g) == f = [i \in 0..N |-> IF i = 0 THEN a ELSE g[i][f[i-1]]]

LEMMA TurnsExist ==
  \A N \in Nat : \A S : \A a \in S : \A g \in [1..N -> [S -> S]] :
    \E f \in [0..N -> S] : Turns(f, N, a, g)
<1> SUFFICES ASSUME NEW N \in Nat, NEW S, NEW a \in S, NEW g \in [1..N -> [S -> S]]
             PROVE  \E f \in [0..N -> S] : Turns(f, N, a, g)
  OBVIOUS
<1>1. PICK f \in [0..N -> S] : Loop(f, N, a, g)
  BY LoopExists
<1>2. \A i \in 0..N : f[i] = IF i = 0 THEN a ELSE g[i][f[i-1]]
  <2>1. \A i \in 0..N : i = 0 \/ i \in 1..N
    OBVIOUS
  <2> QED BY <1>1, <2>1 DEF Loop
<1>3. f = [i \in 0..N |-> f[i]]
  OBVIOUS
<1>4. f = [i \in 0..N |-> IF i = 0 THEN a ELSE g[i][f[i-1]]]
  BY <1>2, <1>3
<1> QED BY <1>4 DEF Turns

\* The powers of the radix, and the number that a loop sums up of them.
PowersOf(p, N, radix) == p = [i \in 0..N |-> IF i = 0 THEN 1 ELSE radix * p[i-1]]
SumsOf(f, N, txt, start, p) ==
  f = [i \in 0..N |-> IF i = 0 THEN 0 ELSE f[i-1] + p[N-i] * HexToInt(txt[start+i])]
PoweredAs(p, N, radix) == p \in [0..N -> Nat] /\ p[0] = 1 /\ \A i \in 1..N : p[i] = radix * p[i-1]
SummedAs(f, N, txt, start, p) ==
  /\ f \in [0..N -> Nat] /\ f[0] = 0
  /\ \A i \in 1..N : f[i] = f[i-1] + p[N-i] * HexToInt(txt[start+i])
NumbersOf(f, N, v) == f = [i \in 0..N |-> IF i = 0 THEN 0 ELSE 256 * f[i-1] + v[i]]

LEMMA PowersExist ==
  \A N, radix \in Nat : \E p : PowersOf(p, N, radix)
<1> SUFFICES ASSUME NEW N \in Nat, NEW radix \in Nat PROVE \E p : PowersOf(p, N, radix)
  OBVIOUS
<1> DEFINE g == [i \in 1..N |-> [s \in Nat |-> radix * s]]
<1>1. g \in [1..N -> [Nat -> Nat]] /\ 1 \in Nat
  OBVIOUS
<1>2. \A i \in 1..N : \A s \in Nat : g[i][s] = radix * s
  OBVIOUS
<1> HIDE DEF g
<1>3. PICK f \in [0..N -> Nat] : Turns(f, N, 1, g)
  BY <1>1, TurnsExist
<1>4. \A i \in 0..N : f[i] = IF i = 0 THEN 1 ELSE radix * f[i-1]
  <2>1. \A i \in 0..N : i = 0 \/ (i \in 1..N /\ i-1 \in 0..N)
    OBVIOUS
  <2>2. \A i \in 0..N : f[i] = IF i = 0 THEN 1 ELSE g[i][f[i-1]]
    BY <1>3 DEF Turns
  <2> QED BY <1>2, <2>1, <2>2
<1>5. f = [i \in 0..N |-> f[i]]
  OBVIOUS
<1>6. f = [i \in 0..N |-> IF i = 0 THEN 1 ELSE radix * f[i-1]]
  BY <1>4, <1>5
<1> QED BY <1>6 DEF PowersOf

LEMMA PowersAre ==
  \A N, radix \in Nat : \A p : PowersOf(p, N, radix) => PoweredAs(p, N, radix)
<1> SUFFICES ASSUME NEW N \in Nat, NEW radix \in Nat, NEW p, PowersOf(p, N, radix)
             PROVE  PoweredAs(p, N, radix)
  OBVIOUS
<1>1. \A i \in 0..N : p[i] = IF i = 0 THEN 1 ELSE radix * p[i-1]
  BY DEF PowersOf
<1>2. p[0] = 1 /\ \A i \in 1..N : p[i] = radix * p[i-1]
  BY <1>1
<1> DEFINE Good == {i \in 0..N : p[i] \in Nat}
<1>3. 0 \in Good
  BY <1>2
<1>4. ASSUME NEW i \in 0..N-1, i \in Good PROVE i+1 \in Good
  <2>1. i+1 \in 1..N /\ i+1 \in 0..N /\ (i+1)-1 = i /\ p[i] \in Nat
    BY <1>4
  <2>2. p[i+1] = radix * p[i]
    BY <1>2, <2>1
  <2>3. radix * p[i] \in Nat
    BY <2>1
  <2> QED BY <2>1, <2>2, <2>3
<1> HIDE DEF Good
<1>5. \A i \in 0..N : i \in Good
  BY <1>3, <1>4, Upwards
<1>6. p = [i \in 0..N |-> p[i]]
  BY DEF PowersOf
<1>7. \A i \in 0..N : p[i] \in Nat
  BY <1>5 DEF Good
<1> QED BY <1>2, <1>6, <1>7 DEF PoweredAs

LEMMA SumsExist ==
  \A N, start \in Nat : \A txt : \A p \in [0..N -> Nat] : \E f : SumsOf(f, N, txt, start, p)
<1> SUFFICES ASSUME NEW N \in Nat, NEW start \in Nat, NEW txt, NEW p \in [0..N -> Nat]
             PROVE  \E f : SumsOf(f, N, txt, start, p)
  OBVIOUS
<1> DEFINE d(i) == p[N-i] * HexToInt(txt[start+i])
           g == [i \in 1..N |-> [s \in Nat |-> s + d(i)]]
<1>1. \A i \in 1..N : d(i) \in Nat
  <2> SUFFICES ASSUME NEW i \in 1..N PROVE d(i) \in Nat
    OBVIOUS
  <2>1. N-i \in 0..N
    OBVIOUS
  <2>2. p[N-i] \in Nat
    BY <2>1
  <2>3. HexToInt(txt[start+i]) \in Nat
    BY HexToIntIs, Zenon
  <2> DEFINE x == p[N-i]
             y == HexToInt(txt[start+i])
  <2>4. x \in Nat /\ y \in Nat /\ d(i) = x * y
    BY <2>2, <2>3
  <2> HIDE DEF x, y, d
  <2> QED BY <2>4
<1> HIDE DEF d
<1>2. g \in [1..N -> [Nat -> Nat]] /\ 0 \in Nat
  BY <1>1
<1>3. \A i \in 1..N : \A s \in Nat : g[i][s] = s + d(i)
  OBVIOUS
<1> HIDE DEF g
<1>4. PICK f \in [0..N -> Nat] : Turns(f, N, 0, g)
  BY <1>2, TurnsExist
<1>5. \A i \in 0..N : f[i] = IF i = 0 THEN 0 ELSE f[i-1] + d(i)
  <2>1. \A i \in 0..N : i = 0 \/ (i \in 1..N /\ i-1 \in 0..N)
    OBVIOUS
  <2>2. \A i \in 0..N : f[i] = IF i = 0 THEN 0 ELSE g[i][f[i-1]]
    BY <1>4 DEF Turns
  <2> QED BY <1>3, <2>1, <2>2
<1>6. f = [i \in 0..N |-> f[i]]
  OBVIOUS
<1>7. f = [i \in 0..N |-> IF i = 0 THEN 0 ELSE f[i-1] + d(i)]
  BY <1>5, <1>6
<1> QED BY <1>7, Zenon DEF SumsOf, d

LEMMA SumsAre ==
  \A N, start \in Nat : \A txt : \A p \in [0..N -> Nat] : \A f : SumsOf(f, N, txt, start, p) =>
    SummedAs(f, N, txt, start, p)
<1> SUFFICES ASSUME NEW N \in Nat, NEW start \in Nat, NEW txt, NEW p \in [0..N -> Nat], NEW f,
                    SumsOf(f, N, txt, start, p)
             PROVE  SummedAs(f, N, txt, start, p)
  OBVIOUS
<1>1. \A i \in 0..N : f[i] = IF i = 0 THEN 0 ELSE f[i-1] + p[N-i] * HexToInt(txt[start+i])
  BY DEF SumsOf
<1>2. f[0] = 0 /\ \A i \in 1..N : f[i] = f[i-1] + p[N-i] * HexToInt(txt[start+i])
  BY <1>1
<1> DEFINE Good == {i \in 0..N : f[i] \in Nat}
<1>3. 0 \in Good
  BY <1>2
<1>4. ASSUME NEW i \in 0..N-1, i \in Good PROVE i+1 \in Good
  <2>1. i+1 \in 1..N /\ i+1 \in 0..N /\ (i+1)-1 = i /\ f[i] \in Nat /\ N-(i+1) \in 0..N
    BY <1>4
  <2>2. f[i+1] = f[i] + p[N-(i+1)] * HexToInt(txt[start+(i+1)])
    BY <1>2, <2>1
  <2> DEFINE x == p[N-(i+1)]
             y == HexToInt(txt[start+(i+1)])
  <2>3. x \in Nat /\ y \in Nat
    <3>1. p[N-(i+1)] \in Nat
      BY <2>1
    <3>2. HexToInt(txt[start+(i+1)]) \in Nat
      BY HexToIntIs, Zenon
    <3> QED BY <3>1, <3>2
  <2> HIDE DEF x, y
  <2>4. f[i+1] = f[i] + x * y
    BY <2>2, Zenon DEF x, y
  <2>5. f[i+1] \in Nat
    <3>1. x * y \in Nat
      BY <2>3
    <3> QED BY <2>1, <2>4, <3>1
  <2> QED BY <2>1, <2>5
<1> HIDE DEF Good
<1>5. \A i \in 0..N : i \in Good
  BY <1>3, <1>4, Upwards
<1>6. f = [i \in 0..N |-> f[i]]
  BY DEF SumsOf
<1>7. \A i \in 0..N : f[i] \in Nat
  BY <1>5 DEF Good
<1> QED BY <1>2, <1>6, <1>7 DEF SummedAs

\* What hex_from_bytes_to_int returns.
LEMMA IntIs ==
  \A txt : \A start, N, radix \in Nat : \E p, f :
    /\ PoweredAs(p, N, radix) /\ SummedAs(f, N, txt, start, p)
    /\ HexFromBytesToInt(txt, start, N, radix) = f[N]
<1> TAKE txt
<1> TAKE start, N, radix \in Nat
<1> DEFINE pw[i \in 0..N] == IF i = 0 THEN 1 ELSE radix * pw[i-1]
           rs[i \in 0..N] == IF i = 0 THEN 0 ELSE rs[i-1] + pw[N-i] * HexToInt(txt[start+i])
<1>1. HexFromBytesToInt(txt, start, N, radix) = rs[N]
  BY Zenon DEF HexFromBytesToInt
<1>2. PowersOf(pw, N, radix)
  <2> DEFINE c == CHOOSE p : PowersOf(p, N, radix)
  <2>1. PowersOf(c, N, radix)
    BY PowersExist, Zenon
  <2>2. pw = c
    BY Zenon DEF PowersOf
  <2> HIDE DEF pw, c
  <2> QED BY <2>1, <2>2
<1>3. PoweredAs(pw, N, radix) /\ pw \in [0..N -> Nat]
  <2> HIDE DEF pw
  <2>1. PoweredAs(pw, N, radix)
    BY <1>2, PowersAre, Zenon
  <2> QED BY <2>1 DEF PoweredAs
<1> HIDE DEF pw
<1>4. SumsOf(rs, N, txt, start, pw)
  <2> DEFINE c == CHOOSE f : SumsOf(f, N, txt, start, pw)
  <2>1. SumsOf(c, N, txt, start, pw)
    BY <1>3, SumsExist, Zenon
  <2>2. rs = c
    BY Zenon DEF SumsOf
  <2> HIDE DEF rs, c
  <2> QED BY <2>1, <2>2
<1> HIDE DEF rs
<1>5. SummedAs(rs, N, txt, start, pw)
  BY <1>3, <1>4, SumsAre, Zenon
<1> QED BY <1>1, <1>3, <1>5, Zenon

\* The digits that are written for bytes.
HexTextIs(v, t) ==
  /\ t \in Seq(Digit) /\ Len(t) = 2 * Len(v)
  /\ \A k \in 0..Len(v)-1 : t[2*k+1] = HexToChar(v[k+1] \div 16) /\ t[2*k+2] = HexToChar(v[k+1] % 16)

LEMMA HexTextOf == \A v \in Seq(Byte) : HexTextIs(v, HexToString(v))
<1> SUFFICES ASSUME NEW v \in Seq(Byte) PROVE HexTextIs(v, HexToString(v))
  OBVIOUS
<1> DEFINE n == Len(v)
           h(i) == HexToChar(v[i] \div 16)
           l(i) == HexToChar(v[i] % 16)
           part(i) == <<h(i), l(i)>>
           q == [i \in DOMAIN v |-> part(i)]
           t == HexToString(v)
<1>1. n \in Nat /\ DOMAIN v = 1..n /\ \A i \in 1..n : v[i] \in Byte
  BY LenProperties, ElementOfSeq
<1>2. \A i \in 1..n : h(i) \in Digit /\ l(i) \in Digit
  <2>1. \A d \in 0..15 : HexToChar(d) \in Digit
    BY DigitsAre DEF Digit
  <2>2. \A i \in 1..n : v[i] \div 16 \in 0..15 /\ v[i] % 16 \in 0..15
    BY <1>1, DigitsOf
  <2> QED BY <2>1, <2>2
<1>3. \A S : \A x, y \in S : <<x, y>> \in Seq(S) /\ Len(<<x, y>>) = 2 /\ <<x, y>>[1] = x /\ <<x, y>>[2] = y
  OBVIOUS
<1>4. t = FlattenSeq(q)
  BY DEF HexToString
<1> HIDE DEF h, l, t
<1>5. \A i \in 1..n : part(i) \in Seq(Digit) /\ Len(part(i)) = 2 /\ part(i)[1] = h(i) /\ part(i)[2] = l(i)
  BY <1>2, <1>3, Zenon
<1> HIDE DEF part
<1>6. q \in Seq(Seq(Digit)) /\ Len(q) = n /\ \A i \in 1..n : q[i] = part(i)
  <2>1. q \in [1..n -> Seq(Digit)]
    BY <1>1, <1>5
  <2>2. \A S : \A x \in [1..n -> S] : x \in Seq(S) /\ Len(x) = n
    BY <1>1
  <2>3. \A i \in 1..n : q[i] = part(i)
    BY <1>1
  <2> HIDE DEF q
  <2> QED BY <2>1, <2>2, <2>3, Zenon
<1> HIDE DEF q
<1>7. PICK begin : JoinedAs(begin, q, Digit)
  BY <1>6, JoinedIs
<1>8. Multiples(begin, q, 2)
  <2>1. AllHave(q, 2)
    BY <1>5, <1>6 DEF AllHave
  <2>2. 2 \in Nat /\ q \in Seq(Seq(Digit))
    BY <1>6
  <2> QED BY <1>7, <2>1, <2>2, EqualParts, Zenon
<1>9. \A k \in 0..n : begin[k] = 2 * k
  BY <1>6, <1>8 DEF Multiples
<1>10. t \in Seq(Digit) /\ Len(t) = 2 * n
  BY <1>1, <1>4, <1>6, <1>7, <1>9 DEF JoinedAs
<1>11. ASSUME NEW k \in 0..n-1 PROVE t[2*k+1] = h(k+1) /\ t[2*k+2] = l(k+1)
  <2>1. k+1 \in 1..n /\ k \in 0..n
    BY <1>1
  <2>2. \A i \in 1..Len(q[k+1]) : t[begin[k] + i] = q[k+1][i]
    BY <1>4, <1>6, <1>7 DEF JoinedAs
  <2>3. Len(q[k+1]) = 2 /\ q[k+1][1] = h(k+1) /\ q[k+1][2] = l(k+1)
    BY <1>5, <1>6, <2>1
  <2>4. begin[k] = 2 * k
    BY <1>9, <2>1
  <2> QED BY <2>2, <2>3, <2>4
<1> QED BY <1>10, <1>11 DEF HexTextIs, h, l, t

\* What is written for bytes reads back.
LEMMA BytesBack == \A v \in Seq(Byte) : HexToBytes(HexToString(v)) = v
<1> SUFFICES ASSUME NEW v \in Seq(Byte) PROVE HexToBytes(HexToString(v)) = v
  OBVIOUS
<1> DEFINE n == Len(v)
           t == HexToString(v)
<1>1. n \in Nat /\ v \in [1..n -> Byte] /\ \A i \in 1..n : v[i] \in Byte
  BY LenProperties, ElementOfSeq
<1>2. HexTextIs(v, t)
  BY HexTextOf
<1>3. HexToBytes(t) = [i \in 1..(Len(t) \div 2) |-> (HexToInt(t[2 * i - 1]) * 16 + HexToInt(t[2 * i])) % 256]
  BY DEF HexToBytes
<1> HIDE DEF t
<1>4. Len(t) \div 2 = n
  <2>1. Len(t) = 2 * n
    BY <1>2 DEF HexTextIs
  <2> HIDE DEF n
  <2> QED BY <1>1, <2>1
<1>5. ASSUME NEW i \in 1..n PROVE (HexToInt(t[2 * i - 1]) * 16 + HexToInt(t[2 * i])) % 256 = v[i]
  <2>1. i-1 \in 0..n-1 /\ (i-1)+1 = i /\ 2*(i-1)+1 = 2*i-1 /\ 2*(i-1)+2 = 2*i
    BY <1>1
  <2>2. t[2*i-1] = HexToChar(v[i] \div 16) /\ t[2*i] = HexToChar(v[i] % 16)
    BY <1>2, <2>1 DEF HexTextIs
  <2> DEFINE x == v[i]
             hi == x \div 16
             lo == x % 16
  <2>3. x \in Byte /\ hi \in 0..15 /\ lo \in 0..15 /\ x = 16 * hi + lo
    BY <1>1, DigitsOf
  <2>4. HexToInt(t[2*i-1]) = hi /\ HexToInt(t[2*i]) = lo
    BY <1>1, <2>2, DigitsOf
  <2> HIDE DEF x, hi, lo
  <2>5. (hi * 16 + lo) % 256 = x
    BY <2>3 DEF Byte
  <2> QED BY <2>4, <2>5, Zenon DEF x
<1>6. HexToBytes(t) = [i \in 1..n |-> v[i]]
  BY <1>3, <1>4, <1>5
<1>7. v = [i \in 1..n |-> v[i]]
  BY <1>1
<1> QED BY <1>6, <1>7 DEF t

LEMMA NumbersExist == \A v \in Seq(Byte) : \E f : NumbersOf(f, Len(v), v)
<1> SUFFICES ASSUME NEW v \in Seq(Byte) PROVE \E f : NumbersOf(f, Len(v), v)
  OBVIOUS
<1> DEFINE N == Len(v)
           g == [i \in 1..N |-> [s \in Nat |-> 256 * s + v[i]]]
<1>1. N \in Nat /\ \A i \in 1..N : v[i] \in Nat
  <2>1. Byte \subseteq Nat
    BY DEF Byte
  <2> QED BY <2>1, LenProperties, ElementOfSeq
<1> HIDE DEF N
<1>2. g \in [1..N -> [Nat -> Nat]] /\ 0 \in Nat
  BY <1>1
<1>3. \A i \in 1..N : \A s \in Nat : g[i][s] = 256 * s + v[i]
  OBVIOUS
<1> HIDE DEF g
<1>4. PICK f \in [0..N -> Nat] : Turns(f, N, 0, g)
  BY <1>1, <1>2, TurnsExist
<1>5. \A i \in 0..N : f[i] = IF i = 0 THEN 0 ELSE 256 * f[i-1] + v[i]
  <2>1. \A i \in 0..N : i = 0 \/ (i \in 1..N /\ i-1 \in 0..N)
    BY <1>1
  <2>2. \A i \in 0..N : f[i] = IF i = 0 THEN 0 ELSE g[i][f[i-1]]
    BY <1>4 DEF Turns
  <2> QED BY <1>3, <2>1, <2>2
<1>6. f = [i \in 0..N |-> f[i]]
  OBVIOUS
<1>7. f = [i \in 0..N |-> IF i = 0 THEN 0 ELSE 256 * f[i-1] + v[i]]
  BY <1>5, <1>6
<1> QED BY <1>7, Zenon DEF NumbersOf, N

NumberedAs(f, N, v) == f \in [0..N -> Nat] /\ f[0] = 0 /\ \A i \in 1..N : f[i] = 256 * f[i-1] + v[i]

LEMMA NumbersAre == \A v \in Seq(Byte) : \A f : NumbersOf(f, Len(v), v) => NumberedAs(f, Len(v), v)
<1> SUFFICES ASSUME NEW v \in Seq(Byte), NEW f, NumbersOf(f, Len(v), v) PROVE NumberedAs(f, Len(v), v)
  OBVIOUS
<1> DEFINE N == Len(v)
<1>1. N \in Nat /\ \A i \in 1..N : v[i] \in Nat
  <2>1. Byte \subseteq Nat
    BY DEF Byte
  <2> QED BY <2>1, LenProperties, ElementOfSeq
<1>2. f = [i \in 0..N |-> IF i = 0 THEN 0 ELSE 256 * f[i-1] + v[i]]
  BY DEF NumbersOf
<1> HIDE DEF N
<1>3. f[0] = 0 /\ \A i \in 1..N : f[i] = 256 * f[i-1] + v[i]
  <2>1. \A i \in 0..N : f[i] = IF i = 0 THEN 0 ELSE 256 * f[i-1] + v[i]
    BY <1>2
  <2> QED BY <1>1, <2>1
<1> DEFINE Good == {i \in 0..N : f[i] \in Nat}
<1>4. 0 \in Good
  BY <1>1, <1>3
<1>5. ASSUME NEW i \in 0..N-1, i \in Good PROVE i+1 \in Good
  <2>1. i+1 \in 1..N /\ i+1 \in 0..N /\ (i+1)-1 = i /\ f[i] \in Nat
    BY <1>1, <1>5
  <2>2. f[i+1] = 256 * f[i] + v[i+1] /\ v[i+1] \in Nat
    BY <1>1, <1>3, <2>1
  <2> QED BY <2>1, <2>2
<1> HIDE DEF Good
<1>6. \A i \in 0..N : i \in Good
  BY <1>1, <1>4, <1>5, Upwards
<1>7. \A i \in 0..N : f[i] \in Nat
  BY <1>6 DEF Good
<1>8. f = [i \in 0..N |-> f[i]]
  BY <1>2
<1> QED BY <1>3, <1>7, <1>8 DEF NumberedAs, N

\* The digits of bytes are those of the number that the bytes are.
LEMMA NumberOf ==
  \A v \in Seq(Byte) : \A number : NumberedAs(number, Len(v), v) =>
    HexFromBytesToInt(HexToString(v), 0, Len(HexToString(v)), 16) = number[Len(v)]
<1> SUFFICES ASSUME NEW v \in Seq(Byte), NEW number, NumberedAs(number, Len(v), v)
             PROVE  HexFromBytesToInt(HexToString(v), 0, Len(HexToString(v)), 16) = number[Len(v)]
  OBVIOUS
<1> DEFINE n == Len(v)
           t == HexToString(v)
           N == Len(t)
<1>1. n \in Nat /\ \A i \in 1..n : v[i] \in Byte
  BY LenProperties, ElementOfSeq
<1>2. HexTextIs(v, t) /\ N = 2 * n
  <2>1. HexTextIs(v, t)
    BY HexTextOf
  <2> QED BY <2>1 DEF HexTextIs
<1> HIDE DEF t, N
<1>3. PICK p, f : /\ PoweredAs(p, N, 16) /\ SummedAs(f, N, t, 0, p)
                  /\ HexFromBytesToInt(t, 0, N, 16) = f[N]
  <2>1. 0 \in Nat /\ N \in Nat /\ 16 \in Nat
    BY <1>1, <1>2
  <2> QED BY <2>1, IntIs, Zenon
<1>4. number \in [0..n -> Nat] /\ number[0] = 0 /\ \A i \in 1..n : number[i] = 256 * number[i-1] + v[i]
  BY DEF NumberedAs
<1>5. /\ p \in [0..N -> Nat] /\ p[0] = 1 /\ (\A i \in 1..N : p[i] = 16 * p[i-1])
      /\ f \in [0..N -> Nat] /\ f[0] = 0
      /\ (\A i \in 1..N : f[i] = f[i-1] + p[N-i] * HexToInt(t[0+i]))
  BY <1>3 DEF PoweredAs, SummedAs
<1> HIDE DEF n
<1> DEFINE Good == {k \in 0..n : f[2*k] = p[N - 2*k] * number[k]}
<1>6. 0 \in Good
  <2>1. N - 2*0 = N /\ 2*0 = 0 /\ N \in 0..N /\ 0 \in 0..n
    BY <1>1, <1>2
  <2>2. p[N] \in Nat /\ f[0] = p[N] * number[0]
    BY <1>4, <1>5, <2>1
  <2> QED BY <2>1, <2>2
<1>7. ASSUME NEW k \in 0..n-1, k \in Good PROVE k+1 \in Good
  <2> DEFINE x == v[k+1]
             hi == x \div 16
             lo == x % 16
             m == N - 2*(k+1)
             P == p[m]
             w == number[k]
  <2>1. /\ k+1 \in 1..n /\ k+1 \in 0..n /\ (k+1)-1 = k /\ m \in 0..N /\ m+1 \in 1..N /\ m+2 \in 1..N
        /\ N - 2*k = m+2 /\ (m+2)-1 = m+1 /\ (m+1)-1 = m
        /\ 2*k+1 \in 1..N /\ (2*k+1)-1 = 2*k /\ N - (2*k+1) = m+1 /\ 0+(2*k+1) = 2*k+1
        /\ 2*k+2 \in 1..N /\ (2*k+2)-1 = 2*k+1 /\ N - (2*k+2) = m /\ 0+(2*k+2) = 2*k+2
        /\ 2*(k+1) = 2*k+2 /\ k \in 0..n
    BY <1>1, <1>2
  <2>2. t[2*k+1] = HexToChar(hi) /\ t[2*k+2] = HexToChar(lo)
    BY <1>2 DEF HexTextIs, n
  <2>3. x \in Byte /\ hi \in 0..15 /\ lo \in 0..15 /\ x = 16 * hi + lo
    BY <1>1, <2>1, DigitsOf
  <2>4. HexToInt(t[2*k+1]) = hi /\ HexToInt(t[2*k+2]) = lo
    BY <1>1, <2>1, <2>2, DigitsOf
  <2>5. P \in Nat /\ w \in Nat /\ number[k+1] = 256 * w + x
    BY <1>4, <1>5, <2>1
  <2>6. p[m+1] = 16 * P /\ p[m+2] = 16 * p[m+1]
    BY <1>5, <2>1
  <2>7. f[2*k] = p[m+2] * w
    BY <1>7, <2>1
  <2>8. f[2*k+1] = f[2*k] + p[m+1] * hi
    BY <1>5, <2>1, <2>4
  <2>9. f[2*k+2] = f[2*k+1] + P * lo
    BY <1>5, <2>1, <2>4
  <2> HIDE DEF x, hi, lo, m, P, w
  <2>10. f[2*k+2] = ((16 * (16 * P)) * w + (16 * P) * hi) + P * lo
    BY <2>6, <2>7, <2>8, <2>9
  <2>11. ((16 * (16 * P)) * w + (16 * P) * hi) + P * lo = P * (256 * w + (16 * hi + lo))
    <3>1. hi \in Nat /\ lo \in Nat
      BY <2>3
    <3> QED BY <2>5, <3>1
  <2>12. f[2*k+2] = P * number[k+1]
    BY <2>3, <2>5, <2>10, <2>11
  <2> QED BY <2>1, <2>12 DEF P, m
<1> HIDE DEF Good
<1>8. n \in Good
  <2>1. \A k \in 0..n : k \in Good
    BY <1>1, <1>6, <1>7, Upwards
  <2> QED BY <1>1, <2>1
<1>9. f[N] = p[0] * number[n]
  <2>1. N - 2*n = 0 /\ 2*n = N
    BY <1>1, <1>2
  <2> QED BY <1>8, <2>1 DEF Good
<1>10. number[n] \in Nat
  BY <1>1, <1>4
<1> QED BY <1>3, <1>5, <1>9, <1>10 DEF t, N, n

\* The number of two digits, and of the four bits of a digit.
LEMMA TwoDigits ==
  \A t : HexFromBytesToInt(t, 0, 2, 16) = 16 * HexToInt(t[1]) + HexToInt(t[2])
<1> TAKE t
<1>1. PICK p, f : /\ PoweredAs(p, 2, 16) /\ SummedAs(f, 2, t, 0, p)
                  /\ HexFromBytesToInt(t, 0, 2, 16) = f[2]
  <2>1. 0 \in Nat /\ 2 \in Nat /\ 16 \in Nat
    OBVIOUS
  <2>2. \A start, N, radix \in Nat : \E p, f :
          /\ PoweredAs(p, N, radix) /\ SummedAs(f, N, t, start, p)
          /\ HexFromBytesToInt(t, start, N, radix) = f[N]
    BY IntIs, Zenon
  <2> QED BY <2>1, <2>2
<1>2. /\ p[0] = 1 /\ (\A i \in 1..2 : p[i] = 16 * p[i-1])
      /\ f[0] = 0 /\ (\A i \in 1..2 : f[i] = f[i-1] + p[2-i] * HexToInt(t[0+i]))
  BY <1>1 DEF PoweredAs, SummedAs
<1>3. p[0] = 1 /\ p[1] = 16
  BY <1>2
<1>4. f[0] = 0 /\ f[1] = f[0] + p[1] * HexToInt(t[1]) /\ f[2] = f[1] + p[0] * HexToInt(t[2])
  BY <1>2
<1>5. HexToInt(t[1]) \in Nat /\ HexToInt(t[2]) \in Nat
  BY HexToIntIs, Zenon
<1> QED BY <1>1, <1>3, <1>4, <1>5

LEMMA FourBits ==
  \A t : HexFromBytesToInt(t, 0, 4, 2)
           = 8 * HexToInt(t[1]) + 4 * HexToInt(t[2]) + 2 * HexToInt(t[3]) + HexToInt(t[4])
<1> TAKE t
<1>1. PICK p, f : /\ PoweredAs(p, 4, 2) /\ SummedAs(f, 4, t, 0, p)
                  /\ HexFromBytesToInt(t, 0, 4, 2) = f[4]
  <2>1. 0 \in Nat /\ 4 \in Nat /\ 2 \in Nat
    OBVIOUS
  <2>2. \A start, N, radix \in Nat : \E p, f :
          /\ PoweredAs(p, N, radix) /\ SummedAs(f, N, t, start, p)
          /\ HexFromBytesToInt(t, start, N, radix) = f[N]
    BY IntIs, Zenon
  <2> QED BY <2>1, <2>2
<1>2. /\ p[0] = 1 /\ (\A i \in 1..4 : p[i] = 2 * p[i-1])
      /\ f[0] = 0 /\ (\A i \in 1..4 : f[i] = f[i-1] + p[4-i] * HexToInt(t[0+i]))
  BY <1>1 DEF PoweredAs, SummedAs
<1>3. p[0] = 1 /\ p[1] = 2 * p[0] /\ p[2] = 2 * p[1] /\ p[3] = 2 * p[2]
  BY <1>2
<1>4. p[0] = 1 /\ p[1] = 2 /\ p[2] = 4 /\ p[3] = 8
  BY <1>3
<1>5. /\ f[0] = 0 /\ f[1] = f[0] + p[3] * HexToInt(t[1]) /\ f[2] = f[1] + p[2] * HexToInt(t[2])
      /\ f[3] = f[2] + p[1] * HexToInt(t[3]) /\ f[4] = f[3] + p[0] * HexToInt(t[4])
  BY <1>2
<1>6. HexToInt(t[1]) \in Nat /\ HexToInt(t[2]) \in Nat /\ HexToInt(t[3]) \in Nat /\ HexToInt(t[4]) \in Nat
  BY HexToIntIs, Zenon
<1> QED BY <1>1, <1>4, <1>5, <1>6

LEMMA LastByte ==
  \A v \in Seq(Byte) : v # <<>> =>
    LET t == HexToString(v)
    IN  HexFromBytesToInt(HexSubstring(t, Len(t) - 2, 2), 0, 2, 16) = Last(v)
<1> SUFFICES ASSUME NEW v \in Seq(Byte), v # <<>>
             PROVE  LET t == HexToString(v)
                    IN  HexFromBytesToInt(HexSubstring(t, Len(t) - 2, 2), 0, 2, 16) = Last(v)
  OBVIOUS
<1> DEFINE n == Len(v)
           t == HexToString(v)
           x == v[n]
           sub == HexSubstring(t, Len(t) - 2, 2)
<1>1. n \in Nat \ {0} /\ x \in Byte
  <2>1. n \in Nat \ {0}
    BY EmptySeq
  <2>2. n \in 1..n
    BY <2>1
  <2> QED BY <2>1, <2>2, ElementOfSeq
<1>2. HexTextIs(v, t)
  BY HexTextOf
<1>3. sub = SubSeq(t, (Len(t) - 2) + 1, (Len(t) - 2) + 2)
  BY DEF HexSubstring
<1> HIDE DEF t, sub, n
<1>4. Len(t) = 2 * n /\ t \in Seq(Digit) /\ t[2*n-1] = HexToChar(x \div 16) /\ t[2*n] = HexToChar(x % 16)
  <2>1. n-1 \in 0..n-1 /\ (n-1)+1 = n /\ 2*(n-1)+1 = 2*n-1 /\ 2*(n-1)+2 = 2*n
    BY <1>1
  <2>2. /\ Len(t) = 2 * n /\ t \in Seq(Digit)
        /\ \A k \in 0..n-1 : t[2*k+1] = HexToChar(v[k+1] \div 16) /\ t[2*k+2] = HexToChar(v[k+1] % 16)
    BY <1>2 DEF HexTextIs, n
  <2>3. t[2*(n-1)+1] = HexToChar(v[(n-1)+1] \div 16) /\ t[2*(n-1)+2] = HexToChar(v[(n-1)+1] % 16)
    BY <2>1, <2>2
  <2> QED BY <2>1, <2>2, <2>3
<1>5. sub[1] = t[2*n-1] /\ sub[2] = t[2*n]
  <2> DEFINE a == 2*n-1
             b == 2*n
  <2>1. sub = SubSeq(t, a, b)
    <3>1. (Len(t) - 2) + 1 = a /\ (Len(t) - 2) + 2 = b
      BY <1>1, <1>4
    <3> HIDE DEF a, b
    <3> QED BY <1>3, <3>1
  <2>2. a \in Int /\ b \in Int /\ a = b - 1 /\ \A i \in a..b : t[i] \in Digit
    <3>1. \A i \in a..b : i \in 1..Len(t)
      BY <1>1, <1>4
    <3> QED BY <1>1, <1>4, <3>1, ElementOfSeq
  <2> HIDE DEF a, b
  <2>3. \A i \in 1 .. b-a+1 : SubSeq(t, a, b)[i] = t[a+i-1]
    BY <2>2, SubSeqProperties
  <2>4. 1 \in 1 .. b-a+1 /\ 2 \in 1 .. b-a+1 /\ a+1-1 = a /\ a+2-1 = b
    BY <2>2
  <2>5. SubSeq(t, a, b)[1] = t[a] /\ SubSeq(t, a, b)[2] = t[b]
    BY <2>3, <2>4
  <2> QED BY <2>1, <2>5 DEF a, b
<1>6. HexToInt(sub[1]) = x \div 16 /\ HexToInt(sub[2]) = x % 16
  BY <1>1, <1>4, <1>5, DigitsOf
<1>7. x = 16 * (x \div 16) + (x % 16)
  BY <1>1, DigitsOf
<1>8. HexFromBytesToInt(sub, 0, 2, 16) = 16 * (x \div 16) + (x % 16)
  BY <1>6, TwoDigits
<1>9. Last(v) = x
  BY DEF Last, n
<1> QED BY <1>7, <1>8, <1>9 DEF sub, t

LEMMA DigitBack ==
  \A d \in 0..15 :
    LET ch == HexDigits[d + 1]
    IN  HexFromBytesToInt([i \in 1..4 |-> HexDigits[HexToBits(ch)[i] + 1]], 0, 4, 2) = HexToInt(ch)
<1> SUFFICES ASSUME NEW d \in 0..15
             PROVE  LET ch == HexDigits[d + 1]
                    IN  HexFromBytesToInt([i \in 1..4 |-> HexDigits[HexToBits(ch)[i] + 1]], 0, 4, 2)
                          = HexToInt(ch)
  OBVIOUS
<1> DEFINE bits == HexToBits(HexDigits[d + 1])
           t == [i \in 1..4 |-> HexDigits[bits[i] + 1]]
<1>1. /\ bits[1] \in 0..1 /\ bits[2] \in 0..1 /\ bits[3] \in 0..1 /\ bits[4] \in 0..1
      /\ d = 8 * bits[1] + 4 * bits[2] + 2 * bits[3] + bits[4]
  BY BitsAre
<1> HIDE DEF bits
<1>2. /\ t[1] = HexDigits[bits[1] + 1] /\ t[2] = HexDigits[bits[2] + 1]
      /\ t[3] = HexDigits[bits[3] + 1] /\ t[4] = HexDigits[bits[4] + 1]
  OBVIOUS
<1> HIDE DEF t
<1>3. \A b \in 0..1 : HexToInt(HexDigits[b + 1]) = b
  <2>1. \A b \in 0..1 : b \in 0..15
    OBVIOUS
  <2> QED BY <2>1, DigitsAre
<1>4. /\ HexToInt(t[1]) = bits[1] /\ HexToInt(t[2]) = bits[2]
      /\ HexToInt(t[3]) = bits[3] /\ HexToInt(t[4]) = bits[4]
  BY <1>1, <1>2, <1>3
<1>5. HexFromBytesToInt(t, 0, 4, 2) = d
  <2>1. HexFromBytesToInt(t, 0, 4, 2)
          = 8 * HexToInt(t[1]) + 4 * HexToInt(t[2]) + 2 * HexToInt(t[3]) + HexToInt(t[4])
    BY FourBits
  <2> QED BY <1>1, <1>4, <2>1
<1>6. HexToInt(HexDigits[d + 1]) = d
  BY DigitsAre
<1> QED BY <1>5, <1>6 DEF t, bits

(***************************************************************************)
(* The digits that gfc_hex.c writes for bytes, as many as there are, read  *)
(* back as the bytes and as the number that they are, which                *)
(* gfc_hex_from_bytes_to_int returns as long as an int holds it; a digit   *)
(* and its number and bits are one another's; and packed decimals and the  *)
(* correction of a parity are as specified.                                *)
(***************************************************************************)
THEOREM HexCorrect == \A v \in Seq(Byte) : v # <<>> => HexExact(v)
<1> SUFFICES ASSUME NEW v \in Seq(Byte), v # <<>> PROVE HexExact(v)
  OBVIOUS
<1> DEFINE t == HexToString(v)
           num[i \in 0..Len(v)] == IF i = 0 THEN 0 ELSE 256 * num[i-1] + v[i]
           A == HexToBytes(t) = v
           B == num[Len(v)] <= INT_MAX => HexFromBytesToInt(t, 0, Len(t), 16) = num[Len(v)]
           C == HexFromBytesToInt(HexSubstring(t, Len(t) - 2, 2), 0, 2, 16) = Last(v)
           D(ch) == /\ HexToChar(HexToInt(ch)) = ch /\ BitsToChar(HexToBits(ch)) = ch
                    /\ HexFromBytesToInt([i \in 1..4 |-> HexDigits[HexToBits(ch)[i] + 1]], 0, 4, 2)
                         = HexToInt(ch)
           E(i) == /\ v[i] < 100 =>
                        AscToBcd(<<HexDigits[(v[i] \div 10) + 1], HexDigits[(v[i] % 10) + 1]>>)
                          = <<DecToBcd(v[i])>>
                   /\ v[i] % 2 = 0 \/ v[i] % 16 = 15 => Ones(HexParity(v)[i]) % 2 = 1
<1>1. A
  BY BytesBack
<1>2. B
  <2> DEFINE c == CHOOSE f : NumbersOf(f, Len(v), v)
  <2>1. NumbersOf(c, Len(v), v)
    BY NumbersExist, Zenon
  <2>2. num = c
    BY Zenon DEF NumbersOf
  <2> HIDE DEF c, num
  <2>3. NumberedAs(num, Len(v), v)
    BY <2>1, <2>2, NumbersAre, Zenon
  <2> QED BY <2>3, NumberOf, Zenon
<1>3. C
  BY LastByte
<1>4. \A ch \in Range(HexDigits) : D(ch)
  <2>1. \A d \in 0..15 : HexToChar(HexToInt(HexDigits[d + 1])) = HexDigits[d + 1]
    BY DigitsAre
  <2>2. \A ch \in Digit : BitsToChar(HexToBits(ch)) = ch
    BY BitsBack
  <2>3. \A d \in 0..15 : D(HexDigits[d + 1])
    BY <2>1, <2>2, DigitBack, Zenon DEF Digit
  <2> HIDE DEF D
  <2> QED BY <2>3, DigitsAre DEF Digit
<1>5. \A i \in DOMAIN v : E(i)
  <2> SUFFICES ASSUME NEW i \in DOMAIN v PROVE E(i)
    OBVIOUS
  <2>1. v[i] \in Byte
    BY LenProperties, ElementOfSeq
  <2>2. ASSUME v[i] < 100
        PROVE  AscToBcd(<<HexDigits[(v[i] \div 10) + 1], HexDigits[(v[i] % 10) + 1]>>) = <<DecToBcd(v[i])>>
    <3>1. \A x \in Byte : x < 100 => x \in 0..99
      BY DEF Byte
    <3> QED BY <2>1, <2>2, <3>1, BcdIs, Zenon
  <2>3. v[i] % 2 = 0 \/ v[i] % 16 = 15 => Ones(HexParity(v)[i]) % 2 = 1
    BY ParityIs, Zenon
  <2> QED BY <2>2, <2>3
<1> QED BY <1>1, <1>2, <1>3, <1>4, <1>5, Zenon DEF HexExact

\* The samples are texts of bytes and of characters.
SampleInv ==
  /\ sample.kind = "hex" => sample.value \in Seq(Byte) /\ sample.value # <<>>
  /\ sample.kind = "base64" => sample.value \in Seq(Byte) /\ sample.value # <<>>
  /\ sample.kind = "utf8" => sample.value \in Seq(CodePoint)

LEMMA SamplesAre ==
  /\ \A v \in HexSamples \cup Base64Samples : v \in Seq(Byte) /\ v # <<>>
  /\ \A v \in Utf8Samples : v \in Seq(CodePoint)
<1>1. FewBytes \subseteq Byte /\ CodePoints \subseteq CodePoint /\ LongText \in Nat /\ MaxChars \in Nat
  BY TextAssumption
<1>2. \A v \in HexSamples : v \in Seq(Byte) /\ v # <<>>
  <2> SUFFICES ASSUME NEW v \in HexSamples PROVE v \in Seq(Byte) /\ v # <<>>
    OBVIOUS
  <2>1. CASE \E b \in Byte : v = <<b>>
    BY <2>1
  <2>2. CASE v \in FewBytes \X FewBytes
    <3>1. PICK a \in FewBytes, b \in FewBytes : v = <<a, b>>
      BY <2>2
    <3>2. a \in Byte /\ b \in Byte
      BY <1>1
    <3>3. <<a, b>> \in Seq(Byte) /\ <<a, b>> # <<>>
      BY <3>2
    <3> QED BY <3>1, <3>3
  <2> QED BY <2>1, <2>2 DEF HexSamples
<1>3. \A n \in Nat : \A S : \A v \in [1..n -> S] : v \in Seq(S) /\ Len(v) = n
  OBVIOUS
<1>4. \A v \in Base64Samples : v \in Seq(Byte) /\ v # <<>>
  <2> SUFFICES ASSUME NEW v \in Base64Samples PROVE v \in Seq(Byte) /\ v # <<>>
    OBVIOUS
  <2>1. \E n \in Nat \ {0} : v \in [1..n -> Byte]
    <3>1. CASE \E n \in 1..4 : v \in [1..n -> FewBytes]
      <4>1. PICK n \in 1..4 : v \in [1..n -> FewBytes]
        BY <3>1
      <4>2. v \in [1..n -> Byte] /\ n \in Nat \ {0}
        BY <1>1, <4>1
      <4> QED BY <4>2
    <3>2. CASE \E n \in 5..LongText : v = [i \in 1..n |-> 200]
      <4>1. PICK n \in 5..LongText : v = [i \in 1..n |-> 200]
        BY <3>2
      <4>2. 200 \in Byte
        BY DEF Byte
      <4>3. v \in [1..n -> Byte] /\ n \in Nat \ {0}
        BY <1>1, <4>1, <4>2
      <4> QED BY <4>3
    <3>3. CASE v \in FewTexts
      BY <3>1, <3>3 DEF FewTexts
    <3>4. CASE v \in LongTexts
      BY <3>2, <3>4 DEF LongTexts
    <3> QED BY <3>3, <3>4 DEF Base64Samples
  <2>2. PICK n \in Nat \ {0} : v \in [1..n -> Byte]
    BY <2>1
  <2>3. v \in Seq(Byte) /\ Len(v) = n
    BY <1>3, <2>2
  <2> QED BY <2>3, EmptySeq
<1>5. \A v \in Utf8Samples : v \in Seq(CodePoint)
  <2> SUFFICES ASSUME NEW v \in Utf8Samples PROVE v \in Seq(CodePoint)
    OBVIOUS
  <2>1. PICK n \in 0..MaxChars : v \in [1..n -> CodePoints]
    BY DEF Utf8Samples
  <2>2. v \in [1..n -> CodePoint] /\ n \in Nat
    BY <1>1, <2>1
  <2> QED BY <1>3, <2>2
<1> QED BY <1>2, <1>4, <1>5

LEMMA SampleInvariant == TextSpec => []SampleInv
<1>1. TextInit => SampleInv
  BY DEF TextInit, SampleInv
<1>2. SampleInv /\ [TextNext]_sample => SampleInv'
  <2> SUFFICES ASSUME SampleInv, [TextNext]_sample PROVE SampleInv'
    OBVIOUS
  <2>1. CASE TextNext
    <3>1. CASE \E v \in HexSamples : sample' = [kind |-> "hex", value |-> v]
      BY <3>1, SamplesAre DEF SampleInv
    <3>2. CASE \E v \in Base64Samples : sample' = [kind |-> "base64", value |-> v]
      BY <3>2, SamplesAre DEF SampleInv
    <3>3. CASE \E v \in Utf8Samples : sample' = [kind |-> "utf8", value |-> v]
      BY <3>3, SamplesAre DEF SampleInv
    <3> QED BY <2>1, <3>1, <3>2, <3>3 DEF TextNext
  <2>2. CASE UNCHANGED sample
    BY <2>2 DEF SampleInv
  <2> QED BY <2>1, <2>2
<1> QED BY <1>1, <1>2, PTL DEF TextSpec

(***************************************************************************)
(* Every sample is converted as the encodings define, since a text of any  *)
(* length is.                                                              *)
(***************************************************************************)
THEOREM EncodingsExactCorrect == TextSpec => []EncodingsExact
<1>1. SampleInv => EncodingsExact
  BY HexCorrect, Base64Correct, Utf8Correct DEF SampleInv, EncodingsExact
<1> QED BY <1>1, SampleInvariant, PTL
===============================================================================
