------------------------------- MODULE Loops --------------------------------
(***************************************************************************)
(* Induction over the turns of a loop.  The induction theorems of the      *)
(* library take an operator, which the provers cannot instantiate; here a  *)
(* set of numbers stands for what is to be shown of each of them.  Also    *)
(* what loops build: a sequence of parts, and where each of them begins.   *)
(***************************************************************************)
EXTENDS Integers, SequencesExt, SequenceTheorems, WellFoundedInduction, TLAPS

\* A set of natural numbers has a least one.
LEMMA LeastExists ==
  ASSUME NEW S, S \subseteq Nat, S # {}
  PROVE  \E m \in S : \A k \in S : m <= k
<1> DEFINE R == {ss \in Nat \X Nat : ss[1] < ss[2]}
<1>1. IsWellFoundedOn(R, Nat)
  BY NatLessThanWellFounded DEF OpToRel
<1>2. \A k, m \in Nat : <<k, m>> \in R <=> k < m
  OBVIOUS
<1> HIDE DEF R
<1>3. PICK m \in S : \A k \in S : ~(<<k, m>> \in R)
  BY <1>1, WFMin, Zenon
<1>4. \A k \in S : ~(k < m)
  BY <1>2, <1>3, Zenon
<1> QED BY <1>4

\* Induction over places, about a set of them.
LEMMA Upwards ==
  ASSUME NEW N \in Nat, NEW S, 0 \in S, \A n \in 0..N-1 : n \in S => n+1 \in S
  PROVE  \A n \in 0..N : n \in S
<1> DEFINE Bad == {n \in 0..N : n \notin S}
<1> SUFFICES ASSUME Bad # {} PROVE FALSE
  OBVIOUS
<1>1. PICK m \in Bad : \A k \in Bad : m <= k
  <2>1. Bad \subseteq Nat
    OBVIOUS
  <2> HIDE DEF Bad
  <2> QED BY <2>1, LeastExists
<1>2. m # 0 /\ m \in 0..N
  BY <1>1
<1>3. m-1 \in 0..N-1 /\ m-1 \in 0..N
  BY <1>2
<1>4. m-1 \in S
  BY <1>1, <1>3
<1>5. (m-1)+1 \in S
  BY <1>3, <1>4
<1> QED BY <1>1, <1>2, <1>5

\* A loop of N turns that begins with a and whose turn i makes g[i][s] of s.
Loop(f, N, a, g) == f[0] = a /\ \A i \in 1..N : f[i] = g[i][f[i-1]]

LEMMA LoopExists ==
  ASSUME NEW N \in Nat, NEW S, NEW a \in S, NEW g \in [1..N -> [S -> S]]
  PROVE  \E f \in [0..N -> S] : Loop(f, N, a, g)
<1> DEFINE Done == {n \in 0..N : \E f \in [0..n -> S] : Loop(f, n, a, g)}
<1>1. 0 \in Done
  <2>1. Loop([i \in 0..0 |-> a], 0, a, g)
    BY DEF Loop
  <2>2. [i \in 0..0 |-> a] \in [0..0 -> S]
    OBVIOUS
  <2> QED BY <2>1, <2>2
<1>2. ASSUME NEW n \in 0..N-1, n \in Done PROVE n+1 \in Done
  <2>1. PICK f \in [0..n -> S] : Loop(f, n, a, g)
    BY <1>2
  <2> DEFINE h == [i \in 0..n+1 |-> IF i = n+1 THEN g[i][f[n]] ELSE f[i]]
  <2>2. n \in 0..n /\ n+1 \in 1..N /\ f[n] \in S /\ n \in Nat
    OBVIOUS
  <2>3. g[n+1] \in [S -> S]
    BY <2>2
  <2>4. g[n+1][f[n]] \in S
    BY <2>2, <2>3
  <2>5. h \in [0..n+1 -> S]
    BY <2>2, <2>4
  <2>6. \A i \in 0..n : h[i] = f[i]
    BY <2>2
  <2>7. h[n+1] = g[n+1][f[n]]
    BY <2>2
  <2> HIDE DEF h
  <2>8. h[0] = a
    BY <2>1, <2>2, <2>6 DEF Loop
  <2>9. ASSUME NEW i \in 1..n+1 PROVE h[i] = g[i][h[i-1]]
    <3>1. CASE i = n+1
      <4>1. i-1 = n /\ h[n] = f[n]
        BY <2>2, <2>6, <3>1
      <4> QED BY <2>7, <3>1, <4>1
    <3>2. CASE i # n+1
      <4>1. i \in 1..n /\ i \in 0..n /\ i-1 \in 0..n
        BY <2>2, <3>2
      <4>2. f[i] = g[i][f[i-1]]
        BY <2>1, <4>1 DEF Loop
      <4> QED BY <2>6, <4>1, <4>2
    <3> QED BY <3>1, <3>2
  <2>10. Loop(h, n+1, a, g)
    BY <2>8, <2>9 DEF Loop
  <2> QED BY <2>2, <2>5, <2>10
<1> HIDE DEF Done
<1>3. N \in Done
  <2>1. \A n \in 0..N-1 : n \in Done => n+1 \in Done
    BY <1>2
  <2>2. \A n \in 0..N : n \in Done
    BY <1>1, <2>1, Upwards
  <2> QED BY <2>2
<1> QED BY <1>3 DEF Done

LEMMA MinIs ==
  ASSUME NEW S, S \subseteq Nat, S # {}
  PROVE  Min(S) \in S /\ \A k \in S : Min(S) <= k
<1>1. \E m \in S : \A k \in S : m <= k
  BY LeastExists
<1> QED BY <1>1 DEF Min

\* A sequence of sequences as the loop of FlattenSeq joins it.
LEMMA FlattenIs ==
  ASSUME NEW S, NEW q \in Seq(Seq(S))
  PROVE  \E f \in [0..Len(q) -> Seq(S)] :
           /\ f[0] = <<>>
           /\ \A k \in 0..Len(q)-1 : f[k+1] = f[k] \o q[k+1]
           /\ FlattenSeq(q) = f[Len(q)]
<1> DEFINE N == Len(q)
           g == [k \in 1..N |-> [t \in Seq(S) |-> t \o q[k]]]
           Eq(u) == u = [k \in 1..N |-> IF k = 1 THEN q[k] ELSE u[k-1] \o q[k]]
           flat == CHOOSE u : Eq(u)
<1>1. N \in Nat /\ \A k \in 1..N : q[k] \in Seq(S)
  BY ElementOfSeq, LenProperties
<1>2. <<>> \in Seq(S)
  BY EmptySeq
<1>3. g \in [1..N -> [Seq(S) -> Seq(S)]]
  <2>1. \A k \in 1..N : \A t \in Seq(S) : t \o q[k] \in Seq(S)
    BY <1>1, ConcatProperties
  <2> QED BY <2>1
<1>4. PICK f \in [0..N -> Seq(S)] : Loop(f, N, <<>>, g)
  <2> HIDE DEF N, g
  <2> QED BY <1>1, <1>2, <1>3, LoopExists
<1>5. \A k \in 0..N-1 : f[k+1] = f[k] \o q[k+1]
  <2> TAKE k \in 0..N-1
  <2>1. k+1 \in 1..N /\ k \in 0..N /\ (k+1)-1 = k
    BY <1>1
  <2>2. f[k+1] = g[k+1][f[k]]
    <3> HIDE DEF N, g
    <3> QED BY <1>4, <2>1 DEF Loop
  <2>3. f[k] \in Seq(S)
    BY <2>1
  <2> QED BY <2>1, <2>2, <2>3
<1>6. f[0] = <<>>
  BY <1>4 DEF Loop
<1>7. CASE N = 0
  <2>1. FlattenSeq(q) = q
    BY <1>7 DEF FlattenSeq
  <2>2. q = <<>>
    BY <1>7, EmptySeq
  <2> QED BY <1>5, <1>6, <1>7, <2>1, <2>2
<1>8. CASE N # 0
  <2>1. FlattenSeq(q) = flat[N]
    BY <1>8, Zenon DEF FlattenSeq
  <2>2. Eq([k \in 1..N |-> f[k]])
    <3> DEFINE h == [k \in 1..N |-> f[k]]
    <3>1. ASSUME NEW k \in 1..N PROVE h[k] = IF k = 1 THEN q[k] ELSE h[k-1] \o q[k]
      <4>1. k-1 \in 0..N-1 /\ (k-1)+1 = k
        BY <1>1
      <4>2. f[k] = f[k-1] \o q[k]
        BY <1>5, <4>1
      <4>3. CASE k = 1
        <5>1. <<>> \o q[k] = q[k]
          BY <1>1, ConcatEmptySeq
        <5>2. f[k-1] = <<>>
          BY <1>6, <4>3
        <5>3. f[k] = q[k]
          BY <4>2, <5>1, <5>2, Zenon
        <5> QED BY <4>3, <5>3
      <4>4. CASE k # 1
        <5>1. k-1 \in 1..N
          BY <4>1, <4>4
        <5> QED BY <4>2, <4>4, <5>1
      <4> QED BY <4>3, <4>4
    <3>2. h = [k \in 1..N |-> h[k]]
      OBVIOUS
    <3> HIDE DEF h
    <3>3. h = [k \in 1..N |-> IF k = 1 THEN q[k] ELSE h[k-1] \o q[k]]
      BY <3>1, <3>2, Zenon
    <3> QED BY <3>3 DEF h
  <2>3. Eq(flat)
    <3> HIDE DEF Eq
    <3> QED BY <2>2
  <2> HIDE DEF flat
  <2>4. \A k \in 1..N : flat[k] = IF k = 1 THEN q[k] ELSE flat[k-1] \o q[k]
    BY <2>3, Zenon
  <2> DEFINE Good == {k \in 0..N : k > 0 => flat[k] = f[k]}
  <2>5. 0 \in Good
    BY <1>1
  <2>6. ASSUME NEW k \in 0..N-1, k \in Good PROVE k+1 \in Good
    <3>1. k+1 \in 1..N /\ (k+1)-1 = k /\ k+1 \in 0..N
      BY <1>1
    <3>2. flat[k+1] = IF k+1 = 1 THEN q[k+1] ELSE flat[k] \o q[k+1]
      BY <2>4, <3>1
    <3>3. f[k+1] = f[k] \o q[k+1]
      BY <1>5
    <3>4. CASE k = 0
      <4>1. <<>> \o q[k+1] = q[k+1]
        BY <1>1, <3>1, ConcatEmptySeq
      <4>2. f[k] = <<>>
        BY <1>6, <3>4
      <4>3. f[k+1] = q[k+1]
        BY <3>3, <4>1, <4>2, Zenon
      <4>4. flat[k+1] = q[k+1]
        BY <3>2, <3>4
      <4> QED BY <3>1, <4>3, <4>4
    <3>5. CASE k > 0
      <4>1. flat[k] = f[k]
        BY <2>6, <3>5
      <4>2. flat[k+1] = flat[k] \o q[k+1]
        <5>1. ~(k+1 = 1)
          BY <1>1, <3>5
        <5> QED BY <3>2, <5>1, Zenon
      <4>3. flat[k+1] = f[k+1]
        BY <3>3, <4>1, <4>2, Zenon
      <4> QED BY <3>1, <4>3
    <3> QED BY <3>4, <3>5
  <2>7. \A k \in 0..N-1 : k \in Good => k+1 \in Good
    BY <2>6
  <2> HIDE DEF Good
  <2>8. N \in Good
    <3>1. N \in 0..N
      BY <1>1
    <3> HIDE DEF N
    <3> QED BY <1>1, <2>5, <2>7, <3>1, Upwards
  <2>9. FlattenSeq(q) = f[N]
    BY <1>1, <1>8, <2>1, <2>8 DEF Good
  <2> QED BY <1>5, <1>6, <2>9
<1> QED BY <1>7, <1>8

\* Parts that were joined: each begins where those before it end.
BeginsAt(begin, q) == begin[0] = 0 /\ \A k \in 0..Len(q)-1 : begin[k+1] = begin[k] + Len(q[k+1])

\* begin says where each part is in the octets of all, which are elements of S.
JoinedAs(begin, q, S) ==
  /\ begin \in [0..Len(q) -> Nat] /\ BeginsAt(begin, q)
  /\ FlattenSeq(q) \in Seq(S) /\ Len(FlattenSeq(q)) = begin[Len(q)]
  /\ \A k \in 0..Len(q)-1 : \A i \in 1..Len(q[k+1]) :
       begin[k] + i <= begin[Len(q)] /\ FlattenSeq(q)[begin[k] + i] = q[k+1][i]

LEMMA JoinedIs == \A S : \A q \in Seq(Seq(S)) : \E begin : JoinedAs(begin, q, S)
<1> SUFFICES ASSUME NEW S, NEW q \in Seq(Seq(S)) PROVE \E begin : JoinedAs(begin, q, S)
  OBVIOUS
<1> DEFINE N == Len(q)
<1>1. N \in Nat /\ \A k \in 0..N-1 : k+1 \in 1..N /\ q[k+1] \in Seq(S) /\ Len(q[k+1]) \in Nat
  BY ElementOfSeq, LenProperties
<1>2. PICK f \in [0..N -> Seq(S)] :
        /\ f[0] = <<>>
        /\ \A k \in 0..N-1 : f[k+1] = f[k] \o q[k+1]
        /\ FlattenSeq(q) = f[N]
  BY FlattenIs
<1> DEFINE begin == [k \in 0..N |-> Len(f[k])]
<1>3. \A k \in 0..N : f[k] \in Seq(S) /\ begin[k] \in Nat /\ begin[k] = Len(f[k])
  BY LenProperties
<1>4. begin \in [0..N -> Nat]
  BY <1>3
<1>5. \A k \in 0..N-1 : k \in 0..N /\ k+1 \in 0..N
  BY <1>1
<1>6. 0 \in 0..N /\ N \in 0..N /\ begin[0] = 0
  BY <1>1, <1>2, EmptySeq
<1> HIDE DEF N, begin
<1>7. ASSUME NEW k \in 0..N-1
      PROVE  /\ begin[k+1] = begin[k] + Len(q[k+1])
             /\ \A i \in 1..begin[k+1] :
                  f[k+1][i] = IF i <= begin[k] THEN f[k][i] ELSE q[k+1][i - begin[k]]
  <2>1. f[k] \in Seq(S) /\ q[k+1] \in Seq(S)
    BY <1>1, <1>3, <1>5
  <2>2. /\ Len(f[k] \o q[k+1]) = Len(f[k]) + Len(q[k+1])
        /\ \A i \in 1..Len(f[k]) + Len(q[k+1]) :
             (f[k] \o q[k+1])[i] = IF i <= Len(f[k]) THEN f[k][i] ELSE q[k+1][i - Len(f[k])]
    BY <2>1, ConcatProperties
  <2>3. f[k+1] = f[k] \o q[k+1] /\ begin[k] = Len(f[k]) /\ begin[k+1] = Len(f[k+1])
    BY <1>2, <1>3, <1>5
  <2> QED BY <2>2, <2>3
\* What is in a part stays in all that are longer.
<1> DEFINE Good == {m \in 0..N : \A k \in 0..N-1 : k+1 <= m =>
                      /\ begin[k+1] <= begin[m]
                      /\ \A i \in 1..Len(q[k+1]) : f[m][begin[k] + i] = q[k+1][i]}
<1>8. 0 \in Good
  BY <1>6
<1>9. ASSUME NEW m \in 0..N-1, m \in Good PROVE m+1 \in Good
  <2>1. m+1 \in 0..N /\ m \in 0..N /\ begin[m] \in Nat /\ begin[m+1] \in Nat /\ Len(q[m+1]) \in Nat
    BY <1>1, <1>3, <1>5
  <2> SUFFICES ASSUME NEW k \in 0..N-1, k+1 <= m+1
               PROVE  /\ begin[k+1] <= begin[m+1]
                      /\ \A i \in 1..Len(q[k+1]) : f[m+1][begin[k] + i] = q[k+1][i]
    BY <2>1
  <2>2. /\ begin[m+1] = begin[m] + Len(q[m+1])
        /\ \A i \in 1..begin[m+1] : f[m+1][i] = IF i <= begin[m] THEN f[m][i] ELSE q[m+1][i - begin[m]]
    BY <1>7
  <2>3. /\ begin[k] \in Nat /\ begin[k+1] \in Nat /\ Len(q[k+1]) \in Nat
        /\ begin[k+1] = begin[k] + Len(q[k+1])
    BY <1>1, <1>3, <1>5, <1>7
  <2>4. CASE k = m
    <3>1. begin[k+1] <= begin[m+1]
      BY <2>1, <2>4
    <3>2. ASSUME NEW i \in 1..Len(q[k+1]) PROVE f[m+1][begin[k] + i] = q[k+1][i]
      <4>1. begin[k] + i \in 1..begin[m+1] /\ ~(begin[k] + i <= begin[m]) /\ (begin[k] + i) - begin[m] = i
        BY <2>1, <2>2, <2>4
      <4>2. f[m+1][begin[k] + i] = q[m+1][(begin[k] + i) - begin[m]]
        BY <2>2, <4>1
      <4> QED BY <2>4, <4>1, <4>2
    <3> QED BY <3>1, <3>2
  <2>5. CASE k # m
    <3>1. /\ begin[k+1] <= begin[m]
          /\ \A i \in 1..Len(q[k+1]) : f[m][begin[k] + i] = q[k+1][i]
      <4>1. k+1 <= m
        BY <1>1, <2>5
      <4> QED BY <1>9, <4>1
    <3>2. begin[k+1] <= begin[m+1]
      BY <2>1, <2>2, <2>3, <3>1
    <3>3. ASSUME NEW i \in 1..Len(q[k+1]) PROVE f[m+1][begin[k] + i] = q[k+1][i]
      <4>1. begin[k] + i \in 1..begin[m+1] /\ begin[k] + i <= begin[m]
        <5>1. begin[k] + i <= begin[k+1] /\ begin[k] + i \in Nat /\ begin[k] + i >= 1
          BY <2>3
        <5>2. begin[m] <= begin[m+1]
          BY <2>1, <2>2
        <5>3. begin[k+1] <= begin[m] /\ begin[m] \in Nat /\ begin[m+1] \in Nat /\ begin[k+1] \in Nat
          BY <2>1, <2>3, <3>1
        <5> QED BY <5>1, <5>2, <5>3
      <4>2. f[m+1][begin[k] + i] = f[m][begin[k] + i]
        BY <2>2, <4>1
      <4> QED BY <3>1, <4>2
    <3> QED BY <3>2, <3>3
  <2> QED BY <2>4, <2>5
<1>10. N \in Good
  <2>1. \A m \in 0..N-1 : m \in Good => m+1 \in Good
    BY <1>9
  <2> HIDE DEF Good
  <2>2. N \in Nat
    BY <1>1
  <2> QED BY <1>6, <1>8, <2>1, <2>2, Upwards
<1>11. FlattenSeq(q) = f[N] /\ FlattenSeq(q) \in Seq(S) /\ Len(FlattenSeq(q)) = begin[N]
  BY <1>2, <1>3, <1>6
<1>12. ASSUME NEW k \in 0..N-1, NEW i \in 1..Len(q[k+1])
       PROVE  begin[k] + i <= begin[N] /\ FlattenSeq(q)[begin[k] + i] = q[k+1][i]
  <2>1. k+1 <= N /\ Len(q[k+1]) \in Nat /\ begin[k] \in Nat /\ begin[N] \in Nat
    <3>1. k \in 0..N /\ N \in 0..N
      BY <1>5, <1>6
    <3>2. begin[k] \in Nat /\ begin[N] \in Nat
      BY <1>3, <3>1
    <3>3. Len(q[k+1]) \in Nat /\ k+1 <= N
      BY <1>1
    <3> QED BY <3>2, <3>3
  <2>2. begin[k+1] <= begin[N] /\ f[N][begin[k] + i] = q[k+1][i]
    BY <1>10, <2>1
  <2>3. begin[k+1] = begin[k] + Len(q[k+1])
    BY <1>7
  <2> QED BY <1>11, <2>1, <2>2, <2>3
<1>13. BeginsAt(begin, q)
  BY <1>6, <1>7 DEF BeginsAt, N
<1>14. JoinedAs(begin, q, S)
  BY <1>4, <1>11, <1>12, <1>13 DEF N, JoinedAs
<1> QED BY <1>14

\* Two sequences one behind the other.
LEMMA ConcatIs ==
  \A S : \A s, t \in Seq(S) :
    /\ s \o t \in Seq(S) /\ Len(s \o t) = Len(s) + Len(t)
    /\ \A i \in 1..Len(s) + Len(t) : (s \o t)[i] = IF i <= Len(s) THEN s[i] ELSE t[i - Len(s)]
BY ConcatProperties
=============================================================================
