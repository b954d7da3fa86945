---------------------------- MODULE GfcGc_proofs ----------------------------
(***************************************************************************)
(* Proofs about GfcGc for any number of addresses, any sizes, any growth   *)
(* of the table, any memory that realloc leaves in it, any cell hit by the *)
(* stray byte, with malloc and realloc failing or not, and with slots lost *)
(* through the mask of case 6: what the tracker wrote into its table is a  *)
(* block, until a search ends at a cell it did not write.                  *)
(***************************************************************************)
EXTENDS GfcGc, FiniteSetTheorems, WellFoundedInduction, TLAPS

\* A cell of the first byte of a growth that the tracker has not written yet is free, and no
\* block of the tracker lies behind it.
Waiting ==
  \A s \in 0..len-1 : writer[s] = "realloc" /\ ~Unzeroed(s) =>
    bits[s] = 0 /\ \A i \in 0..len-1 : i > s => writer[i] # "tracker"

\* The cells the tracker wrote are those of blocks, each of one block.
Sound ==
  /\ \A i \in Own : ptrs[i].ptr \in Addr =>
       ptrs[i].ptr \in held /\ ptrs[i].total = heap[ptrs[i].ptr]
  /\ \A i, k \in Own : ptrs[i].ptr = ptrs[k].ptr /\ ptrs[i].ptr \in Addr => i = k

HeldIsAllocated == \A p \in held : heap[p] # 0

\* The table is opened with one growth, and grows by whole ones.
LengthOK ==
  /\ ctx = "null" => len = 0
  /\ ctx = "ready" => len >= IncCount
  /\ len % IncCount = 0

TableInv ==
  TypeOK /\ LengthOK /\ HeldIsAllocated /\ NoDoubleFree /\ (~misled => Sound /\ Waiting)

\* A nonempty set of naturals has a least element.
LEMMA LeastNatural ==
  ASSUME NEW S, S \subseteq Nat, S # {}
  PROVE  \E m \in S : \A k \in S : m <= k
<1> DEFINE R == {ss \in Nat \X Nat : ss[1] < ss[2]}
<1>1. IsWellFoundedOn(R, Nat)
  BY NatLessThanWellFounded DEF OpToRel
<1>2. \A k, m \in S : <<k, m>> \in R <=> k < m
  OBVIOUS
<1> HIDE DEF R
<1>3. \E m \in S : \A k \in S : ~(<<k, m>> \in R)
  BY <1>1, WFMin, Zenon
<1>4. PICK m \in S : \A k \in S : ~(<<k, m>> \in R)
  BY <1>3
<1>5. ASSUME NEW k \in S PROVE m <= k
  <2>1. ~(k < m)
    BY <1>2, <1>4, Zenon
  <2> QED BY <2>1
<1> QED BY <1>5

USE GcNull, GcSizes, GcPick

\* The linear search ends at the first slot that has the pointer.
LEMMA SlotFound ==
  ASSUME TypeOK, NEW p, Slots(p) # {}
  PROVE  /\ SlotOf(p) \in 0..len-1 /\ ptrs[SlotOf(p)].ptr = p
         /\ \A k \in 0..len-1 : ptrs[k].ptr = p => SlotOf(p) <= k
<1>1. Slots(p) \subseteq Nat
  BY DEF Slots, TypeOK
<1>2. \E m \in Slots(p) : \A k \in Slots(p) : m <= k
  BY <1>1, LeastNatural
<1>3. SlotOf(p) \in Slots(p) /\ \A k \in Slots(p) : SlotOf(p) <= k
  BY <1>2 DEF SlotOf
<1> QED BY <1>3 DEF Slots

\* The scan of the bitmap ends at a slot of the table, or just behind it.
LEMMA FirstFreeFound ==
  ASSUME TypeOK
  PROVE  FirstFree \in 0..len /\ FirstFree \in Nat
<1> DEFINE zero == {i \in 0..len-1 : bits[i] = 0}
<1>1. CASE zero = {}
  BY <1>1 DEF FirstFree, TypeOK
<1>2. CASE zero # {}
  <2>1. zero \subseteq Nat
    BY DEF TypeOK
  <2> HIDE DEF zero
  <2>2. \E i \in zero : \A k \in zero : i <= k
    BY <1>2, <2>1, LeastNatural
  <2>3. (CHOOSE i \in zero : \A k \in zero : i <= k) \in zero
    BY <2>2
  <2> USE DEF zero
  <2>4. FirstFree \in zero
    BY <1>2, <2>3 DEF FirstFree
  <2> QED BY <2>4 DEF TypeOK
<1> QED BY <1>1, <1>2

\* While every bit is set no slot is free; otherwise the scan ends at a 0 bit.
LEMMA FirstFreeBit ==
  ASSUME TypeOK
  PROVE  IF FirstFree < len THEN bits[FirstFree] = 0 ELSE \A i \in 0..len-1 : bits[i] = 1
<1> DEFINE zero == {i \in 0..len-1 : bits[i] = 0}
<1>1. CASE zero = {}
  <2>1. FirstFree = len
    BY <1>1 DEF FirstFree
  <2>2. \A i \in 0..len-1 : bits[i] = 1
    BY <1>1 DEF TypeOK
  <2> QED BY <2>1, <2>2 DEF TypeOK
<1>2. CASE zero # {}
  <2>1. zero \subseteq Nat
    BY DEF TypeOK
  <2> HIDE DEF zero
  <2>2. \E i \in zero : \A k \in zero : i <= k
    BY <1>2, <2>1, LeastNatural
  <2>3. (CHOOSE i \in zero : \A k \in zero : i <= k) \in zero
    BY <2>2
  <2> USE DEF zero
  <2>4. FirstFree \in zero
    BY <1>2, <2>3 DEF FirstFree
  <2> QED BY <2>4 DEF TypeOK
<1> QED BY <1>1, <1>2

\* The scan passes over slots whose bit is set.
LEMMA FirstFreeLeast ==
  ASSUME TypeOK, NEW i \in 0..len-1, i < FirstFree
  PROVE  bits[i] = 1
<1> DEFINE zero == {k \in 0..len-1 : bits[k] = 0}
<1>1. CASE zero = {}
  BY <1>1 DEF TypeOK
<1>2. CASE zero # {}
  <2>1. zero \subseteq Nat
    BY DEF TypeOK
  <2> HIDE DEF zero
  <2>2. \E m \in zero : \A k \in zero : m <= k
    BY <1>2, <2>1, LeastNatural
  <2>3. \A k \in zero : (CHOOSE m \in zero : \A l \in zero : m <= l) <= k
    BY <2>2
  <2> USE DEF zero
  <2>4. \A k \in zero : FirstFree <= k
    BY <1>2, <2>3 DEF FirstFree
  <2>5. i \notin zero
    BY <2>4, FirstFreeFound DEF TypeOK
  <2> QED BY <2>5 DEF TypeOK
<1> QED BY <1>1, <1>2

\* Sums and differences of two size_t values wrap into a size_t.
LEMMA WrapType ==
  ASSUME NEW x \in Int, -SizeMax <= x, x <= SizeMax + SizeMax
  PROVE  Wrap(x) \in 0..SizeMax
BY DEF Wrap

\* What libc may return is free.
LEMMA PickFree ==
  ASSUME TypeOK
  PROVE  /\ \A a \in Pick(FreeAddr) : a \in Addr /\ heap[a] = 0
         /\ \A p \in Addr : \A a \in Pick(FreeAddr \cup {p}) :
              a \in Addr /\ (a = p \/ heap[a] = 0)
BY DEF FreeAddr

\* A growth begins at a multiple of IncCount: its slots are counted from 0 again.
LEMMA GrowthOffset ==
  ASSUME NEW m \in Nat, NEW N \in Nat \ {0}, m % N = 0, NEW j \in 0..N-1
  PROVE  (m + j) % N = j /\ (m + N) % N = 0
<1> DEFINE q == m \div N
           k == (m + j) \div N
           x == (m + j) % N
<1>1. q \in Nat /\ m = N * q
  OBVIOUS
<1>2. k \in Nat /\ x \in 0..N-1 /\ m + j = N * k + x
  OBVIOUS
<1>3. \A a, b \in Nat : N * (a + 1 + b) = N * a + N + N * b /\ N * b >= 0
  OBVIOUS
<1> HIDE DEF q, k, x
<1>4. ~(q < k)
  <2> SUFFICES ASSUME q < k PROVE FALSE
    OBVIOUS
  <2>1. k - q - 1 \in Nat /\ k = q + 1 + (k - q - 1)
    BY <1>1, <1>2
  <2>2. N * k >= N * q + N
    BY <1>1, <1>3, <2>1
  <2> QED BY <1>1, <1>2, <2>2
<1>5. ~(k < q)
  <2> SUFFICES ASSUME k < q PROVE FALSE
    OBVIOUS
  <2>1. q - k - 1 \in Nat /\ q = k + 1 + (q - k - 1)
    BY <1>1, <1>2
  <2>2. N * q >= N * k + N
    BY <1>2, <1>3, <2>1
  <2> QED BY <1>1, <1>2, <2>2
<1>6. k = q
  BY <1>1, <1>2, <1>4, <1>5
<1>7. x = j
  BY <1>1, <1>2, <1>6
<1>8. (m + N) % N = 0
  <2>1. m + N = N * (q + 1)
    BY <1>1
  <2> QED BY <1>1, <2>1
<1> QED BY <1>7, <1>8 DEF x

\* The offsets of the slots that a growth adds.
LEMMA NewSlots ==
  ASSUME TypeOK, LengthOK
  PROVE  /\ len \in Nat /\ IncCount \in Nat \ {0} /\ ByteLength \in Nat \ {0}
         /\ (len + IncCount) % IncCount = 0 /\ (len + IncCount) % ByteLength = 0
         /\ \A i \in len..len+IncCount-1 : i % IncCount = i - len
<1>1. len \in Nat /\ len % IncCount = 0 /\ len % ByteLength = 0
  BY DEF TypeOK, LengthOK
<1>2. /\ IncCount \in Nat \ {0} /\ IncCount % ByteLength = 0 /\ ByteLength \in Nat \ {0}
  BY GcIncCount, GcBytes
<1>3. \A j \in 0..IncCount-1 : (len + j) % IncCount = j /\ (len + IncCount) % IncCount = 0
  BY <1>1, <1>2, GrowthOffset
<1>4. (len + IncCount) % IncCount = 0
  <2>1. 0 \in 0..IncCount-1
    BY <1>2
  <2> QED BY <1>3, <2>1
<1>5. (len + IncCount) % ByteLength = 0
  <2> DEFINE a == len \div ByteLength
             b == IncCount \div ByteLength
             B == ByteLength
  <2>1. a \in Nat /\ b \in Nat /\ len = B * a /\ IncCount = B * b /\ B \in Nat \ {0}
    BY <1>1, <1>2
  <2> HIDE DEF a, b, B
  <2>2. len + IncCount = B * (a + b)
    BY <2>1
  <2>3. (B * (a + b)) % B = 0
    BY <2>1
  <2> QED BY <2>2, <2>3 DEF B
<1>6. ASSUME NEW i \in len..len+IncCount-1 PROVE i % IncCount = i - len
  <2> DEFINE j == i - len
  <2>1. j \in 0..IncCount-1 /\ i = len + j
    BY <1>1, <1>2
  <2> HIDE DEF j
  <2>2. (len + j) % IncCount = j
    BY <1>3, <2>1
  <2> QED BY <2>1, <2>2 DEF j
<1> QED BY <1>1, <1>2, <1>4, <1>5, <1>6

\* A cell hit by the stray byte is some cell.
LEMMA StruckType ==
  ASSUME TypeOK, NEW table \in Struck
  PROVE  table \in [0..len-1 -> AnyCell]
<1>1. CASE table = ptrs
  BY <1>1 DEF TypeOK
<1>2. CASE table # ptrs
  <2>1. PICK i \in 0..len-1 : table \in {[ptrs EXCEPT ![i] = cell] : cell \in Spoil(ptrs[i])}
    BY <1>2 DEF Struck
  <2>2. PICK cell \in Spoil(ptrs[i]) : table = [ptrs EXCEPT ![i] = cell]
    BY <2>1
  <2>3. ptrs[i] \in AnyCell
    BY DEF TypeOK
  <2>4. cell \in AnyCell
    BY <2>2, <2>3, GcSpoil
  <2> QED BY <2>2, <2>4 DEF TypeOK
<1> QED BY <1>1, <1>2

-----------------------------------------------------------------------------
\* gfc_gc_malloc into a free slot of the table.
LEMMA MallocStep ==
  ASSUME TableInv, NEW a \in Pick(FreeAddr), NEW n \in Sizes, Malloc(a, n)
  PROVE  TableInv'
<1> USE DEF TableInv
<1>1. a \in Addr /\ heap[a] = 0 /\ a \notin held /\ n \in 1..SizeMax
  BY PickFree DEF HeldIsAllocated
<1>2. FirstFree \in 0..len-1 /\ len \in Nat
  BY FirstFreeFound DEF Malloc, TypeOK
<1>3. total' \in 0..SizeMax
  BY <1>1, WrapType DEF Malloc, Obtain, TypeOK
<1> DEFINE f == FirstFree
<1>4. /\ bits' = [bits EXCEPT ![f] = 1]
      /\ ptrs' = [ptrs EXCEPT ![f] = Cell(a, n)]
      /\ writer' = [writer EXCEPT ![f] = "tracker"]
      /\ heap' = [heap EXCEPT ![a] = n] /\ held' = held \cup {a}
      /\ len' = len /\ ctx' = ctx /\ rc' = "ok" /\ misled' = misled /\ f \in 0..len-1
  BY <1>2 DEF Malloc, Obtain
<1>5. \A i \in 0..len-1 : i < f => bits[i] = 1
  BY FirstFreeLeast
<1> HIDE DEF f
<1>6. /\ Cell(a, n).ptr = a /\ Cell(a, n).total = n /\ Cell(a, n) \in AnyCell
  BY <1>1 DEF Cell, AnyCell
<1>7. \A i \in 0..len-1 :
        /\ ptrs'[i] = IF i = f THEN Cell(a, n) ELSE ptrs[i]
        /\ writer'[i] = IF i = f THEN "tracker" ELSE writer[i]
        /\ bits'[i] = IF i = f THEN 1 ELSE bits[i]
  BY <1>4 DEF TypeOK
<1>8. TypeOK'
  BY <1>1, <1>3, <1>4, <1>6 DEF TypeOK
<1>9. HeldIsAllocated' /\ NoDoubleFree' /\ LengthOK'
  BY <1>1, <1>4 DEF HeldIsAllocated, NoDoubleFree, LengthOK, TypeOK
<1>10. ASSUME ~misled PROVE Sound'
  <2>1. \A i \in Own' : i = f \/ i \in Own
    BY <1>4, <1>7 DEF Own
  <2>2. \A i \in Own : ptrs[i].ptr # a
    BY <1>1, <1>10 DEF Sound
  <2>3. Sound
    BY <1>10
  <2>4. ASSUME NEW i \in Own', ptrs'[i].ptr \in Addr
        PROVE  ptrs'[i].ptr \in held' /\ ptrs'[i].total = heap'[ptrs'[i].ptr]
    <3>1. i \in 0..len-1
      BY <1>4 DEF Own
    <3>2. CASE i = f
      BY <1>1, <1>4, <1>6, <1>7, <3>2 DEF TypeOK
    <3>3. CASE i # f
      <4>1. i \in Own /\ ptrs'[i] = ptrs[i]
        BY <1>7, <2>1, <3>1, <3>3
      <4>2. ptrs[i].ptr \in held /\ ptrs[i].total = heap[ptrs[i].ptr] /\ ptrs[i].ptr # a
        BY <2>2, <2>3, <2>4, <4>1 DEF Sound
      <4> QED BY <1>4, <2>4, <4>1, <4>2 DEF TypeOK
    <3> QED BY <3>2, <3>3
  <2>5. ASSUME NEW i \in Own', NEW k \in Own', ptrs'[i].ptr = ptrs'[k].ptr, ptrs'[i].ptr \in Addr
        PROVE  i = k
    <3>1. i \in 0..len-1 /\ k \in 0..len-1
      BY <1>4 DEF Own
    <3> QED BY <1>6, <1>7, <2>1, <2>2, <2>3, <2>5, <3>1 DEF Sound
  <2> QED BY <2>4, <2>5 DEF Sound
<1>11. ASSUME ~misled PROVE Waiting'
  <2>1. Waiting
    BY <1>11
  <2> SUFFICES ASSUME NEW s \in 0..len-1, writer'[s] = "realloc", ~Unzeroed(s)
               PROVE  bits'[s] = 0 /\ \A i \in 0..len-1 : i > s => writer'[i] # "tracker"
    BY <1>4 DEF Waiting, Unzeroed
  <2>2. s # f /\ writer[s] = "realloc"
    BY <1>7
  <2>3. bits[s] = 0 /\ \A i \in 0..len-1 : i > s => writer[i] # "tracker"
    BY <2>1, <2>2 DEF Waiting
  <2>4. ~(s < f)
    BY <1>5, <2>3
  <2>5. \A i \in 0..len-1 : i > s => i # f
    BY <1>2, <1>4, <2>2, <2>4
  <2> QED BY <1>7, <2>2, <2>3, <2>5
<1> QED BY <1>4, <1>8, <1>9, <1>10, <1>11

\* gfc_gc_malloc with the table full: the new cells are not the tracker's, but the first.
LEMMA MallocGrowStep ==
  ASSUME TableInv, NEW a \in Pick(FreeAddr), NEW n \in Sizes, MallocGrow(a, n)
  PROVE  TableInv'
<1> USE DEF TableInv
<1>1. a \in Addr /\ heap[a] = 0 /\ a \notin held /\ n \in 1..SizeMax
  BY PickFree DEF HeldIsAllocated
<1>2. total' \in 0..SizeMax
  BY <1>1, WrapType DEF MallocGrow, Obtain, TypeOK
<1>3. /\ len' = len + IncCount /\ len \in Nat /\ IncCount \in Nat \ {0}
      /\ len' \in Nat /\ len' % ByteLength = 0 /\ len' % IncCount = 0
      /\ ByteLength \in Nat \ {0}
      /\ \A i \in len..len+IncCount-1 : i % IncCount = i - len
  BY NewSlots DEF MallocGrow
<1>4. PICK rest \in [LeftBits -> {0, 1}] : bits' = GrownBits(rest)
  BY DEF MallocGrow
<1>5. PICK junk \in Junk, table \in Struck :
        /\ ptrs' = [i \in 0..len+IncCount-1 |->
                     IF i < len THEN table[i]
                     ELSE IF i = len THEN Cell(a, n) ELSE junk[i - len]]
        /\ writer' = [i \in 0..len+IncCount-1 |->
                       IF i < len THEN IF table[i] = ptrs[i] THEN writer[i] ELSE "stray"
                       ELSE IF i = len THEN "tracker" ELSE "realloc"]
  BY DEF MallocGrow
<1>6. junk \in [1..IncCount-1 -> AnyCell] /\ table \in [0..len-1 -> AnyCell]
  BY GcJunk, StruckType
<1>7. /\ heap' = [heap EXCEPT ![a] = n] /\ held' = held \cup {a}
      /\ ctx' = ctx /\ ctx = "ready" /\ rc' = "ok" /\ misled' = misled
  BY DEF MallocGrow, Obtain
<1>8. /\ Cell(a, n).ptr = a /\ Cell(a, n).total = n /\ Cell(a, n) \in AnyCell
  BY <1>1 DEF Cell, AnyCell
<1>9. bits' \in [0..len'-1 -> {0, 1}]
  <2>1. ASSUME NEW i \in 0..len+IncCount-1
        PROVE  (IF i < len THEN bits[i]
                ELSE IF i = len THEN 1
                ELSE IF i < len + ByteLength THEN 0 ELSE rest[i]) \in {0, 1}
    BY <1>3, <1>4 DEF TypeOK, LeftBits
  <2> QED BY <1>3, <1>4, <2>1 DEF GrownBits
<1>10. ptrs' \in [0..len'-1 -> AnyCell]
  <2>1. ASSUME NEW i \in 0..len+IncCount-1
        PROVE  (IF i < len THEN table[i]
                ELSE IF i = len THEN Cell(a, n) ELSE junk[i - len]) \in AnyCell
    BY <1>3, <1>6, <1>8
  <2> QED BY <1>3, <1>5, <2>1
<1>11. writer' \in [0..len'-1 -> {"tracker", "realloc", "stray"}]
  <2>1. ASSUME NEW i \in 0..len+IncCount-1
        PROVE  (IF i < len THEN IF table[i] = ptrs[i] THEN writer[i] ELSE "stray"
                ELSE IF i = len THEN "tracker" ELSE "realloc") \in {"tracker", "realloc", "stray"}
    BY <1>3 DEF TypeOK
  <2> QED BY <1>3, <1>5, <2>1
<1>12. TypeOK'
  BY <1>1, <1>2, <1>3, <1>7, <1>9, <1>10, <1>11 DEF TypeOK
<1>13. HeldIsAllocated' /\ NoDoubleFree' /\ LengthOK'
  BY <1>1, <1>3, <1>7 DEF HeldIsAllocated, NoDoubleFree, LengthOK, TypeOK
<1>14. \A i \in Own' : i = len \/ (i \in Own /\ ptrs'[i] = ptrs[i])
  BY <1>3, <1>5 DEF Own
<1>15. len \in 0..len'-1 /\ ptrs'[len] = Cell(a, n)
  BY <1>3, <1>5
<1>16. ASSUME ~misled PROVE Sound'
  <2>1. Sound
    BY <1>16
  <2>2. \A i \in Own : ptrs[i].ptr # a
    BY <1>1, <2>1 DEF Sound
  <2>3. ASSUME NEW i \in Own', ptrs'[i].ptr \in Addr
        PROVE  ptrs'[i].ptr \in held' /\ ptrs'[i].total = heap'[ptrs'[i].ptr]
    <3>1. CASE i = len
      BY <1>1, <1>7, <1>8, <1>15, <3>1 DEF TypeOK
    <3>2. CASE i # len
      <4>1. i \in Own /\ ptrs'[i] = ptrs[i]
        BY <1>14, <3>2
      <4>2. ptrs[i].ptr \in held /\ ptrs[i].total = heap[ptrs[i].ptr] /\ ptrs[i].ptr # a
        BY <2>1, <2>2, <2>3, <4>1 DEF Sound
      <4> QED BY <1>7, <2>3, <4>1, <4>2 DEF TypeOK
    <3> QED BY <3>1, <3>2
  <2>4. ASSUME NEW i \in Own', NEW k \in Own', ptrs'[i].ptr = ptrs'[k].ptr, ptrs'[i].ptr \in Addr
        PROVE  i = k
    BY <1>8, <1>14, <1>15, <2>1, <2>2, <2>4 DEF Sound
  <2> QED BY <2>3, <2>4 DEF Sound
<1>17. ASSUME ~misled PROVE Waiting'
  <2>1. Waiting
    BY <1>17
  <2>2. \A i \in 0..len-1 : bits[i] = 1
    BY <1>3, FirstFreeBit DEF MallocGrow
  <2> SUFFICES ASSUME NEW s \in 0..len'-1, writer'[s] = "realloc", ~Unzeroed(s)
               PROVE  bits'[s] = 0 /\ \A i \in 0..len'-1 : i > s => writer'[i] # "tracker"
    BY DEF Waiting, Unzeroed
  <2>3. ~(s < len)
    <3> SUFFICES ASSUME s < len PROVE FALSE
      OBVIOUS
    <3>1. s \in 0..len-1 /\ writer[s] = "realloc"
      BY <1>3, <1>5
    <3> QED BY <2>1, <2>2, <3>1 DEF Waiting
  <2>4. s # len
    BY <1>3, <1>5
  <2>5. s \in len..len+IncCount-1 /\ s > len
    BY <1>3, <2>3, <2>4
  <2>6. s % IncCount = s - len
    BY <1>3, <2>5
  <2>7. s >= IncCount
    BY <1>3, <1>7, <2>5 DEF LengthOK
  <2>8. s < len + ByteLength
    BY <1>3, <2>5, <2>6, <2>7 DEF Unzeroed
  <2>9. bits'[s] = 0
    BY <1>3, <1>4, <2>5, <2>8 DEF GrownBits
  <2>10. \A i \in 0..len'-1 : i > s => writer'[i] # "tracker"
    BY <1>3, <1>5, <2>5
  <2> QED BY <2>9, <2>10
<1> QED BY <1>7, <1>12, <1>13, <1>16, <1>17

\* A call whose search ends at a cell writes it: what is left of the table is sound, if the
\* tracker had written that cell before.
LEMMA CellWrittenStep ==
  ASSUME TypeOK, ~misled => Sound /\ Waiting, NEW p \in Addr, Slots(p) # {}, CellWritten(p),
         len' = len
  PROVE  /\ writer' \in [0..len-1 -> {"tracker", "realloc", "stray"}] /\ misled' \in BOOLEAN
         /\ ~misled' =>
              /\ ~misled /\ SlotOf(p) \in Own /\ Own' = Own
              /\ p \in held /\ ptrs[SlotOf(p)].total = heap[p]
              /\ \A i \in Own : ptrs[i].ptr = p => i = SlotOf(p)
              /\ (\A i \in 0..len-1 : bits'[i] = 1 => bits[i] = 1) /\ bits' \in [0..len-1 -> {0, 1}]
                   => Waiting'
<1> DEFINE s == SlotOf(p)
<1>1. s \in 0..len-1 /\ ptrs[s].ptr = p
  BY SlotFound
<1>2. /\ misled' = (misled \/ writer[s] # "tracker")
      /\ writer' = [writer EXCEPT ![s] = "tracker"]
  BY DEF CellWritten
<1> HIDE DEF s
<1>3. writer' \in [0..len-1 -> {"tracker", "realloc", "stray"}] /\ misled' \in BOOLEAN
  BY <1>1, <1>2 DEF TypeOK
<1>4. ASSUME ~misled'
      PROVE  /\ ~misled /\ s \in Own /\ Own' = Own
             /\ p \in held /\ ptrs[s].total = heap[p]
             /\ \A i \in Own : ptrs[i].ptr = p => i = s
             /\ (\A i \in 0..len-1 : bits'[i] = 1 => bits[i] = 1) /\ bits' \in [0..len-1 -> {0, 1}]
                  => Waiting'
  <2>1. ~misled /\ writer[s] = "tracker" /\ Sound /\ Waiting
    BY <1>2, <1>4
  <2>2. s \in Own /\ writer' = writer
    BY <1>1, <1>2, <2>1 DEF Own, TypeOK
  <2>3. Own' = Own
    BY <2>2 DEF Own
  <2>4. /\ p \in held /\ ptrs[s].total = heap[p]
        /\ \A i \in Own : ptrs[i].ptr = p => i = s
    BY <1>1, <2>1, <2>2 DEF Sound
  <2>5. ASSUME \A i \in 0..len-1 : bits'[i] = 1 => bits[i] = 1, bits' \in [0..len-1 -> {0, 1}]
        PROVE  Waiting'
    BY <2>1, <2>2, <2>5 DEF Waiting, Unzeroed, TypeOK
  <2> QED BY <2>1, <2>2, <2>3, <2>4, <2>5
<1> QED BY <1>3, <1>4 DEF s

\* gfc_gc_realloc, the block moved or resized in place.
LEMMA ReallocStep ==
  ASSUME TableInv, NEW p \in held, NEW a \in Pick(FreeAddr \cup {p}), NEW n \in Sizes,
         Realloc(p, a, n)
  PROVE  TableInv'
<1> USE DEF TableInv
<1> DEFINE s == SlotOf(p)
<1>1. a \in Addr /\ p \in Addr /\ (a = p \/ (heap[a] = 0 /\ a \notin held)) /\ n \in 1..SizeMax
  BY PickFree DEF HeldIsAllocated, TypeOK
<1>2. s \in 0..len-1 /\ ptrs[s].ptr = p
  BY SlotFound DEF Realloc
<1>3. total' \in 0..SizeMax
  <2>1. ptrs[s].total \in 0..SizeMax /\ total \in 0..SizeMax
    BY <1>2 DEF TypeOK, AnyCell
  <2>2. total' = Wrap(total + n - ptrs[s].total)
    BY DEF Realloc
  <2> QED BY <1>1, <2>1, <2>2, WrapType
<1>4. /\ ptrs' = [ptrs EXCEPT ![s] = Cell(a, n)]
      /\ heap' = [heap EXCEPT ![p] = 0, ![a] = n]
      /\ held' = (held \ {p}) \cup {a}
      /\ UNCHANGED <<ctx, len, bits>> /\ rc' = "ok"
  BY DEF Realloc
<1>5. /\ writer' \in [0..len-1 -> {"tracker", "realloc", "stray"}] /\ misled' \in BOOLEAN
      /\ ~misled' =>
           /\ ~misled /\ s \in Own /\ Own' = Own
           /\ \A i \in Own : ptrs[i].ptr = p => i = s
           /\ Waiting'
  BY <1>1, <1>4, CellWrittenStep DEF Realloc, TypeOK
<1> HIDE DEF s
<1>6. heap' \in [Addr -> {0} \cup Sizes] /\ held' \subseteq Addr
  BY <1>1, <1>4 DEF TypeOK
<1>7. /\ Cell(a, n).ptr = a /\ Cell(a, n).total = n /\ Cell(a, n) \in AnyCell
  BY <1>1 DEF Cell, AnyCell
<1>8. TypeOK'
  BY <1>2, <1>3, <1>4, <1>5, <1>6, <1>7 DEF TypeOK
<1>9. HeldIsAllocated' /\ NoDoubleFree' /\ LengthOK'
  BY <1>1, <1>4 DEF HeldIsAllocated, NoDoubleFree, LengthOK, TypeOK
<1>10. ASSUME ~misled' PROVE Sound'
  <2>1. Sound /\ s \in Own /\ Own' = Own /\ \A i \in Own : ptrs[i].ptr = p => i = s
    BY <1>5, <1>10
  <2>2. \A i \in Own : i # s => ptrs'[i] = ptrs[i] /\ ptrs[i].ptr # p
    BY <1>4, <2>1 DEF Own, TypeOK
  <2>3. ptrs'[s] = Cell(a, n)
    BY <1>2, <1>4 DEF TypeOK
  <2>4. \A i \in Own : i # s => ptrs[i].ptr # a
    BY <1>1, <2>1, <2>2 DEF Sound
  <2>5. ASSUME NEW i \in Own, ptrs'[i].ptr \in Addr
        PROVE  ptrs'[i].ptr \in held' /\ ptrs'[i].total = heap'[ptrs'[i].ptr]
    <3>1. CASE i = s
      BY <1>1, <1>4, <1>7, <2>3, <3>1 DEF TypeOK
    <3>2. CASE i # s
      <4>1. ptrs'[i] = ptrs[i] /\ ptrs[i].ptr # p /\ ptrs[i].ptr # a
        BY <2>2, <2>4, <3>2
      <4>2. ptrs[i].ptr \in held /\ ptrs[i].total = heap[ptrs[i].ptr]
        BY <2>1, <2>5, <4>1 DEF Sound
      <4> QED BY <1>1, <1>4, <2>5, <4>1, <4>2 DEF TypeOK
    <3> QED BY <3>1, <3>2
  <2>6. ASSUME NEW i \in Own, NEW k \in Own, ptrs'[i].ptr = ptrs'[k].ptr, ptrs'[i].ptr \in Addr
        PROVE  i = k
    BY <1>7, <2>1, <2>2, <2>3, <2>4, <2>6 DEF Sound
  <2> QED BY <2>1, <2>5, <2>6 DEF Sound
<1> QED BY <1>5, <1>8, <1>9, <1>10

\* A failing realloc of libc leaves the block to its client and to no slot.
LEMMA ReallocNullStep ==
  ASSUME TableInv, NEW p \in held, NEW n \in Sizes, ReallocNull(p, n)
  PROVE  TableInv'
<1> USE DEF TableInv
<1> DEFINE s == SlotOf(p)
<1>1. p \in Addr /\ n \in 1..SizeMax
  BY DEF TypeOK
<1>2. s \in 0..len-1 /\ ptrs[s].ptr = p
  BY SlotFound DEF ReallocNull
<1>3. total' \in 0..SizeMax
  <2>1. ptrs[s].total \in 0..SizeMax /\ total \in 0..SizeMax
    BY <1>2 DEF TypeOK, AnyCell
  <2>2. total' = Wrap(total + n - ptrs[s].total)
    BY DEF ReallocNull
  <2> QED BY <1>1, <2>1, <2>2, WrapType
<1>4. /\ ptrs' = [ptrs EXCEPT ![s] = Cell(Null, n)]
      /\ UNCHANGED <<ctx, len, bits, heap, held>> /\ rc' = "null"
  BY DEF ReallocNull
<1>5. /\ writer' \in [0..len-1 -> {"tracker", "realloc", "stray"}] /\ misled' \in BOOLEAN
      /\ ~misled' => ~misled /\ s \in Own /\ Own' = Own /\ Waiting'
  BY <1>1, <1>4, CellWrittenStep DEF ReallocNull, TypeOK
<1> HIDE DEF s
<1>6. Cell(Null, n).ptr = Null /\ Cell(Null, n) \in AnyCell
  BY <1>1 DEF Cell, AnyCell
<1>7. TypeOK'
  BY <1>1, <1>2, <1>3, <1>4, <1>5, <1>6 DEF TypeOK
<1>8. HeldIsAllocated' /\ NoDoubleFree' /\ LengthOK'
  BY <1>4 DEF HeldIsAllocated, NoDoubleFree, LengthOK
<1>9. ASSUME ~misled' PROVE Sound'
  <2>1. Sound /\ Own' = Own
    BY <1>5, <1>9
  <2>2. \A i \in Own : ptrs'[i].ptr \in Addr => ptrs'[i] = ptrs[i]
    BY <1>4, <1>6 DEF Own, TypeOK
  <2> QED BY <1>4, <2>1, <2>2 DEF Sound
<1> QED BY <1>5, <1>7, <1>8, <1>9

\* gfc_gc_free of a pointer in the table: libc has the block, if the cell is the tracker's.
LEMMA FreeStep ==
  ASSUME TableInv, NEW p \in Addr, Free(p)
  PROVE  TableInv'
<1> USE DEF TableInv
<1> DEFINE s == SlotOf(p)
<1>1. s \in 0..len-1 /\ ptrs[s].ptr = p
  BY SlotFound DEF Free
<1>2. total' \in 0..SizeMax
  <2>1. ptrs[s].total \in 0..SizeMax /\ total \in 0..SizeMax
    BY <1>1 DEF TypeOK, AnyCell
  <2>2. total' = Wrap(total - ptrs[s].total)
    BY DEF Free
  <2> QED BY <2>1, <2>2, WrapType
<1>3. bits' \in [0..len-1 -> {0, 1}] /\ \A i \in 0..len-1 : bits'[i] = 1 => bits[i] = 1
  BY DEF Free, TypeOK
<1>4. /\ ptrs' = [ptrs EXCEPT ![s] = NoCell]
      /\ heap' = [heap EXCEPT ![p] = 0] /\ held' = held \ {p}
      /\ UNCHANGED <<ctx, len>> /\ rc' = IF heap[p] = 0 THEN "double_free" ELSE "ok"
  BY DEF Free
<1>5. /\ writer' \in [0..len-1 -> {"tracker", "realloc", "stray"}] /\ misled' \in BOOLEAN
      /\ ~misled' =>
           /\ ~misled /\ s \in Own /\ Own' = Own /\ p \in held
           /\ \A i \in Own : ptrs[i].ptr = p => i = s
           /\ Waiting'
  BY <1>3, <1>4, CellWrittenStep DEF Free
<1> HIDE DEF s
<1>6. NoCell.ptr = Null /\ NoCell \in AnyCell
  BY DEF NoCell, Cell, AnyCell
<1>7. TypeOK'
  BY <1>1, <1>2, <1>3, <1>4, <1>5, <1>6 DEF TypeOK
<1>8. HeldIsAllocated' /\ LengthOK'
  BY <1>4 DEF HeldIsAllocated, LengthOK, TypeOK
<1>9. NoDoubleFree'
  BY <1>4, <1>5 DEF NoDoubleFree, HeldIsAllocated
<1>10. ASSUME ~misled' PROVE Sound'
  <2>1. Sound /\ s \in Own /\ Own' = Own /\ \A i \in Own : ptrs[i].ptr = p => i = s
    BY <1>5, <1>10
  <2>2. \A i \in Own : ptrs'[i].ptr \in Addr => ptrs'[i] = ptrs[i] /\ ptrs[i].ptr # p
    BY <1>1, <1>4, <1>6, <2>1 DEF Own, TypeOK
  <2> QED BY <1>4, <2>1, <2>2 DEF Sound, TypeOK
<1> QED BY <1>5, <1>7, <1>8, <1>9, <1>10

\* Opening and closing the tracker, and the calls that touch neither table
\* nor heap.
LEMMA OtherStep ==
  ASSUME TableInv,
         \/ GcInit \/ GcClose \/ NullAnswer \/ FreeNull
         \/ \E p \in held : ReallocAssert(p)
         \/ \E p \in Addr : FreeNotFound(p)
         \/ UNCHANGED gcVars
  PROVE  TableInv'
<1> USE DEF TableInv, TypeOK, HeldIsAllocated, NoDoubleFree, Sound, Waiting, Own, LengthOK
<1>1. CASE GcInit
  <2>1. IncCount \in Nat \ {0} /\ IncCount % ByteLength = 0 /\ IncCount % IncCount = 0
    BY GcIncCount
  <2>2. NoCell.ptr = Null /\ NoCell \in AnyCell
    BY DEF NoCell, Cell, AnyCell
  <2> QED BY <1>1, <2>1, <2>2 DEF GcInit
<1>2. CASE GcClose
  <2>1. 0 % ByteLength = 0 /\ 0 % IncCount = 0
    BY GcBytes, GcIncCount
  <2> QED BY <1>2, <2>1 DEF GcClose
<1>3. CASE \/ NullAnswer \/ FreeNull \/ UNCHANGED gcVars
           \/ \E p \in held : ReallocAssert(p)
           \/ \E p \in Addr : FreeNotFound(p)
  <2>1. UNCHANGED <<len, bits, ptrs, total, heap, held, writer, misled>>
    BY <1>3 DEF NullAnswer, FreeNull, ReallocAssert, FreeNotFound, gcVars
  <2>2. /\ rc' # "double_free" \/ rc' = rc
        /\ rc' \in {"none", "ok", "null", "not_found", "is_null", "double_free", "assert"}
        /\ ctx' = ctx \/ ctx' = "aborted"
    BY <1>3 DEF NullAnswer, FreeNull, ReallocAssert, FreeNotFound, gcVars
  <2> QED BY <2>1, <2>2 DEF Unzeroed
<1> QED BY <1>1, <1>2, <1>3

\* The inductive invariant.
LEMMA TableInductive == Spec => []TableInv
<1>1. Init => TableInv
  <2>1. 0 % ByteLength = 0 /\ 0 % IncCount = 0
    BY GcBytes, GcIncCount
  <2>2. Init => TypeOK
    <3> SUFFICES ASSUME Init PROVE TypeOK
      OBVIOUS
    <3>1. len = 0 /\ 0..len-1 = {} /\ total = 0 /\ held = {} /\ misled = FALSE
      BY DEF Init
    <3>2. /\ bits \in [0..len-1 -> {0, 1}] /\ ptrs \in [0..len-1 -> AnyCell]
          /\ writer \in [0..len-1 -> {"tracker", "realloc", "stray"}]
      BY <3>1 DEF Init
    <3>3. heap \in [Addr -> {0} \cup Sizes]
      BY DEF Init
    <3>4. ctx = "null" /\ rc = "none" /\ 0 \in 0..SizeMax
      BY DEF Init
    <3> QED BY <2>1, <3>1, <3>2, <3>3, <3>4 DEF TypeOK
  <2>3. Init => LengthOK /\ HeldIsAllocated /\ NoDoubleFree /\ Sound /\ Waiting
    BY <2>1 DEF Init, HeldIsAllocated, NoDoubleFree, Sound, Waiting, Own, LengthOK
  <2> QED BY <2>2, <2>3 DEF TableInv
<1>2. TableInv /\ [Next]_gcVars => TableInv'
  BY MallocStep, MallocGrowStep, ReallocStep, ReallocNullStep, FreeStep, OtherStep
     DEF Next
<1> QED BY <1>1, <1>2, PTL DEF Spec

\* In a sound table a search goes past the tracker's own cell of a block only if it ends before
\* it, at a cell that a growth spoiled.
LEMMA SoundTable ==
  ASSUME TableInv
  PROVE  TableIsAllocated
<1> USE DEF TableInv
<1>1. ASSUME ~misled, NEW i \in Own, ptrs[i].ptr \in Addr
      PROVE  LET s == SlotOf(ptrs[i].ptr)
             IN  s = i \/ writer[s] = "stray" \/ Unzeroed(s)
  <2> DEFINE s == SlotOf(ptrs[i].ptr)
  <2>1. Sound /\ Waiting /\ len \in Nat
    BY <1>1 DEF TypeOK
  <2>2. i \in 0..len-1 /\ writer[i] = "tracker"
    BY DEF Own
  <2>3. i \in Slots(ptrs[i].ptr)
    BY <2>2 DEF Slots
  <2>4. s \in 0..len-1 /\ ptrs[s].ptr = ptrs[i].ptr /\ s <= i
    BY <2>2, <2>3, SlotFound
  <2> HIDE DEF s
  <2>5. CASE writer[s] = "tracker"
    <3>1. s \in Own
      BY <2>4, <2>5 DEF Own
    <3> QED BY <1>1, <2>1, <2>4, <3>1 DEF Sound, s
  <2>6. CASE writer[s] = "realloc"
    <3>1. s < i
      BY <2>1, <2>2, <2>4, <2>6
    <3> QED BY <2>1, <2>2, <2>4, <2>6, <3>1 DEF Waiting, s
  <2>7. writer[s] \in {"tracker", "realloc", "stray"}
    BY <2>4 DEF TypeOK
  <2> QED BY <2>5, <2>6, <2>7 DEF s
<1> QED BY <1>1 DEF TableIsAllocated, Sound, HeldIsAllocated

(***************************************************************************)
(* As long as no search has ended at a cell that the tracker had not       *)
(* written, every pointer it wrote into its table is an allocated block of *)
(* recorded size, in one such cell only, and a search for that block ends  *)
(* there unless a cell that a growth spoiled comes first: for any memory   *)
(* that realloc leaves in the table, addresses of blocks included.         *)
(***************************************************************************)
THEOREM TableCorrect == Spec => []TableIsAllocated
<1>1. TableInv => TableIsAllocated
  BY SoundTable
<1> QED BY <1>1, TableInductive, PTL

(***************************************************************************)
(* Until a search ends at a cell that the tracker had not written,         *)
(* gfc_gc_free never passes libc a pointer that is not allocated.          *)
(***************************************************************************)
THEOREM FreeCorrect == Spec => []NoDoubleFree
<1>1. TableInv => NoDoubleFree
  BY DEF TableInv
<1> QED BY <1>1, TableInductive, PTL

-----------------------------------------------------------------------------
\* A set bit that gfc_gc_malloc has written stands for a cell in use.
GrowthInv ==
  \A i \in 0..len-1 : bits[i] = 1 => ptrs[i] # NoCell \/ Unzeroed(i) \/ writer[i] = "stray"

LEMMA GrowthStep ==
  ASSUME TableInv, GrowthInv, [Next]_gcVars
  PROVE  GrowthInv'
<1> USE DEF GrowthInv
<1>0. TypeOK /\ LengthOK
  BY DEF TableInv
<1>1. len \in Nat /\ IncCount \in Nat \ {0} /\ ByteLength \in Nat \ {0}
  BY <1>0, NewSlots
<1>2. ASSUME NEW a \in Pick(FreeAddr), NEW n \in Sizes, Malloc(a, n) PROVE GrowthInv'
  <2>1. a # Null
    BY <1>0, PickFree
  <2>2. FirstFree \in 0..len-1 /\ len' = len
    BY <1>0, <1>1, <1>2, FirstFreeFound DEF Malloc
  <2>3. Cell(a, n) # NoCell
    BY <2>1 DEF Cell, NoCell
  <2> QED BY <1>0, <1>2, <2>2, <2>3 DEF Malloc, TypeOK, Unzeroed
<1>3. ASSUME NEW a \in Pick(FreeAddr), NEW n \in Sizes, MallocGrow(a, n) PROVE GrowthInv'
  <2>1. a # Null
    BY <1>0, PickFree
  <2>2. len' = len + IncCount /\ ctx = "ready" /\ len >= IncCount
    BY <1>0, <1>3 DEF MallocGrow, LengthOK
  <2>3. PICK rest \in [LeftBits -> {0, 1}] : bits' = GrownBits(rest)
    BY <1>3 DEF MallocGrow
  <2>4. PICK junk, table :
          /\ ptrs' = [i \in 0..len+IncCount-1 |->
                       IF i < len THEN table[i]
                       ELSE IF i = len THEN Cell(a, n) ELSE junk[i - len]]
          /\ writer' = [i \in 0..len+IncCount-1 |->
                         IF i < len THEN IF table[i] = ptrs[i] THEN writer[i] ELSE "stray"
                         ELSE IF i = len THEN "tracker" ELSE "realloc"]
    BY <1>3 DEF MallocGrow
  <2>5. Cell(a, n) # NoCell
    BY <2>1 DEF Cell, NoCell
  <2>6. ASSUME NEW i \in 0..len'-1, bits'[i] = 1
        PROVE  ptrs'[i] # NoCell \/ Unzeroed(i) \/ writer'[i] = "stray"
    <3>1. CASE i < len
      <4>1. i \in 0..len-1 /\ bits[i] = 1
        BY <1>1, <2>2, <2>3, <2>6, <3>1 DEF GrownBits
      <4>2. CASE table[i] = ptrs[i]
        BY <1>1, <2>2, <2>4, <4>1, <4>2
      <4>3. CASE table[i] # ptrs[i]
        BY <1>1, <2>2, <2>4, <4>1, <4>3
      <4> QED BY <4>2, <4>3
    <3>2. CASE i = len
      BY <1>1, <2>2, <2>4, <2>5, <3>2
    <3>3. CASE i > len
      <4>1. i >= len + ByteLength /\ i \in len..len+IncCount-1
        BY <1>1, <2>2, <2>3, <2>6, <3>3 DEF GrownBits
      <4>2. i % IncCount = i - len
        BY <1>0, <4>1, NewSlots
      <4> QED BY <1>1, <2>2, <4>1, <4>2 DEF Unzeroed
    <3> QED BY <1>1, <3>1, <3>2, <3>3
  <2> QED BY <2>6
<1>4. ASSUME NEW p \in held, NEW n \in Sizes,
             \/ \E a \in Pick(FreeAddr \cup {p}) : Realloc(p, a, n)
             \/ ReallocNull(p, n)
      PROVE GrowthInv'
  <2> DEFINE s == SlotOf(p)
  <2>1. s \in 0..len-1 /\ UNCHANGED <<len, bits>> /\ writer' = [writer EXCEPT ![s] = "tracker"]
    BY <1>0, <1>4, SlotFound DEF Realloc, ReallocNull, CellWritten
  <2>2. PICK a : ptrs' = [ptrs EXCEPT ![s] = Cell(a, n)]
    BY <1>4 DEF Realloc, ReallocNull
  <2> HIDE DEF s
  <2>3. Cell(a, n) # NoCell
    BY DEF Cell, NoCell
  <2> QED BY <1>0, <2>1, <2>2, <2>3 DEF Unzeroed, TypeOK
<1>5. ASSUME NEW p \in Addr, Free(p) PROVE GrowthInv'
  <2>1. SlotOf(p) \in 0..len-1 /\ len' = len
    BY <1>0, <1>5, SlotFound DEF Free
  <2>2. bits'[SlotOf(p)] = 0 /\ \A i \in 0..len-1 : bits'[i] = 1 => bits[i] = 1
    BY <1>0, <1>5, <2>1 DEF Free, Cleared, TypeOK
  <2>3. \A i \in 0..len-1 : i # SlotOf(p) => ptrs'[i] = ptrs[i] /\ writer'[i] = writer[i]
    BY <1>0, <1>5 DEF Free, CellWritten, TypeOK
  <2> QED BY <2>1, <2>2, <2>3 DEF Unzeroed
<1>6. CASE GcInit
  BY <1>1, <1>6 DEF GcInit
<1>7. CASE GcClose
  BY <1>1, <1>7 DEF GcClose
<1>8. CASE \/ NullAnswer \/ FreeNull \/ UNCHANGED gcVars
           \/ \E p \in held : ReallocAssert(p)
           \/ \E p \in Addr : FreeNotFound(p)
  BY <1>8 DEF NullAnswer, FreeNull, ReallocAssert, FreeNotFound, gcVars, Unzeroed
<1> QED BY <1>2, <1>3, <1>4, <1>5, <1>6, <1>7, <1>8 DEF Next

\* Only gfc_gc_malloc with no bit clear makes a table longer.
LEMMA GrowsWhenAllSet ==
  ASSUME TableInv, [Next]_gcVars, len # 0, len' > len
  PROVE  \A i \in 0..len-1 : bits[i] = 1
<1>0. TypeOK /\ LengthOK
  BY DEF TableInv
<1>1. len' = len \/ len' = 0 \/ FirstFree = len
  BY <1>0 DEF Next, GcInit, GcClose, NullAnswer, FreeNull, Malloc, MallocGrow, Realloc, ReallocNull,
     ReallocAssert, Free, FreeNotFound, LengthOK, gcVars
<1>2. FirstFree = len
  BY <1>0, <1>1 DEF TypeOK
<1> QED BY <1>0, <1>2, FirstFreeBit DEF TypeOK

LEMMA GrowthInductive == Spec => []GrowthInv
<1>1. Init => GrowthInv
  BY DEF Init, GrowthInv
<1>2. TableInv /\ GrowthInv /\ [Next]_gcVars => GrowthInv'
  BY GrowthStep
<1> QED BY <1>1, <1>2, TableInductive, PTL DEF Spec

(***************************************************************************)
(* gfc_gc_malloc lengthens the table only when every slot is in use, those *)
(* apart whose bit realloc left set and one that the stray byte emptied:   *)
(* for any GFC_GC_INC_COUNT, any memory that realloc leaves, lost slots    *)
(* and failing realloc calls.                                              *)
(***************************************************************************)
THEOREM GrowsCorrect == Spec => GrowsOnlyWhenFull
<1>1. TableInv /\ GrowthInv /\ [Next]_gcVars
        => [len # 0 /\ len' > len =>
              \A i \in 0..len-1 : ptrs[i] # NoCell \/ Unzeroed(i) \/ writer[i] = "stray"]_gcVars
  BY GrowsWhenAllSet DEF GrowthInv
<1> QED BY <1>1, TableInductive, GrowthInductive, PTL DEF Spec, GrowsOnlyWhenFull

\* A slot the tracker gave to a block has its bit set, the first slot of a byte apart, until a
\* search ends at a cell it had not written.
SlotsMarked ==
  ~misled => \A i \in Own : ptrs[i].ptr \in Addr /\ i % ByteLength # 0 => bits[i] = 1

\* A slot is the bit of one byte.
LEMMA OneSlot ==
  ASSUME NEW i \in Nat, NEW k \in Nat, NEW B \in Nat \ {0},
         i \div B = k \div B, i % B = k % B
  PROVE  i = k
<1> DEFINE q == i \div B
           r == i % B
           x == k \div B
           y == k % B
<1>1. i = B * q + r /\ k = B * x + y /\ q = x /\ r = y
  OBVIOUS
<1> HIDE DEF q, r, x, y
<1> QED BY <1>1

LEMMA SlotsMarkedStep ==
  ASSUME TableInv, SlotsMarked, [Next]_gcVars
  PROVE  SlotsMarked'
<1> USE DEF SlotsMarked
<1>0. TypeOK /\ LengthOK /\ (~misled => Sound /\ Waiting)
  BY DEF TableInv
<1>1. len \in Nat /\ IncCount \in Nat \ {0} /\ ByteLength \in Nat \ {0} /\ len % ByteLength = 0
  BY <1>0, NewSlots DEF TypeOK
<1>2. ASSUME NEW a \in Pick(FreeAddr), NEW n \in Sizes, Malloc(a, n) PROVE SlotsMarked'
  <2>1. FirstFree \in 0..len-1 /\ len' = len /\ misled' = misled
    BY <1>0, <1>1, <1>2, FirstFreeFound DEF Malloc, Obtain
  <2>2. \A i \in 0..len-1 :
          /\ bits'[i] = IF i = FirstFree THEN 1 ELSE bits[i]
          /\ i # FirstFree => ptrs'[i] = ptrs[i] /\ writer'[i] = writer[i]
    BY <1>0, <1>2, <2>1 DEF Malloc, TypeOK
  <2> QED BY <2>1, <2>2 DEF Own
<1>3. ASSUME NEW a \in Pick(FreeAddr), NEW n \in Sizes, MallocGrow(a, n) PROVE SlotsMarked'
  <2>1. len' = len + IncCount /\ misled' = misled
    BY <1>3 DEF MallocGrow, Obtain
  <2>2. PICK rest \in [LeftBits -> {0, 1}] : bits' = GrownBits(rest)
    BY <1>3 DEF MallocGrow
  <2>3. PICK junk, table :
          /\ ptrs' = [i \in 0..len+IncCount-1 |->
                       IF i < len THEN table[i]
                       ELSE IF i = len THEN Cell(a, n) ELSE junk[i - len]]
          /\ writer' = [i \in 0..len+IncCount-1 |->
                         IF i < len THEN IF table[i] = ptrs[i] THEN writer[i] ELSE "stray"
                         ELSE IF i = len THEN "tracker" ELSE "realloc"]
    BY <1>3 DEF MallocGrow
  <2>4. ASSUME NEW i \in Own', i % ByteLength # 0
        PROVE  i \in Own /\ ptrs'[i] = ptrs[i] /\ bits'[i] = bits[i]
    <3>1. i \in 0..len+IncCount-1 /\ writer'[i] = "tracker"
      BY <1>1, <2>1, <2>4 DEF Own
    <3>2. i # len
      BY <1>1, <2>4
    <3>3. i < len
      BY <1>1, <2>3, <3>1, <3>2
    <3>4. i \in 0..len-1
      BY <1>1, <3>1, <3>3
    <3>5. table[i] = ptrs[i]
      BY <2>3, <3>1, <3>3
    <3> QED BY <2>2, <2>3, <3>1, <3>3, <3>4, <3>5 DEF GrownBits, Own
  <2> QED BY <2>1, <2>4
<1>4. ASSUME NEW p \in held, NEW n \in Sizes,
             \/ \E a \in Pick(FreeAddr \cup {p}) : Realloc(p, a, n)
             \/ ReallocNull(p, n)
      PROVE SlotsMarked'
  <2> DEFINE s == SlotOf(p)
  <2>1. /\ s \in 0..len-1 /\ ptrs[s].ptr = p /\ p \in Addr /\ UNCHANGED <<len, bits>>
        /\ misled' = (misled \/ writer[s] # "tracker")
        /\ writer' = [writer EXCEPT ![s] = "tracker"]
    BY <1>0, <1>4, SlotFound DEF Realloc, ReallocNull, CellWritten, TypeOK
  <2>2. PICK a : ptrs' = [ptrs EXCEPT ![s] = Cell(a, n)]
    BY <1>4 DEF Realloc, ReallocNull
  <2> HIDE DEF s
  <2> SUFFICES ASSUME ~misled', NEW i \in Own', ptrs'[i].ptr \in Addr, i % ByteLength # 0
               PROVE  bits'[i] = 1
    OBVIOUS
  <2>3. ~misled /\ writer' = writer /\ i \in Own /\ i \in 0..len-1 /\ s \in Own
    BY <1>0, <2>1 DEF Own, TypeOK
  <2>4. CASE i = s
    BY <2>1, <2>3, <2>4
  <2>5. CASE i # s
    BY <1>0, <2>1, <2>2, <2>3, <2>5 DEF TypeOK
  <2> QED BY <2>4, <2>5
<1>5. ASSUME NEW p \in Addr, Free(p) PROVE SlotsMarked'
  <2> DEFINE s == SlotOf(p)
  <2>1. /\ s \in 0..len-1 /\ len' = len
        /\ misled' = (misled \/ writer[s] # "tracker")
        /\ writer' = [writer EXCEPT ![s] = "tracker"]
        /\ ptrs' = [ptrs EXCEPT ![s] = NoCell]
    BY <1>0, <1>5, SlotFound DEF Free, CellWritten
  <2>2. NoCell.ptr \notin Addr
    BY DEF NoCell, Cell
  <2>3. bits' = [i \in 0..len-1 |->
                  IF i \div ByteLength = s \div ByteLength /\ i % ByteLength \in Cleared(s % ByteLength)
                  THEN 0 ELSE bits[i]]
    BY <1>5 DEF Free
  <2> HIDE DEF s
  <2>4. ASSUME NEW i \in 0..len-1, i # s, i % ByteLength # 0 PROVE bits'[i] = bits[i]
    <3>1. ~(i \div ByteLength = s \div ByteLength /\ i % ByteLength = s % ByteLength)
      <4>1. i \in Nat /\ s \in Nat
        BY <1>1, <2>1
      <4> QED BY <1>1, <2>4, <4>1, OneSlot
    <3>2. i % ByteLength \in Cleared(s % ByteLength) => i % ByteLength = s % ByteLength
      BY <2>4 DEF Cleared
    <3> QED BY <2>3, <3>1, <3>2
  <2> SUFFICES ASSUME ~misled', NEW i \in Own', ptrs'[i].ptr \in Addr, i % ByteLength # 0
               PROVE  bits'[i] = 1
    OBVIOUS
  <2>5. ~misled /\ writer' = writer /\ i \in Own /\ i \in 0..len-1
    BY <1>0, <2>1 DEF Own, TypeOK
  <2>6. i # s /\ ptrs'[i] = ptrs[i]
    BY <1>0, <2>1, <2>2, <2>5 DEF TypeOK
  <2> QED BY <2>4, <2>5, <2>6
<1>6. CASE GcInit \/ GcClose
  <2>1. \A i \in 0..len'-1 : ptrs'[i] = NoCell
    <3>1. CASE GcInit
      BY <1>1, <3>1 DEF GcInit
    <3>2. CASE GcClose
      BY <3>2 DEF GcClose
    <3> QED BY <1>6, <3>1, <3>2
  <2>2. NoCell.ptr \notin Addr
    BY DEF NoCell, Cell
  <2> QED BY <2>1, <2>2 DEF Own
<1>7. CASE \/ NullAnswer \/ FreeNull \/ UNCHANGED gcVars
           \/ \E p \in held : ReallocAssert(p)
           \/ \E p \in Addr : FreeNotFound(p)
  BY <1>7 DEF NullAnswer, FreeNull, ReallocAssert, FreeNotFound, gcVars, Own
<1> QED BY <1>2, <1>3, <1>4, <1>5, <1>6, <1>7 DEF Next

(***************************************************************************)
(* The mask of case 6 (line 339) can hand only the first slot of a byte to *)
(* a second block: the bit of every other slot the tracker gave to a block *)
(* stays set, so gfc_gc_malloc does not overwrite its cell, until a search *)
(* ends at a cell that the tracker had not written.                        *)
(***************************************************************************)
THEOREM OnlyFirstSlotsLost == Spec => []SlotsMarked
<1>1. Init => SlotsMarked
  BY DEF Init, SlotsMarked, Own
<1>2. TableInv /\ SlotsMarked /\ [Next]_gcVars => SlotsMarked'
  BY SlotsMarkedStep
<1> QED BY <1>1, <1>2, TableInductive, PTL DEF Spec

-----------------------------------------------------------------------------
\* As many blocks as the bitmap tells apart: freeing slot 6 clears bit 0 too.
FewHeld == Cardinality(held) <= 6

\* The bytes and the masks of the code, libc resizing any block.
AsCoded == ByteLength = 8 /\ WrongCase = 6 /\ Unresizable = {}

\* While no more are held, a ready tracker keeps them in its first six slots,
\* and a bit is set exactly where a block is.  The table does not grow, so every cell is the
\* tracker's.
FewInv ==
  /\ IsFiniteSet(held)
  /\ ~misled /\ \A i \in 0..len-1 : writer[i] = "tracker"
  /\ ctx # "aborted"
  /\ ctx # "ready" => held = {}
  /\ ctx = "ready" =>
       /\ len >= 8
       /\ \A i \in 0..len-1 : bits[i] = 1 => i < 6 /\ ptrs[i].ptr \in Addr
       /\ \A i \in 0..len-1 : bits[i] # 1 => ptrs[i] = NoCell
       /\ \A p \in held : \E i \in 0..len-1 : ptrs[i].ptr = p

\* What the invariants say then of every cell.
LEMMA FewCells ==
  ASSUME TableInv, FewInv
  PROVE  /\ TypeOK /\ HeldIsAllocated /\ len \in Nat
         /\ \A i \in 0..len-1 : ptrs[i].ptr \in Addr =>
              ptrs[i].ptr \in held /\ ptrs[i].total = heap[ptrs[i].ptr]
         /\ \A i, k \in 0..len-1 : ptrs[i].ptr = ptrs[k].ptr /\ ptrs[i].ptr \in Addr => i = k
<1>1. Own = 0..len-1 /\ ~misled
  BY DEF FewInv, Own
<1>2. TypeOK /\ HeldIsAllocated /\ Sound
  BY <1>1 DEF TableInv
<1> QED BY <1>1, <1>2 DEF Sound, TypeOK

\* Fewer than six blocks leave one of the first six slots free.
LEMMA RoomForSix ==
  ASSUME TableInv, FewInv, ctx = "ready", Cardinality(held) < 6
  PROVE  FirstFree < 6
<1> SUFFICES ASSUME ~(FirstFree < 6) PROVE FALSE
  OBVIOUS
<1>1. TypeOK /\ len \in Nat /\ len >= 8 /\ FirstFree \in Nat
  BY FirstFreeFound DEF TableInv, FewInv, TypeOK
<1>2. \A i \in 0..5 : i \in 0..len-1 /\ ptrs[i].ptr \in Addr
  <2> TAKE i \in 0..5
  <2>1. i \in 0..len-1 /\ i < FirstFree
    BY <1>1
  <2>2. bits[i] = 1
    BY <1>1, <2>1, FirstFreeLeast
  <2> QED BY <2>1, <2>2 DEF FewInv
<1> DEFINE f == [i \in 0..5 |-> ptrs[i].ptr]
<1>3. f \in [0..5 -> held]
  BY <1>1, <1>2, FewCells
<1>4. \A i, k \in 0..5 : f[i] = f[k] => i = k
  BY <1>1, <1>2, FewCells
<1>5. f \in Injection(0..5, held)
  BY <1>3, <1>4 DEF Injection, IsInjective
<1>6. IsFiniteSet(held) /\ Cardinality(held) \in Nat
  BY FS_CardinalityType DEF FewInv
<1> HIDE DEF f
<1>7. Cardinality(0..5) <= Cardinality(held)
  BY <1>5, <1>6, FS_Injection
<1>8. Cardinality(0..5) = 6
  <2>1. 0 \in Int /\ 5 \in Int /\ ~(0 > 5) /\ 5 - 0 + 1 = 6
    OBVIOUS
  <2> QED BY <2>1, FS_Interval
<1> QED BY <1>6, <1>7, <1>8

\* The cell of a block is one of the first six, and freeing it clears its bit only.
LEMMA FewSlot ==
  ASSUME TableInv, FewInv, AsCoded, ctx = "ready", NEW p \in Addr, Slots(p) # {}
  PROVE  /\ SlotOf(p) \in 0..5 /\ SlotOf(p) \in 0..len-1
         /\ ptrs[SlotOf(p)].ptr = p /\ bits[SlotOf(p)] = 1
         /\ p \in held /\ ptrs[SlotOf(p)].total = heap[p] /\ heap[p] \in Sizes
         /\ Cleared(SlotOf(p) % 8) = {SlotOf(p)}
<1>1. TypeOK
  BY DEF TableInv
<1>2. SlotOf(p) \in 0..len-1 /\ ptrs[SlotOf(p)].ptr = p /\ len \in Nat
  BY <1>1, SlotFound DEF TypeOK
<1>3. bits[SlotOf(p)] = 1
  BY <1>2 DEF FewInv, NoCell, Cell
<1>4. SlotOf(p) \in 0..5
  BY <1>2, <1>3 DEF FewInv
<1>5. p \in held /\ ptrs[SlotOf(p)].total = heap[p] /\ heap[p] \in Sizes
  BY <1>1, <1>2, FewCells DEF HeldIsAllocated, TypeOK
<1> HIDE GcSizes, GcPick
<1>6. SlotOf(p) % 8 = SlotOf(p)
  BY <1>4
<1>7. Cleared(SlotOf(p) % 8) = {SlotOf(p)}
  BY <1>4, <1>6 DEF Cleared, AsCoded
<1> QED BY <1>2, <1>3, <1>4, <1>5, <1>7

\* What gfc_gc_malloc finds: a slot behind which nothing is lost.
LEMMA FewMalloc ==
  ASSUME TableInv, FewInv, FewHeld', NEW a \in Pick(FreeAddr), NEW n \in Sizes,
         Malloc(a, n) \/ MallocGrow(a, n)
  PROVE  /\ Malloc(a, n) /\ ctx = "ready"
         /\ FirstFree \in 0..5 /\ FirstFree \in 0..len-1 /\ ptrs[FirstFree] = NoCell
         /\ a \in Addr /\ a \notin held /\ IsFiniteSet(held \cup {a})
<1>1. a \in Addr /\ a \notin held /\ TypeOK
  BY PickFree DEF TableInv, HeldIsAllocated
<1>2. held' = held \cup {a} /\ ctx = "ready"
  BY DEF Malloc, MallocGrow, Obtain
<1>3. IsFiniteSet(held \cup {a}) /\ Cardinality(held \cup {a}) = Cardinality(held) + 1
  BY <1>1, FS_AddElement DEF FewInv
<1>4. Cardinality(held) < 6
  <2>1. Cardinality(held) \in Nat
    BY FS_CardinalityType DEF FewInv
  <2> QED BY <1>2, <1>3, <2>1 DEF FewHeld
<1>5. FirstFree < 6 /\ FirstFree \in Nat /\ len \in Nat /\ len >= 8
  BY <1>1, <1>2, <1>4, RoomForSix, FirstFreeFound DEF FewInv, TypeOK
<1>6. Malloc(a, n)
  BY <1>5 DEF MallocGrow
<1>7. FirstFree \in 0..5 /\ FirstFree \in 0..len-1
  BY <1>5
<1>8. bits[FirstFree] # 1
  BY <1>1, <1>5, <1>7, FirstFreeBit
<1> QED BY <1>1, <1>2, <1>3, <1>6, <1>7, <1>8 DEF FewInv

LEMMA FewStep ==
  ASSUME TableInv, FewInv, FewHeld', AsCoded, [Next]_gcVars
  PROVE  FewInv'
<1>0. TypeOK
  BY DEF TableInv
<1>1. ASSUME NEW a \in Pick(FreeAddr), NEW n \in Sizes, Malloc(a, n) \/ MallocGrow(a, n)
      PROVE  FewInv'
  <2> DEFINE f == FirstFree
  <2>1. /\ Malloc(a, n) /\ ctx = "ready" /\ f \in 0..5 /\ f \in 0..len-1 /\ ptrs[f] = NoCell
        /\ a \in Addr /\ IsFiniteSet(held \cup {a})
    BY <1>1, FewMalloc
  <2>2. /\ bits' = [bits EXCEPT ![f] = 1] /\ ptrs' = [ptrs EXCEPT ![f] = Cell(a, n)]
        /\ writer' = [writer EXCEPT ![f] = "tracker"]
        /\ held' = held \cup {a} /\ UNCHANGED <<len, ctx, misled>>
    BY <2>1 DEF Malloc, Obtain
  <2> HIDE DEF f
  <2>3. \A i \in 0..len-1 :
          /\ bits'[i] = IF i = f THEN 1 ELSE bits[i]
          /\ ptrs'[i] = IF i = f THEN Cell(a, n) ELSE ptrs[i]
          /\ writer[i] = "tracker" => writer'[i] = "tracker"
    BY <1>0, <2>1, <2>2 DEF TypeOK
  <2>4. Cell(a, n).ptr = a /\ NoCell.ptr = Null
    BY DEF Cell, NoCell
  <2>5. held \subseteq Addr
    BY <1>0 DEF TypeOK
  <2>6. \A p \in held' : \E i \in 0..len'-1 : ptrs'[i].ptr = p
    <3> TAKE p \in held'
    <3>1. CASE p = a
      BY <2>1, <2>2, <2>3, <2>4, <3>1
    <3>2. CASE p # a
      <4>1. p \in held
        BY <2>2, <3>2
      <4>2. PICK i \in 0..len-1 : ptrs[i].ptr = p
        BY <2>1, <4>1 DEF FewInv
      <4>3. i # f
        BY <2>1, <2>4, <2>5, <4>1, <4>2
      <4> QED BY <2>2, <2>3, <4>2, <4>3
    <3> QED BY <3>1, <3>2
  <2> QED BY <2>1, <2>2, <2>3, <2>4, <2>6 DEF FewInv
<1>2. ASSUME NEW p \in held, NEW n \in Sizes, NEW a \in Pick(FreeAddr \cup {p}), Realloc(p, a, n)
      PROVE  FewInv'
  <2> DEFINE s == SlotOf(p)
  <2>1. a \in Addr /\ p \in Addr
    BY <1>0, PickFree DEF TypeOK
  <2>2. s \in 0..5 /\ s \in 0..len-1 /\ ptrs[s].ptr = p /\ bits[s] = 1 /\ ctx = "ready"
    BY <1>2, <2>1, FewSlot DEF Realloc
  <2>3. /\ ptrs' = [ptrs EXCEPT ![s] = Cell(a, n)] /\ held' = (held \ {p}) \cup {a}
        /\ UNCHANGED <<ctx, len, bits, writer, misled>>
    BY <1>0, <1>2, <2>2 DEF Realloc, CellWritten, FewInv, TypeOK
  <2> HIDE DEF s
  <2>4. \A i \in 0..len-1 : ptrs'[i] = IF i = s THEN Cell(a, n) ELSE ptrs[i]
    BY <1>0, <2>2, <2>3 DEF TypeOK
  <2>5. Cell(a, n).ptr = a
    BY DEF Cell
  <2>6. IsFiniteSet(held')
    <3>1. IsFiniteSet(held \ {p})
      BY FS_RemoveElement DEF FewInv
    <3> QED BY <2>3, <3>1, FS_AddElement
  <2>7. \A q \in held' : \E i \in 0..len'-1 : ptrs'[i].ptr = q
    <3> TAKE q \in held'
    <3>1. CASE q = a
      BY <2>2, <2>3, <2>4, <2>5, <3>1
    <3>2. CASE q # a
      <4>1. q \in held /\ q # p
        BY <2>3, <3>2
      <4>2. PICK i \in 0..len-1 : ptrs[i].ptr = q
        BY <2>2, <4>1 DEF FewInv
      <4> QED BY <2>2, <2>3, <2>4, <4>1, <4>2
    <3> QED BY <3>1, <3>2
  <2> QED BY <2>1, <2>2, <2>3, <2>4, <2>5, <2>6, <2>7 DEF FewInv
<1>3. ASSUME NEW p \in Addr, Free(p) PROVE FewInv'
  <2> DEFINE s == SlotOf(p)
  <2>1. /\ s \in 0..5 /\ s \in 0..len-1 /\ ptrs[s].ptr = p /\ ctx = "ready"
        /\ Cleared(s % 8) = {s} /\ ByteLength = 8
    BY <1>3, FewSlot DEF Free, AsCoded
  <2>2. /\ bits' = [i \in 0..len-1 |->
                      IF i \div 8 = s \div 8 /\ i % 8 \in Cleared(s % 8) THEN 0 ELSE bits[i]]
        /\ ptrs' = [ptrs EXCEPT ![s] = NoCell] /\ held' = held \ {p}
        /\ UNCHANGED <<ctx, len, writer, misled>>
    BY <1>0, <1>3, <2>1 DEF Free, CellWritten, FewInv, TypeOK
  <2> HIDE DEF s
  <2>3. \A i \in 0..len-1 :
          /\ ptrs'[i] = IF i = s THEN NoCell ELSE ptrs[i]
          /\ bits'[i] = IF i = s THEN 0 ELSE bits[i]
    <3> TAKE i \in 0..len-1
    <3>1. ptrs'[i] = IF i = s THEN NoCell ELSE ptrs[i]
      BY <1>0, <2>2 DEF TypeOK
    <3>2. (i \div 8 = s \div 8 /\ i % 8 = s) <=> i = s
      <4>1. len \in Nat
        BY <1>0 DEF TypeOK
      <4> HIDE GcSizes, GcPick
      <4> QED BY <2>1, <4>1
    <3>3. bits'[i] = IF i \div 8 = s \div 8 /\ i % 8 = s THEN 0 ELSE bits[i]
      BY <2>1, <2>2
    <3> QED BY <3>1, <3>2, <3>3
  <2>4. IsFiniteSet(held')
    BY <2>2, FS_RemoveElement DEF FewInv
  <2>5. \A q \in held' : \E i \in 0..len'-1 : ptrs'[i].ptr = q
    <3> TAKE q \in held'
    <3>1. q \in held /\ q # p
      BY <2>2
    <3>2. PICK i \in 0..len-1 : ptrs[i].ptr = q
      BY <2>1, <3>1 DEF FewInv
    <3> QED BY <2>1, <2>2, <2>3, <3>1, <3>2
  <2> QED BY <2>1, <2>2, <2>3, <2>4, <2>5 DEF FewInv
<1>4. CASE GcInit
  <2>1. IncCount \in Nat /\ IncCount >= 8
    BY GcIncCount DEF AsCoded
  <2> QED BY <1>4, <2>1 DEF GcInit, FewInv
<1>5. CASE GcClose
  BY <1>5, FS_EmptySet DEF GcClose, FewInv
<1>6. CASE \E p \in held : ReallocAssert(p)
  BY <1>6 DEF ReallocAssert, Slots, FewInv
<1>7. CASE \E p \in held, n \in Sizes : ReallocNull(p, n)
  BY <1>7 DEF ReallocNull, AsCoded
<1>8. CASE \/ NullAnswer \/ FreeNull \/ UNCHANGED gcVars \/ \E p \in Addr : FreeNotFound(p)
  BY <1>8 DEF NullAnswer, FreeNull, FreeNotFound, gcVars, FewInv
<1> QED BY <1>1, <1>2, <1>3, <1>4, <1>5, <1>6, <1>7, <1>8 DEF Next

LEMMA FewInductive ==
  ASSUME AsCoded
  PROVE  Spec /\ []FewHeld => []FewInv
<1>1. Init => FewInv
  BY FS_EmptySet DEF Init, FewInv
<1>2. TableInv /\ FewInv /\ FewHeld' /\ [Next]_gcVars => FewInv'
  BY FewStep
<1> QED BY <1>1, <1>2, TableInductive, PTL DEF Spec

(***************************************************************************)
(* While no client holds more than six blocks at a time, however many it   *)
(* allocates and frees, gfc_gc_free finds every block that is held.        *)
(***************************************************************************)
THEOREM FewBlocksTracked ==
  ASSUME AsCoded
  PROVE  Spec /\ []FewHeld => []HeldIsTracked
<1>1. TableInv /\ FewInv => HeldIsTracked
  <2> SUFFICES ASSUME TableInv, FewInv, ctx = "ready", NEW p \in held
               PROVE  \E i \in 0..len-1 : ptrs[i].ptr = p /\ bits[i] = 1
    BY DEF HeldIsTracked
  <2>1. p \in Addr
    BY DEF TableInv, TypeOK
  <2>2. PICK i \in 0..len-1 : ptrs[i].ptr = p
    BY DEF FewInv
  <2>3. bits[i] = 1
    BY <2>1, <2>2 DEF FewInv, NoCell, Cell
  <2> QED BY <2>2, <2>3
<1> QED BY <1>1, TableInductive, FewInductive, PTL

-----------------------------------------------------------------------------
\* Six blocks together are no larger than the largest size_t.
SizesFit == \A n \in Sizes : 6 * n <= SizeMax

SumOf(cells) == cells[0].total + cells[1].total + cells[2].total
                  + cells[3].total + cells[4].total + cells[5].total

\* The total is what the six slots hold.
TotalInv == total = IF ctx = "ready" THEN SumOf(ptrs) ELSE 0

\* Replacing one of the six terms replaces it in the sum, which cannot wrap.
LEMMA SumOfSix ==
  ASSUME NEW f, NEW g, NEW s \in 0..5, NEW x \in Nat,
         \A i \in 0..5 : f[i].total \in Nat /\ 6 * f[i].total <= SizeMax,
         6 * x <= SizeMax,
         g[s].total = x, \A i \in 0..5 : i # s => g[i] = f[i]
  PROVE  SumOf(g) = SumOf(f) + x - f[s].total /\ SumOf(g) \in 0..SizeMax
<1>1. s = 0 \/ s = 1 \/ s = 2 \/ s = 3 \/ s = 4 \/ s = 5
  OBVIOUS
<1> HIDE GcSizes, GcPick
<1>2. SizeMax \in Nat
  BY GcSizes
<1>3. /\ f[0].total \in Nat /\ f[1].total \in Nat /\ f[2].total \in Nat
      /\ f[3].total \in Nat /\ f[4].total \in Nat /\ f[5].total \in Nat
      /\ 6 * f[0].total <= SizeMax /\ 6 * f[1].total <= SizeMax /\ 6 * f[2].total <= SizeMax
      /\ 6 * f[3].total <= SizeMax /\ 6 * f[4].total <= SizeMax /\ 6 * f[5].total <= SizeMax
  OBVIOUS
<1>4. CASE s = 0
  <2>1. g[1] = f[1] /\ g[2] = f[2] /\ g[3] = f[3] /\ g[4] = f[4] /\ g[5] = f[5] /\ g[0].total = x
    BY <1>4
  <2>2. f[s].total = f[0].total
    BY <1>4
  <2>3. SumOf(g) = SumOf(f) + x - f[0].total
    BY <1>3, <2>1 DEF SumOf
  <2>4. SumOf(g) \in 0..SizeMax
    BY <1>2, <1>3, <2>1 DEF SumOf
  <2> QED BY <2>2, <2>3, <2>4
<1>5. CASE s = 1
  <2>1. g[0] = f[0] /\ g[2] = f[2] /\ g[3] = f[3] /\ g[4] = f[4] /\ g[5] = f[5] /\ g[1].total = x
    BY <1>5
  <2> QED BY <1>2, <1>3, <1>5, <2>1 DEF SumOf
<1>6. CASE s = 2
  <2>1. g[0] = f[0] /\ g[1] = f[1] /\ g[3] = f[3] /\ g[4] = f[4] /\ g[5] = f[5] /\ g[2].total = x
    BY <1>6
  <2> QED BY <1>2, <1>3, <1>6, <2>1 DEF SumOf
<1>7. CASE s = 3
  <2>1. g[0] = f[0] /\ g[1] = f[1] /\ g[2] = f[2] /\ g[4] = f[4] /\ g[5] = f[5] /\ g[3].total = x
    BY <1>7
  <2> QED BY <1>2, <1>3, <1>7, <2>1 DEF SumOf
<1>8. CASE s = 4
  <2>1. g[0] = f[0] /\ g[1] = f[1] /\ g[2] = f[2] /\ g[3] = f[3] /\ g[5] = f[5] /\ g[4].total = x
    BY <1>8
  <2> QED BY <1>2, <1>3, <1>8, <2>1 DEF SumOf
<1>9. CASE s = 5
  <2>1. g[0] = f[0] /\ g[1] = f[1] /\ g[2] = f[2] /\ g[3] = f[3] /\ g[4] = f[4] /\ g[5].total = x
    BY <1>9
  <2> QED BY <1>2, <1>3, <1>9, <2>1 DEF SumOf
<1> QED BY <1>1, <1>4, <1>5, <1>6, <1>7, <1>8, <1>9

\* The cells of the first six slots: of a block, or empty.
LEMMA FirstSix ==
  ASSUME TableInv, FewInv, SizesFit, ctx = "ready"
  PROVE  /\ \A i \in 0..5 : i \in 0..len-1
         /\ \A i \in 0..5 : ptrs[i].total \in Nat /\ 6 * ptrs[i].total <= SizeMax
<1>1. TypeOK /\ len \in Nat /\ len >= 8
  BY DEF TableInv, FewInv, TypeOK
<1>3. \A n \in Sizes : n \in Nat
  OBVIOUS
<1>2. ASSUME NEW i \in 0..5
      PROVE  i \in 0..len-1 /\ ptrs[i].total \in Nat /\ 6 * ptrs[i].total <= SizeMax
  <2>1. i \in 0..len-1
    BY <1>1
  <2>2. CASE bits[i] = 1
    <3>1. ptrs[i].ptr \in held /\ ptrs[i].total = heap[ptrs[i].ptr]
      BY <1>1, <2>1, <2>2, FewCells DEF FewInv
    <3>2. ptrs[i].total \in Sizes
      BY <1>1, <3>1, FewCells DEF HeldIsAllocated, TypeOK
    <3>3. ptrs[i].total \in Nat
      BY <1>3, <3>2
    <3> HIDE GcSizes, GcPick
    <3> QED BY <2>1, <3>2, <3>3 DEF SizesFit
  <2>3. CASE bits[i] # 1
    <3>1. ptrs[i].total = 0
      BY <2>1, <2>3 DEF FewInv, NoCell, Cell
    <3> QED BY <2>1, <3>1
  <2> QED BY <2>2, <2>3
<1> QED BY <1>2

\* The three calls that change a cell, with the total they leave.
LEMMA FewTotals ==
  ASSUME TableInv, FewInv, TotalInv, FewHeld', SizesFit, AsCoded
  PROVE  /\ \A a \in Pick(FreeAddr), n \in Sizes :
              Malloc(a, n) => total' = total + n /\ TotalInv'
         /\ \A p \in held, n \in Sizes : \A a \in Pick(FreeAddr \cup {p}) :
              Realloc(p, a, n) => total' = total + n - heap[p] /\ TotalInv'
         /\ \A p \in Addr : Free(p) => total' = total - heap[p] /\ TotalInv'
<1>0. TypeOK /\ held \subseteq Addr
  BY DEF TableInv, TypeOK
<1>1. ASSUME NEW a \in Pick(FreeAddr), NEW n \in Sizes, Malloc(a, n)
      PROVE  total' = total + n /\ TotalInv'
  <2> DEFINE s == FirstFree
  <2>0. Malloc(a, n) \/ MallocGrow(a, n)
    BY <1>1
  <2>1. /\ ctx = "ready" /\ s \in 0..5 /\ s \in 0..len-1
        /\ ptrs[s] = NoCell /\ NoCell.total = 0
    BY <2>0, FewMalloc DEF NoCell, Cell
  <2>2. ptrs' = [ptrs EXCEPT ![s] = Cell(a, n)] /\ total' = Wrap(total + n) /\ ctx' = ctx
    BY <1>1 DEF Malloc, Obtain
  <2> HIDE DEF s
  <2>3. ptrs'[s].total = n /\ \A i \in 0..5 : i # s => ptrs'[i] = ptrs[i]
    BY <1>0, <2>1, <2>2, FirstSix DEF TypeOK, Cell
  <2>4. n \in Nat /\ 6 * n <= SizeMax
    BY DEF SizesFit
  <2>5. /\ SumOf(ptrs') = SumOf(ptrs) + n - ptrs[s].total
        /\ SumOf(ptrs') \in 0..SizeMax
    <3>1. \A i \in 0..5 : ptrs[i].total \in Nat /\ 6 * ptrs[i].total <= SizeMax
      BY <2>1, FirstSix
    <3>2. s \in 0..5
      BY <2>1
    <3> QED BY <2>3, <2>4, <3>1, <3>2, SumOfSix
  <2>6. total = SumOf(ptrs) /\ total \in Nat
    BY <1>0, <2>1 DEF TotalInv, TypeOK
  <2> QED BY <2>1, <2>2, <2>4, <2>5, <2>6 DEF TotalInv, Wrap
<1>2. ASSUME NEW p \in held, NEW n \in Sizes, NEW a \in Pick(FreeAddr \cup {p}), Realloc(p, a, n)
      PROVE  total' = total + n - heap[p] /\ TotalInv'
  <2> DEFINE s == SlotOf(p)
  <2>1. ctx = "ready" /\ s \in 0..5 /\ s \in 0..len-1 /\ ptrs[s].total = heap[p]
    BY <1>0, <1>2, FewSlot DEF Realloc
  <2>2. /\ ptrs' = [ptrs EXCEPT ![s] = Cell(a, n)]
        /\ total' = Wrap(total + n - ptrs[s].total) /\ ctx' = ctx
    BY <1>2 DEF Realloc
  <2> HIDE DEF s
  <2>3. ptrs'[s].total = n /\ \A i \in 0..5 : i # s => ptrs'[i] = ptrs[i]
    BY <1>0, <2>1, <2>2, FirstSix DEF TypeOK, Cell
  <2>4. n \in Nat /\ 6 * n <= SizeMax
    BY DEF SizesFit
  <2>5. SumOf(ptrs') = SumOf(ptrs) + n - ptrs[s].total /\ SumOf(ptrs') \in 0..SizeMax
    BY <2>1, <2>3, <2>4, FirstSix, SumOfSix
  <2>6. total = SumOf(ptrs) /\ total \in Nat
    BY <1>0, <2>1 DEF TotalInv, TypeOK
  <2>7. ptrs[s].total \in Nat
    BY <2>1, FirstSix
  <2> QED BY <2>1, <2>2, <2>4, <2>5, <2>6, <2>7 DEF TotalInv, Wrap
<1>3. ASSUME NEW p \in Addr, Free(p)
      PROVE  total' = total - heap[p] /\ TotalInv'
  <2> DEFINE s == SlotOf(p)
  <2>1. ctx = "ready" /\ s \in 0..5 /\ s \in 0..len-1 /\ ptrs[s].total = heap[p]
    BY <1>0, <1>3, FewSlot DEF Free
  <2>2. /\ ptrs' = [ptrs EXCEPT ![s] = NoCell]
        /\ total' = Wrap(total - ptrs[s].total) /\ ctx' = ctx
    BY <1>3 DEF Free
  <2> HIDE DEF s
  <2>3. ptrs'[s].total = 0 /\ \A i \in 0..5 : i # s => ptrs'[i] = ptrs[i]
    BY <1>0, <2>1, <2>2, FirstSix DEF TypeOK, NoCell, Cell
  <2>4. 0 \in Nat /\ 6 * 0 <= SizeMax
    OBVIOUS
  <2>5. SumOf(ptrs') = SumOf(ptrs) + 0 - ptrs[s].total /\ SumOf(ptrs') \in 0..SizeMax
    BY <2>1, <2>3, <2>4, FirstSix, SumOfSix
  <2>6. total = SumOf(ptrs) /\ total \in Nat
    BY <1>0, <2>1 DEF TotalInv, TypeOK
  <2>7. ptrs[s].total \in Nat
    BY <2>1, FirstSix
  <2> QED BY <2>1, <2>2, <2>5, <2>6, <2>7 DEF TotalInv, Wrap
<1> QED BY <1>1, <1>2, <1>3

\* Every step of the tracker is a step of the heap its clients see, or none.
LEMMA FewHeapStep ==
  ASSUME TableInv, FewInv, TotalInv, FewHeld', SizesFit, AsCoded, [Next]_gcVars
  PROVE  [HeapView!HeapNext]_(HeapView!heapVars) /\ TotalInv'
<1> DEFINE blocks == [a \in Addr |-> IF a \in held THEN heap[a] ELSE 0]
           blocksN == [a \in Addr |-> IF a \in held' THEN heap'[a] ELSE 0]
<1>0. TypeOK /\ HeldIsAllocated /\ held \subseteq Addr /\ heap \in [Addr -> {0} \cup Sizes]
  BY DEF TableInv, TypeOK
<1>1. ASSUME NEW a \in Pick(FreeAddr), NEW n \in Sizes, Malloc(a, n) \/ MallocGrow(a, n)
      PROVE  HeapView!Allocate(a, n) /\ a \in Addr /\ TotalInv'
  <2>1. Malloc(a, n) /\ a \in Addr /\ a \notin held
    BY <1>1, FewMalloc
  <2>2. total' = total + n /\ TotalInv'
    BY <2>1, FewTotals
  <2>3. held' = held \cup {a} /\ heap' = [heap EXCEPT ![a] = n] /\ rc' = "ok"
    BY <2>1 DEF Malloc, Obtain
  <2>4. blocks[a] = 0 /\ blocksN = [blocks EXCEPT ![a] = n]
    BY <1>0, <2>1, <2>3
  <2> QED BY <2>1, <2>2, <2>3, <2>4 DEF HeapView!Allocate
<1>2. ASSUME NEW p \in held, NEW n \in Sizes, NEW a \in Pick(FreeAddr \cup {p}), Realloc(p, a, n)
      PROVE  HeapView!Resize(p, a, n) /\ p \in Addr /\ a \in Addr /\ TotalInv'
  <2>1. p \in Addr /\ a \in Addr /\ (a = p \/ heap[a] = 0) /\ heap[p] # 0
    BY <1>0, PickFree DEF HeldIsAllocated
  <2>2. total' = total + n - heap[p] /\ TotalInv'
    BY <1>2, FewTotals
  <2>3. /\ held' = (held \ {p}) \cup {a} /\ heap' = [heap EXCEPT ![p] = 0, ![a] = n]
        /\ rc' = "ok"
    BY <1>2 DEF Realloc
  <2>4. /\ blocks[p] = heap[p] /\ (a = p \/ blocks[a] = 0)
        /\ blocksN = [blocks EXCEPT ![p] = 0, ![a] = n]
    BY <1>0, <2>1, <2>3
  <2> QED BY <2>1, <2>2, <2>3, <2>4 DEF HeapView!Resize
<1>3. ASSUME NEW p \in Addr, Free(p) PROVE HeapView!Release(p) /\ TotalInv'
  <2>1. p \in held /\ heap[p] # 0
    BY <1>0, <1>3, FewSlot DEF Free, HeldIsAllocated
  <2>2. total' = total - heap[p] /\ TotalInv'
    BY <1>3, FewTotals
  <2>3. held' = held \ {p} /\ heap' = [heap EXCEPT ![p] = 0] /\ rc' = "ok"
    BY <1>3, <2>1 DEF Free
  <2>4. blocks[p] = heap[p] /\ blocksN = [blocks EXCEPT ![p] = 0]
    BY <1>0, <2>1, <2>3
  <2> QED BY <2>1, <2>2, <2>3, <2>4 DEF HeapView!Release
<1>4. ASSUME NEW p \in Addr, FreeNotFound(p)
      PROVE  blocks[p] = 0 /\ HeapView!Refuse /\ TotalInv'
  <2>1. p \notin held
    BY <1>4 DEF FreeNotFound, Slots, FewInv
  <2> QED BY <1>4, <2>1 DEF FreeNotFound, HeapView!Refuse, TotalInv
<1>5. ASSUME NullAnswer \/ FreeNull PROVE HeapView!Accept /\ TotalInv'
  BY <1>5 DEF NullAnswer, FreeNull, HeapView!Accept, TotalInv
<1>6. ASSUME GcClose PROVE HeapView!Forget /\ TotalInv'
  BY <1>6 DEF GcClose, HeapView!Forget, TotalInv
<1>7. ASSUME GcInit \/ UNCHANGED gcVars PROVE UNCHANGED HeapView!heapVars /\ TotalInv'
  <2>1. CASE GcInit
    <3>1. total = 0 /\ total' = 0 /\ UNCHANGED <<heap, held, rc>>
      BY <2>1 DEF GcInit, TotalInv
    <3>2. \A i \in 0..5 : i \in 0..IncCount-1
      <4>1. IncCount \in Nat /\ IncCount >= 8
        BY GcIncCount DEF AsCoded
      <4> HIDE GcSizes, GcPick
      <4> QED BY <4>1
    <3>3. SumOf(ptrs') = 0
      BY <2>1, <3>2 DEF GcInit, SumOf, NoCell, Cell
    <3> QED BY <2>1, <3>1, <3>3 DEF GcInit, TotalInv, HeapView!heapVars
  <2>2. CASE UNCHANGED gcVars
    BY <2>2 DEF gcVars, TotalInv, HeapView!heapVars
  <2> QED BY <1>7, <2>1, <2>2
<1>8. ASSUME NEW p \in held PROVE ~ReallocAssert(p)
  BY <1>8 DEF ReallocAssert, Slots, FewInv
<1>9. ASSUME NEW p, NEW n PROVE ~ReallocNull(p, n)
  BY DEF ReallocNull, AsCoded
<1> HIDE DEF blocks, blocksN
<1>10. CASE \E a \in Pick(FreeAddr), n \in Sizes : Malloc(a, n) \/ MallocGrow(a, n)
  BY <1>1, <1>10 DEF HeapView!HeapNext
<1>11. CASE \E p \in held, n \in Sizes : \E a \in Pick(FreeAddr \cup {p}) : Realloc(p, a, n)
  BY <1>2, <1>11 DEF HeapView!HeapNext
<1>12. CASE \E p \in Addr : Free(p)
  BY <1>3, <1>12 DEF HeapView!HeapNext
<1>13. CASE \E p \in Addr : FreeNotFound(p)
  BY <1>4, <1>13 DEF HeapView!HeapNext, blocks
<1> QED BY <1>5, <1>6, <1>7, <1>8, <1>9, <1>10, <1>11, <1>12, <1>13 DEF Next, HeapView!HeapNext

(***************************************************************************)
(* While no client holds more than six blocks at a time, gfc_gc is the     *)
(* heap it stands for: no two blocks share an address, a block is freed    *)
(* and resized by its pointer, no other pointer is accepted, and           *)
(* gfc_gc_total is the exact sum of the blocks that are out.               *)
(***************************************************************************)
THEOREM FewBlocksRefine ==
  ASSUME AsCoded, SizesFit
  PROVE  Spec /\ []FewHeld => HeapSpec
<1>1. Init => HeapView!HeapInit /\ TotalInv
  BY DEF Init, HeapView!HeapInit, TotalInv
<1>2. TableInv /\ FewInv /\ TotalInv /\ FewHeld' /\ [Next]_gcVars
        => [HeapView!HeapNext]_(HeapView!heapVars) /\ TotalInv'
  BY FewHeapStep
<1> QED BY <1>1, <1>2, TableInductive, FewInductive, PTL DEF Spec, HeapSpec, HeapView!HeapSpec
=============================================================================
