---------------------------- MODULE GfcMap_proofs ----------------------------
(***************************************************************************)
(* Proofs about GfcMap for any keys, hashes, chain length and table size.  *)
(* What a put stored is found again whatever the table held before, junk   *)
(* of uninitialised memory and duplicate keys included; that size bounds   *)
(* the entries and all of them can be reached needs memory that comes      *)
(* zeroed.  That size is the number of keys and the map a dictionary needs *)
(* clients that are careful as well.                                       *)
(***************************************************************************)
EXTENDS GfcMap, FiniteSetTheorems, SequenceTheorems, TLAPS

Frame ==
  UNION {[old : [0..n-1 -> Cells], n : {n}, i : 0..n,
          key : Key, val : Data \cup {Null}] : n \in Nat}

Shape ==
  /\ client \in Clients
  /\ pc \in {"idle", "put", "rehash", "freed"}
  /\ key \in Key /\ val \in Data \cup {Null}
  /\ table_size \in Nat /\ size \in Int
  /\ pc # "freed" => table_size >= 2
  /\ data \in [0..table_size-1 -> Cells]
  /\ frames \in Seq(Frame)
  /\ \A f \in 1..Len(frames) :
       frames[f].i < frames[f].n \/ (f = Len(frames) /\ pc = "rehash")
  /\ pc = "rehash" => frames # <<>>
  /\ pc \in {"idle", "freed"} => frames = <<>>

USE MapHash, MapSizes, MapChain, MapNull, MapMayFail, MapJunk, MapClients

LEMMA ProbeInTable ==
  ASSUME NEW k \in Key, NEW d \in Nat, NEW n \in Nat, n > 0
  PROVE  Probe(k, d, n) \in 0..n-1
<1>1. Hash[k] \in Nat
  OBVIOUS
<1>2. Hash[k] % n \in Nat
  BY <1>1
<1>3. (Hash[k] % n) + d \in Nat
  BY <1>2
<1> QED BY <1>3 DEF Probe

LEMMA FrameFields ==
  ASSUME NEW f \in Frame
  PROVE  /\ f.n \in Nat /\ f.i \in 0..f.n
         /\ f.old \in [0..f.n-1 -> Cells]
         /\ f.key \in Key /\ f.val \in Data \cup {Null}
<1>1. PICK n \in Nat : f \in [old : [0..n-1 -> Cells], n : {n}, i : 0..n,
                              key : Key, val : Data \cup {Null}]
  BY DEF Frame
<1> QED BY <1>1

LEMMA FrameIntro ==
  ASSUME NEW n \in Nat, NEW old \in [0..n-1 -> Cells], NEW i \in 0..n,
         NEW k \in Key, NEW v \in Data \cup {Null}
  PROVE  [old |-> old, n |-> n, i |-> i, key |-> k, val |-> v] \in Frame
<1>1. [old |-> old, n |-> n, i |-> i, key |-> k, val |-> v]
        \in [old : [0..n-1 -> Cells], n : {n}, i : 0..n,
             key : Key, val : Data \cup {Null}]
  OBVIOUS
<1> QED BY <1>1 DEF Frame

\* A frame whose loop goes on at j is a frame.
LEMMA FrameAdvance ==
  ASSUME NEW f \in Frame, NEW j \in 0..f.n
  PROVE  [f EXCEPT !.i = j] \in Frame
<1>1. PICK n \in Nat : f \in [old : [0..n-1 -> Cells], n : {n}, i : 0..n,
                              key : Key, val : Data \cup {Null}]
  BY DEF Frame
<1>2. [f EXCEPT !.i = j] \in [old : [0..n-1 -> Cells], n : {n}, i : 0..n,
                              key : Key, val : Data \cup {Null}]
  BY <1>1
<1> QED BY <1>2 DEF Frame

LEMMA CellTypes ==
  /\ Blank \in Cells
  /\ \A k \in Key, v \in Data \cup {Null} : CellOf(1, k, v) \in Cells
BY DEF Blank, CellOf, Cells

LEMMA InitShape == Init => Shape
BY CellTypes DEF Init, Shape

LEMMA NextShape == Shape /\ [Next]_mapVars => Shape'
<1> SUFFICES ASSUME Shape, [Next]_mapVars PROVE Shape'
  OBVIOUS
<1>1. ASSUME NEW k \in Key, NEW v \in Data, Put(k, v) PROVE Shape'
  BY <1>1 DEF Put, Shape
<1>2. ASSUME NEW k \in Key, Get(k) PROVE Shape'
  BY <1>2 DEF Get, Shape
<1>3. ASSUME NEW k \in Key, Remove(k) PROVE Shape'
  <2>1. data' \in [0..table_size-1 -> Cells]
    BY <1>3, CellTypes DEF Remove, Shape
  <2>2. size' \in Int
    BY <1>3 DEF Remove, Shape
  <2> QED BY <1>3, <2>1, <2>2 DEF Remove, Shape
<1>4. CASE Iterate
  BY <1>4 DEF Iterate, Shape
<1>5. CASE MapFree \/ DeepFree
  BY <1>5 DEF MapFree, DeepFree, Release, mapVars, Shape
<1>6. CASE Store
  <2>1. data' \in [0..table_size-1 -> Cells]
    BY <1>6, CellTypes DEF Store, Shape
  <2>2. CASE frames = <<>>
    BY <1>6, <2>1, <2>2 DEF Store, Return, Shape
  <2>3. CASE frames # <<>>
    <3> DEFINE L == Len(frames)
    <3>1. L \in Nat /\ L >= 1 /\ frames[L] \in Frame
      BY <2>3 DEF Shape
    <3>2. frames[L].i < frames[L].n
      BY <1>6, <3>1 DEF Store, Shape
    <3>3. frames[L].i + 1 \in 0..frames[L].n
      BY <3>1, <3>2, FrameFields
    <3>4. [frames[L] EXCEPT !.i = @ + 1] \in Frame
      BY <3>1, <3>3, FrameAdvance
    <3>5. frames' = [frames EXCEPT ![L] = [frames[L] EXCEPT !.i = @ + 1]]
      BY <1>6, <2>3 DEF Store, Return
    <3>6. frames' \in Seq(Frame) /\ Len(frames') = L
      BY <3>1, <3>4, <3>5 DEF Shape
    <3>7. \A f \in 1..L : f # L => frames'[f] = frames[f]
      BY <3>1, <3>5 DEF Shape
    <3>8. pc' = "rehash" /\ frames' # <<>>
      BY <1>6, <2>3, <3>6, <3>1 DEF Store, Return
    <3>9. \A f \in 1..L : frames'[f].i < frames'[f].n \/ f = L
      BY <3>7, <1>6 DEF Store, Shape
    <3> QED BY <1>6, <2>1, <3>6, <3>8, <3>9 DEF Store, Shape
  <2> QED BY <2>2, <2>3
<1>7. CASE Rehash
  <2>1. 2 * table_size \in Nat /\ 2 * table_size >= 2
    BY <1>7 DEF Rehash, Shape
  <2>2. data' \in [0..2*table_size-1 -> Cells]
    BY <1>7, CellTypes, <2>1 DEF Rehash, Shape
  <2> DEFINE new == [old |-> data, n |-> table_size, i |-> 0,
                     key |-> key, val |-> val]
  <2>3. new \in Frame
    BY FrameIntro DEF Shape
  <2>4. frames' = Append(frames, new) /\ pc' = "rehash" /\ pc = "put"
    BY <1>7 DEF Rehash
  <2> HIDE DEF new
  <2>5. frames' \in Seq(Frame) /\ Len(frames') = Len(frames) + 1
    BY <2>3, <2>4 DEF Shape
  <2>6. \A f \in 1..Len(frames) : frames'[f] = frames[f]
    BY <2>3, <2>4 DEF Shape
  <2>7. \A f \in 1..Len(frames') :
          frames'[f].i < frames'[f].n \/ f = Len(frames')
    BY <2>4, <2>5, <2>6 DEF Shape
  <2>8. frames' # <<>>
    BY <2>5 DEF Shape
  <2> QED BY <1>7, <2>1, <2>2, <2>4, <2>5, <2>7, <2>8 DEF Rehash, Shape
<1>8. CASE RehashPut
  <2> DEFINE L == Len(frames)
  <2>1. L \in Nat /\ L >= 1 /\ frames[L] \in Frame /\ Top = frames[L]
    BY <1>8 DEF RehashPut, Shape, Top
  <2>2. PICK j \in ToPut :
          /\ frames' = [frames EXCEPT ![L].i = j]
          /\ key' = Top.old[j].key /\ val' = Top.old[j].data
    BY <1>8 DEF RehashPut
  <2>3. j \in 0..frames[L].n-1 /\ j \in 0..frames[L].n
    BY <2>1, <2>2, FrameFields DEF ToPut
  <2>4. [frames[L] EXCEPT !.i = j] \in Frame
    BY <2>1, <2>3, FrameAdvance
  <2>5. key' \in Key /\ val' \in Data \cup {Null}
    BY <2>1, <2>2, <2>3, FrameFields DEF Cells
  <2>6. frames' = [frames EXCEPT ![L] = [frames[L] EXCEPT !.i = j]]
    BY <2>2
  <2>7. frames' \in Seq(Frame) /\ Len(frames') = L
    BY <2>1, <2>4, <2>6 DEF Shape
  <2>8. \A f \in 1..L : frames'[f].i < frames'[f].n
    <3> TAKE f \in 1..L
    <3>1. CASE f = L
      <4>1. frames'[L] = [frames[L] EXCEPT !.i = j]
        BY <2>1, <2>6 DEF Shape
      <4>2. frames'[L].i = j /\ frames'[L].n = frames[L].n
        BY <4>1, <2>1 DEF Frame
      <4> QED BY <3>1, <4>2, <2>3, <2>1, FrameFields
    <3>2. CASE f # L
      BY <3>2, <2>1, <2>6 DEF Shape
    <3> QED BY <3>1, <3>2
  <2> QED BY <1>8, <2>5, <2>7, <2>8 DEF RehashPut, Shape
<1>9. CASE RehashDone
  <2> DEFINE L == Len(frames)
  <2>1. L \in Nat /\ L >= 1 /\ frames[L] \in Frame /\ Top = frames[L]
    BY <1>9 DEF RehashDone, Shape, Top
  <2>2. frames' = SubSeq(frames, 1, L - 1)
    BY <1>9 DEF RehashDone, Below
  <2> HIDE DEF L
  <2>7. \A f \in 1..L-1 : frames[f] \in Frame
    BY <2>1 DEF Shape, L
  <2>3. frames' \in Seq(Frame) /\ Len(frames') = L - 1
    BY <2>7, <2>1, <2>2, SubSeqProperties
  <2>4. \A f \in 1..L-1 : frames'[f] = frames[f]
    BY <2>7, <2>1, <2>2, SubSeqProperties
  <2>5. \A f \in 1..L-1 : frames'[f].i < frames'[f].n
    BY <2>4, <2>1 DEF Shape, L
  <2>6. key' \in Key /\ val' \in Data \cup {Null}
    BY <1>9, <2>1, FrameFields DEF RehashDone
  <2> QED BY <1>9, <2>3, <2>5, <2>6 DEF RehashDone, Shape
<1>10. CASE OutOfMemory
  BY <1>10 DEF OutOfMemory, Shape
<1>11. CASE UNCHANGED mapVars
  BY <1>11 DEF mapVars, Shape
<1> QED
  BY <1>1, <1>2, <1>3, <1>4, <1>5, <1>6, <1>7, <1>8, <1>9, <1>10, <1>11
  DEF Next, Step

-----------------------------------------------------------------------------
\* What is put into the first usable cell of a chain is what a search of that
\* chain finds first: no earlier cell has the key.
LEMMA PutIsFound ==
  ASSUME NEW n \in Nat, n > 0, NEW t \in [0..n-1 -> Cells],
         NEW k \in Key, NEW v,
         NEW d \in Usable(t, n, k), \A e \in Usable(t, n, k) : d <= e
  PROVE  Lookup([t EXCEPT ![Probe(k, d, n)] = CellOf(1, k, v)], n, k) = v
<1> DEFINE j == Probe(k, d, n)
           u == [t EXCEPT ![j] = CellOf(1, k, v)]
           M == Matches(u, n, k)
<1>1. d \in Chain /\ d \in Nat /\ Chain \subseteq Nat
  BY DEF Usable, Matches, Chain
<1>2. j \in 0..n-1
  BY <1>1, ProbeInTable
<1>3. \A e \in Chain : Probe(k, e, n) \in 0..n-1
  BY <1>1, ProbeInTable
<1> HIDE DEF j
<1>4. u[j] = CellOf(1, k, v) /\ \A i \in 0..n-1 : i # j => u[i] = t[i]
  BY <1>2
<1>5. d \in M
  BY <1>1, <1>4 DEF Matches, CellOf, j
<1>6. ASSUME NEW e \in M PROVE d <= e
  <2>1. e \in Chain /\ u[Probe(k, e, n)].in_use = 1 /\ u[Probe(k, e, n)].key = k
    BY DEF Matches
  <2>2. CASE Probe(k, e, n) = j
    <3>1. t[Probe(k, d, n)].in_use = 0 \/ d \in Matches(t, n, k)
      BY DEF Usable
    <3>2. e \in Usable(t, n, k)
      BY <2>1, <2>2, <3>1 DEF Usable, Matches, j
    <3> QED BY <3>2
  <2>3. CASE Probe(k, e, n) # j
    <3>1. u[Probe(k, e, n)] = t[Probe(k, e, n)]
      BY <1>3, <1>4, <2>1, <2>3
    <3>2. e \in Usable(t, n, k)
      BY <2>1, <3>1 DEF Usable, Matches
    <3> QED BY <3>2
  <2> QED BY <2>2, <2>3
<1>7. Least(M) = d
  <2>1. Least(M) \in M /\ \A e \in M : Least(M) <= e
    BY <1>5, <1>6 DEF Least
  <2>2. M \subseteq Nat
    BY <1>1 DEF Matches
  <2>3. Least(M) <= d /\ d <= Least(M)
    BY <2>1, <1>5, <1>6
  <2>4. Least(M) \in Nat /\ d \in Nat
    BY <2>1, <2>2, <1>5
  <2> HIDE DEF M
  <2> QED BY <2>3, <2>4
<1>8. M # {}
  BY <1>5
<1>9. u[Probe(k, d, n)].data = v
  BY <1>4 DEF CellOf, j
<1> QED BY <1>7, <1>8, <1>9 DEF Lookup, j

LEMMA NextReadYourPut ==
  Shape /\ ReadYourPut /\ [Next]_mapVars => ReadYourPut'
<1> SUFFICES ASSUME Shape, ReadYourPut, [Next]_mapVars PROVE ReadYourPut'
  OBVIOUS
<1>1. ASSUME NEW k \in Key, NEW v \in Data, Put(k, v) PROVE ReadYourPut'
  BY <1>1 DEF Put, ReadYourPut
<1>2. ASSUME NEW k \in Key, Get(k) \/ Remove(k) PROVE ReadYourPut'
  BY <1>2 DEF Get, Remove, Answer, ReadYourPut
<1>3. CASE Iterate
  BY <1>3 DEF Iterate, Answer, ReadYourPut
<1>4. CASE MapFree \/ DeepFree
  BY <1>4 DEF MapFree, DeepFree, Release, mapVars, ReadYourPut, Lookup, Matches
<1>5. CASE Store
  <2>1. CASE frames # <<>>
    BY <1>5, <2>1 DEF Store, Return, ReadYourPut
  <2>2. CASE frames = <<>>
    <3>1. PICK d \in Usable(data, table_size, key) :
            /\ \A e \in Usable(data, table_size, key) : d <= e
            /\ data' = [data EXCEPT ![Probe(key, d, table_size)] = CellOf(1, key, val)]
      BY <1>5 DEF Store
    <3>2. table_size \in Nat /\ table_size > 0 /\ key \in Key
          /\ data \in [0..table_size-1 -> Cells]
      BY <1>5 DEF Store, Shape
    <3>3. Lookup(data', table_size, key) = val
      BY <3>1, <3>2, PutIsFound
    <3> QED BY <1>5, <3>3 DEF Store, ReadYourPut
  <2> QED BY <2>1, <2>2
<1>6. CASE Rehash \/ RehashPut \/ RehashDone
  BY <1>6 DEF Rehash, RehashPut, RehashDone, ReadYourPut
<1>7. CASE OutOfMemory
  BY <1>7 DEF OutOfMemory, Answer, ReadYourPut
<1>8. CASE UNCHANGED mapVars
  BY <1>8 DEF mapVars, ReadYourPut, Lookup, Matches
<1> QED
  BY <1>1, <1>2, <1>3, <1>4, <1>5, <1>6, <1>7, <1>8 DEF Next, Step

(***************************************************************************)
(* Whatever the program does with the map and whatever memory it gets, the *)
(* value of a put that answered GFC_ERROR_MAP_OK is the one gfc_map_get    *)
(* finds next.                                                             *)
(***************************************************************************)
THEOREM ReadYourPutCorrect == Spec => []ReadYourPut
<1>1. Init => Shape /\ ReadYourPut
  BY InitShape DEF Init, Answer, ReadYourPut
<1>2. Shape /\ ReadYourPut /\ [Next]_mapVars => (Shape /\ ReadYourPut)'
  BY NextShape, NextReadYourPut
<1> QED BY <1>1, <1>2, PTL DEF Spec

-----------------------------------------------------------------------------
\* With zeroed memory, a new table is empty, and every cell in use was stored.
Used(t, n) == {i \in 0..n-1 : t[i].in_use # 0}

InReach(t, n) ==
  \A i \in 0..n-1 : t[i].in_use # 0 =>
    \E d \in Chain : Probe(t[i].key, d, n) = i

CleanInv ==
  /\ Shape
  /\ InReach(data, table_size)
  /\ Cardinality(Used(data, table_size)) <= size
  /\ size <= table_size \div 2

LEMMA UsedFinite ==
  ASSUME NEW n \in Nat, NEW t
  PROVE  IsFiniteSet(Used(t, n)) /\ Cardinality(Used(t, n)) \in Nat
<1>1. IsFiniteSet(0..n-1)
  BY FS_Interval
<1>2. Used(t, n) \subseteq 0..n-1
  BY DEF Used
<1> QED BY <1>1, <1>2, FS_Subset, FS_CardinalityType

\* Storing an entry uses at most one cell more.
LEMMA StoreCounts ==
  ASSUME NEW n \in Nat, NEW t \in [0..n-1 -> Cells], NEW j \in 0..n-1, NEW c \in Cells
  PROVE  Cardinality(Used([t EXCEPT ![j] = c], n)) <= Cardinality(Used(t, n)) + 1
<1>1. Used([t EXCEPT ![j] = c], n) \subseteq Used(t, n) \cup {j}
  BY DEF Used
<1>a. IsFiniteSet(Used(t, n)) /\ Cardinality(Used(t, n)) \in Nat
  BY UsedFinite
<1>b. /\ IsFiniteSet(Used(t, n) \cup {j})
      /\ Cardinality(Used(t, n) \cup {j}) =
           IF j \in Used(t, n) THEN Cardinality(Used(t, n))
           ELSE Cardinality(Used(t, n)) + 1
  BY <1>a, FS_AddElement, Zenon
<1>2. IsFiniteSet(Used(t, n) \cup {j})
      /\ Cardinality(Used(t, n) \cup {j}) <= Cardinality(Used(t, n)) + 1
  BY <1>a, <1>b
<1>3. Cardinality(Used([t EXCEPT ![j] = c], n)) <= Cardinality(Used(t, n) \cup {j})
  BY <1>1, <1>2, FS_Subset
<1>4. Cardinality(Used([t EXCEPT ![j] = c], n)) \in Nat
      /\ Cardinality(Used(t, n)) \in Nat
      /\ Cardinality(Used(t, n) \cup {j}) \in Nat
  BY UsedFinite, <1>2, FS_CardinalityType
<1> QED BY <1>2, <1>3, <1>4

\* Blanking a cell in use uses one cell less.
LEMMA BlankCounts ==
  ASSUME NEW n \in Nat, NEW t \in [0..n-1 -> Cells], NEW j \in Used(t, n)
  PROVE  Cardinality(Used([t EXCEPT ![j] = Blank], n)) = Cardinality(Used(t, n)) - 1
<1>1. Used([t EXCEPT ![j] = Blank], n) = Used(t, n) \ {j}
  BY DEF Used, Blank, CellOf
<1>2. IsFiniteSet(Used(t, n))
  BY UsedFinite
<1> QED BY <1>1, <1>2, FS_RemoveElement, Zenon

LEMMA InitClean == Init => CleanInv
<1> SUFFICES ASSUME Init PROVE CleanInv
  OBVIOUS
<1>1. Used(data, table_size) = {}
  BY DEF Init, Used, Blank, CellOf
<1>2. InReach(data, table_size)
  BY DEF Init, InReach, Blank, CellOf
<1>3. Cardinality({}) = 0
  BY FS_EmptySet
<1> QED BY <1>1, <1>2, <1>3, InitShape DEF Init, CleanInv

LEMMA NextClean ==
  ASSUME Junk \subseteq {Blank}
  PROVE  CleanInv /\ [Next]_mapVars => CleanInv'
<1> SUFFICES ASSUME CleanInv, [Next]_mapVars PROVE CleanInv'
  OBVIOUS
<1>0. Shape /\ Shape'
  BY NextShape DEF CleanInv
<1>u. Cardinality(Used(data, table_size)) \in Nat
  BY <1>0, UsedFinite DEF Shape
\* Only Store, Remove, Rehash and Release touch the table or size.
<1>1. ASSUME UNCHANGED <<table_size, size, data>> PROVE CleanInv'
  BY <1>0, <1>1 DEF CleanInv, InReach, Used
<1>2. ASSUME NEW k \in Key, Remove(k), Matches(data, table_size, k) # {}
      PROVE  CleanInv'
  <2>1. PICK d \in Matches(data, table_size, k) :
          data' = [data EXCEPT ![Probe(k, d, table_size)] = Blank]
    BY <1>2 DEF Remove
  <2> DEFINE j == Probe(k, d, table_size)
  <2>2. j \in Used(data, table_size)
    <3>1. d \in Nat /\ data[j].in_use = 1
      BY DEF Matches, Chain
    <3>2. j \in 0..table_size-1
      BY <1>0, <1>2, <3>1, ProbeInTable DEF Remove, Shape
    <3> QED BY <3>1, <3>2 DEF Used
  <2>3. size' = size - 1 /\ table_size' = table_size
    BY <1>2 DEF Remove
  <2>4. Cardinality(Used(data', table_size)) = Cardinality(Used(data, table_size)) - 1
    BY <1>0, <2>1, <2>2, BlankCounts DEF Shape
  <2>5. InReach(data', table_size)
    BY <1>0, <2>1 DEF CleanInv, InReach, Shape, Blank, CellOf
  <2>6. size' <= table_size \div 2
    BY <1>0, <2>3 DEF CleanInv, Shape
  <2> QED BY <1>0, <1>u, <2>3, <2>4, <2>5, <2>6 DEF CleanInv, Shape
<1>3. ASSUME Store PROVE CleanInv'
  <2>1. PICK d \in Usable(data, table_size, key) :
          data' = [data EXCEPT ![Probe(key, d, table_size)] = CellOf(1, key, val)]
    BY <1>3 DEF Store
  <2> DEFINE j == Probe(key, d, table_size)
             c == CellOf(1, key, val)
  <2>2. d \in Chain /\ d \in Nat
    BY DEF Usable, Matches, Chain
  <2>3. j \in 0..table_size-1
    BY <1>0, <1>3, <2>2, ProbeInTable DEF Store, Shape
  <2>4. c \in Cells /\ c.key = key
    BY <1>0, CellTypes DEF Shape, CellOf
  <2>5. size' = size + 1 /\ table_size' = table_size /\ size < table_size \div 2
    BY <1>0, <1>3 DEF Store, Full, HashResult, Shape
  <2> HIDE DEF c
  <2>6. Cardinality(Used(data', table_size)) <= Cardinality(Used(data, table_size)) + 1
    BY <1>0, <2>1, <2>3, <2>4, StoreCounts DEF Shape, c
  <2>7. InReach(data', table_size)
    <3> SUFFICES ASSUME NEW i \in 0..table_size-1, data'[i].in_use # 0
                 PROVE  \E e \in Chain : Probe(data'[i].key, e, table_size) = i
      BY DEF InReach
    <3>1. CASE i = j
      BY <1>0, <2>1, <2>2, <2>3, <2>4, <3>1 DEF Shape, c
    <3>2. CASE i # j
      <4>1. data'[i] = data[i]
        BY <1>0, <2>1, <3>2 DEF Shape
      <4> QED BY <4>1 DEF CleanInv, InReach
    <3> QED BY <3>1, <3>2
  <2>8. Cardinality(Used(data', table_size)) \in Nat
    BY <1>0, UsedFinite DEF Shape
  <2>9. table_size \div 2 \in Int
    BY <1>0 DEF Shape
  <2> QED BY <1>0, <1>u, <2>5, <2>6, <2>7, <2>8, <2>9 DEF CleanInv, Shape
<1>4. ASSUME Rehash PROVE CleanInv'
  <2>1. table_size' \in Nat /\ size' = 0
    BY <1>0, <1>4 DEF Rehash, Shape
  <2>2. \A i \in 0..table_size'-1 : data'[i] = Blank
    <3>1. PICK junk \in [0..table_size-1 -> Junk] :
            data' = [i \in 0..2*table_size-1 |->
                       IF i < table_size THEN junk[i] ELSE Blank]
      BY <1>4 DEF Rehash
    <3>2. \A i \in 0..table_size-1 : junk[i] = Blank
      OBVIOUS
    <3> QED BY <1>0, <1>4, <3>1, <3>2 DEF Rehash, Shape
  <2>3. Used(data', table_size') = {} /\ InReach(data', table_size')
    BY <2>2 DEF Used, InReach, Blank, CellOf
  <2>4. Cardinality(Used(data', table_size')) = 0
    BY <2>3, FS_EmptySet
  <2>5. \A n \in Nat : 0 <= n \div 2
    OBVIOUS
  <2>6. size' <= table_size' \div 2
    BY <2>1, <2>5
  <2>7. Cardinality(Used(data', table_size')) <= size'
    BY <2>1, <2>4
  <2> QED BY <1>0, <2>3, <2>6, <2>7 DEF CleanInv
<1>5. ASSUME Release PROVE CleanInv'
  <2>1. table_size' = 0 /\ size' = 0
    BY <1>5 DEF Release
  <2>2. Used(data', table_size') = {} /\ InReach(data', table_size')
    BY <2>1 DEF Used, InReach
  <2>3. Cardinality(Used(data', table_size')) = 0
    BY <2>2, FS_EmptySet
  <2>4. 0 <= table_size' \div 2
    BY <2>1
  <2> QED BY <1>0, <2>1, <2>2, <2>3, <2>4 DEF CleanInv
<1>6. ASSUME NEW k \in Key, NEW v \in Data, Put(k, v) PROVE CleanInv'
  BY <1>1, <1>6 DEF Put
<1>7. ASSUME NEW k \in Key, Get(k) \/ Remove(k) PROVE CleanInv'
  <2>1. CASE Get(k)
    BY <1>1, <2>1 DEF Get
  <2>2. CASE Remove(k) /\ Matches(data, table_size, k) = {}
    BY <1>1, <2>2 DEF Remove
  <2> QED BY <1>2, <1>7, <2>1, <2>2
<1>8. CASE Iterate \/ MapFree \/ DeepFree
  BY <1>1, <1>5, <1>8 DEF Iterate, MapFree, DeepFree, mapVars
<1>9. CASE RehashPut \/ RehashDone \/ OutOfMemory \/ UNCHANGED mapVars
  BY <1>1, <1>9 DEF RehashPut, RehashDone, OutOfMemory, mapVars
<1> QED BY <1>3, <1>4, <1>6, <1>7, <1>8, <1>9 DEF Next, Step

LEMMA CleanInvImplies == CleanInv => TypeOK /\ Reachable
<1> SUFFICES ASSUME CleanInv PROVE TypeOK /\ Reachable
  OBVIOUS
<1>1. Shape
  BY DEF CleanInv
<1>2. Cardinality(Used(data, table_size)) \in Nat
  BY <1>1, UsedFinite DEF Shape
<1>3. size \in 0..(table_size \div 2)
  BY <1>1, <1>2 DEF CleanInv, Shape
<1>4. \A f \in 1..Len(frames) : frames[f] \in Frame
  BY <1>1 DEF Shape
<1>5. TypeOK
  BY <1>1, <1>3, <1>4, FrameFields DEF Shape, TypeOK
<1>6. Reachable
  BY DEF CleanInv, InReach, Used, Reachable
<1> QED BY <1>5, <1>6

(***************************************************************************)
(* With zeroed memory, size never exceeds half of the table and never      *)
(* falls below the number of entries, so it is never negative.             *)
(***************************************************************************)
THEOREM TypeCorrect ==
  ASSUME Junk \subseteq {Blank}
  PROVE  Spec => []TypeOK
<1>1. Init => CleanInv
  BY InitClean
<1>2. CleanInv /\ [Next]_mapVars => CleanInv'
  BY NextClean
<1>3. CleanInv => TypeOK
  BY CleanInvImplies
<1> QED BY <1>1, <1>2, <1>3, PTL DEF Spec

(***************************************************************************)
(* With zeroed memory, every entry stays within MAX_CHAIN_LENGTH cells of  *)
(* its hash, after any number of rehashes, removals and failed puts.       *)
(***************************************************************************)
THEOREM ReachableCorrect ==
  ASSUME Junk \subseteq {Blank}
  PROVE  Spec => []Reachable
<1>1. Init => CleanInv
  BY InitClean
<1>2. CleanInv /\ [Next]_mapVars => CleanInv'
  BY NextClean
<1>3. CleanInv => Reachable
  BY CleanInvImplies
<1> QED BY <1>1, <1>2, <1>3, PTL DEF Spec

-----------------------------------------------------------------------------
\* A table as careful clients leave it: a cell is blank or holds a value in
\* reach of its key, and no key is in two cells.
Tidy(t, n) ==
  /\ \A i \in 0..n-1 : t[i] = Blank \/ (t[i].in_use = 1 /\ t[i].data \in Data)
  /\ InReach(t, n)
  /\ \A i, j \in Used(t, n) : t[i].key = t[j].key => i = j

\* Nothing was removed: the cells a search passes before it ends are in use.
NoHoles(t, n) ==
  \A i \in Used(t, n) : \E d \in Chain :
    /\ Probe(t[i].key, d, n) = i
    /\ \A e \in Chain : e < d => t[Probe(t[i].key, e, n)].in_use # 0

Fresh(k, t, n) == \A i \in Used(t, n) : t[i].key # k

\* The entries in the first m cells.
Pairs(t, m) == {<<t[i].key, t[i].data>> : i \in Used(t, m)}

LEMMA ProbeInChain ==
  ASSUME NEW k \in Key, NEW n \in Nat, n > 0
  PROVE  \A d \in Chain : d \in Nat /\ Probe(k, d, n) \in 0..n-1
<1> TAKE d \in Chain
<1>1. d \in Nat
  BY DEF Chain
<1> QED BY <1>1, ProbeInTable

LEMMA LeastInChain ==
  ASSUME NEW S, S \subseteq Chain, S # {}
  PROVE  Least(S) \in S /\ \A e \in S : Least(S) <= e
<1> DEFINE R == {ss \in Nat \X Nat : ss[1] < ss[2]}
<1>1. IsWellFoundedOn(R, Nat)
  BY NatLessThanWellFounded DEF OpToRel
<1>2. S \subseteq Nat
  BY DEF Chain
<1>3. \A k, m \in S : <<k, m>> \in R <=> k < m
  BY <1>2
<1> HIDE DEF R
<1>4. \E m \in S : \A k \in S : ~(<<k, m>> \in R)
  BY <1>1, <1>2, WFMin, Zenon
<1>5. PICK m \in S : \A k \in S : ~(<<k, m>> \in R)
  BY <1>4
<1>6. \A k \in S : ~(k < m)
  BY <1>3, <1>5, Zenon
<1>7. \A k \in S : m <= k
  BY <1>2, <1>5, <1>6
<1>8. \E d \in S : \A e \in S : d <= e
  BY <1>5, <1>7, Zenon
<1> QED BY <1>8, Zenon DEF Least

\* In a tidy table gfc_map_get answers the one value the table has for a key.
LEMMA LookupOfPair ==
  ASSUME NEW n \in Nat, n > 0, NEW t \in [0..n-1 -> Cells], Tidy(t, n), NEW k \in Key
  PROVE  /\ \A v : <<k, v>> \in Pairs(t, n) =>
              v \in Data /\ Lookup(t, n, k) = v /\ Matches(t, n, k) # {}
         /\ Matches(t, n, k) # {} => <<k, Lookup(t, n, k)>> \in Pairs(t, n)
         /\ Matches(t, n, k) = {} => Lookup(t, n, k) = Null
<1> DEFINE M == Matches(t, n, k)
<1>1. \A d \in M : Probe(k, d, n) \in Used(t, n) /\ t[Probe(k, d, n)].key = k
  <2> TAKE d \in M
  <2>1. d \in Chain /\ t[Probe(k, d, n)].in_use = 1 /\ t[Probe(k, d, n)].key = k
    BY DEF Matches
  <2>2. Probe(k, d, n) \in 0..n-1
    BY <2>1, ProbeInChain
  <2> QED BY <2>1, <2>2 DEF Used
<1>2. M # {} => Least(M) \in M
  BY LeastInChain DEF Matches
<1>3. ASSUME NEW i \in Used(t, n), t[i].key = k
      PROVE  M # {} /\ Lookup(t, n, k) = t[i].data /\ t[i].data \in Data
  <2>1. i \in 0..n-1 /\ t[i].in_use # 0
    BY DEF Used
  <2>2. t[i].in_use = 1 /\ t[i].data \in Data
    BY <2>1 DEF Tidy, Blank, CellOf
  <2>3. PICK d \in Chain : Probe(k, d, n) = i
    BY <1>3, <2>1 DEF Tidy, InReach
  <2>4. d \in M
    BY <1>3, <2>2, <2>3 DEF Matches
  <2>5. Probe(k, Least(M), n) = i
    BY <1>1, <1>2, <1>3, <2>4 DEF Tidy
  <2> QED BY <2>2, <2>4, <2>5 DEF Lookup
<1>4. M # {} => <<k, Lookup(t, n, k)>> \in Pairs(t, n)
  <2> SUFFICES ASSUME M # {} PROVE <<k, Lookup(t, n, k)>> \in Pairs(t, n)
    OBVIOUS
  <2>1. Probe(k, Least(M), n) \in Used(t, n) /\ t[Probe(k, Least(M), n)].key = k
    BY <1>1, <1>2
  <2>2. Lookup(t, n, k) = t[Probe(k, Least(M), n)].data
    BY DEF Lookup
  <2> HIDE DEF M
  <2> QED BY <2>1, <2>2 DEF Pairs
<1>5. M = {} => Lookup(t, n, k) = Null
  BY DEF Lookup
<1>6. \A v : <<k, v>> \in Pairs(t, n) => \E i \in Used(t, n) : t[i].key = k /\ t[i].data = v
  BY DEF Pairs
<1> QED BY <1>3, <1>4, <1>5, <1>6

\* Tidy tables with the same entries for a key answer the same.
LEMMA SameLookup ==
  ASSUME NEW n \in Nat, n > 0, NEW t \in [0..n-1 -> Cells], Tidy(t, n),
         NEW m \in Nat, m > 0, NEW u \in [0..m-1 -> Cells], Tidy(u, m),
         NEW k \in Key, \A v : <<k, v>> \in Pairs(t, n) <=> <<k, v>> \in Pairs(u, m)
  PROVE  Lookup(t, n, k) = Lookup(u, m, k)
<1>1. CASE Matches(t, n, k) # {}
  <2>1. <<k, Lookup(t, n, k)>> \in Pairs(u, m)
    BY <1>1, LookupOfPair
  <2> QED BY <2>1, LookupOfPair
<1>2. CASE Matches(t, n, k) = {}
  <2>1. \A v : <<k, v>> \notin Pairs(u, m)
    BY <1>2, LookupOfPair
  <2>2. Matches(u, m, k) = {}
    BY <2>1, LookupOfPair
  <2> QED BY <1>2, <2>2, LookupOfPair
<1> QED BY <1>1, <1>2

LEMMA FreshPairs ==
  ASSUME NEW n, NEW t, NEW k
  PROVE  Fresh(k, t, n) <=> \A v : <<k, v>> \notin Pairs(t, n)
BY DEF Fresh, Pairs

\* Table u is table t but for cell j, which had no other key and now has k.
Taken(t, u, n, j, k) ==
  /\ j \in 0..n-1
  /\ t[j].in_use = 0 \/ t[j].key = k
  /\ u[j].key = k
  /\ \A i \in 0..n-1 : i # j => u[i] = t[i]

\* A put leaves the search for every other key alone.
LEMMA StoreOthers ==
  ASSUME NEW n \in Nat, n > 0, NEW t, NEW u, NEW j, NEW k,
         Taken(t, u, n, j, k), NEW l \in Key, l # k
  PROVE  Lookup(u, n, l) = Lookup(t, n, l)
<1>3. \A e \in Chain : Probe(l, e, n) \in 0..n-1
  BY ProbeInChain
<1>4. /\ t[j].in_use = 0 \/ t[j].key = k
      /\ u[j].key = k /\ \A i \in 0..n-1 : i # j => u[i] = t[i]
  BY DEF Taken
<1>5. Matches(u, n, l) = Matches(t, n, l)
  BY <1>3, <1>4 DEF Matches
<1>6. Matches(t, n, l) # {} => Probe(l, Least(Matches(t, n, l)), n) # j
                               /\ Probe(l, Least(Matches(t, n, l)), n) \in 0..n-1
  <2> SUFFICES ASSUME Matches(t, n, l) # {}
               PROVE  Probe(l, Least(Matches(t, n, l)), n) # j
                      /\ Probe(l, Least(Matches(t, n, l)), n) \in 0..n-1
    OBVIOUS
  <2>1. Least(Matches(t, n, l)) \in Matches(t, n, l)
    BY LeastInChain DEF Matches
  <2>2. \A e \in Matches(t, n, l) : e \in Chain /\ Probe(l, e, n) # j
    BY <1>4 DEF Matches
  <2> QED BY <1>3, <2>1, <2>2
<1>7. Lookup(u, n, l) = Lookup(t, n, l)
  BY <1>4, <1>5, <1>6 DEF Lookup
<1> QED BY <1>7

\* The cell a put takes is the only one that may have the key already.
LEMMA OnlyCell ==
  ASSUME NEW n \in Nat, n > 0, NEW t \in [0..n-1 -> Cells], Tidy(t, n), NEW k \in Key,
         NEW d \in Usable(t, n, k), \A e \in Usable(t, n, k) : d <= e,
         Fresh(k, t, n) \/ NoHoles(t, n),
         NEW i \in Used(t, n), t[i].key = k
  PROVE  i = Probe(k, d, n)
<1>1. ~Fresh(k, t, n)
  BY DEF Fresh
<1>2. PICK f \in Chain : /\ Probe(k, f, n) = i
                         /\ \A e \in Chain : e < f => t[Probe(k, e, n)].in_use # 0
  BY <1>1 DEF NoHoles
<1>3. t[i].in_use = 1
  BY DEF Used, Tidy, Blank, CellOf
<1>4. f \in Usable(t, n, k) /\ d \in Chain
  BY <1>2, <1>3 DEF Usable, Matches
<1>5. d <= f /\ d \in Nat /\ f \in Nat
  BY <1>4 DEF Chain
<1>6. CASE d = f
  BY <1>2, <1>6
<1>7. CASE d # f
  <2>1. t[Probe(k, d, n)].in_use # 0
    BY <1>2, <1>4, <1>5, <1>7
  <2>2. t[Probe(k, d, n)].key = k
    BY <2>1 DEF Usable, Matches
  <2>3. Probe(k, d, n) \in Used(t, n)
    BY <1>5, <2>1, ProbeInTable DEF Used
  <2> QED BY <2>2, <2>3 DEF Tidy
<1> QED BY <1>6, <1>7

\* Table u is t with an entry of k and v in cell j.
Stored(t, u, n, j, k, v) ==
  /\ j \in 0..n-1
  /\ u \in [0..n-1 -> Cells] /\ \A i \in 0..n-1 : i # j => u[i] = t[i]
  /\ u[j].key = k /\ u[j].data = v /\ u[j].in_use = 1
  /\ t[j].in_use # 0 => t[j].key = k
  /\ Used(u, n) = Used(t, n) \cup {j}

\* What a put changes in the table.
LEMMA StoreCells ==
  ASSUME NEW n \in Nat, n > 0, NEW t \in [0..n-1 -> Cells], NEW k \in Key, NEW v \in Data,
         NEW d \in Usable(t, n, k),
         NEW u, u = [t EXCEPT ![Probe(k, d, n)] = CellOf(1, k, v)]
  PROVE  Stored(t, u, n, Probe(k, d, n), k, v)
<1> DEFINE j == Probe(k, d, n)
<1>1. d \in Chain /\ d \in Nat
  BY DEF Usable, Matches, Chain
<1>2. j \in 0..n-1
  BY <1>1, ProbeInTable
<1>3. t[j].in_use # 0 => t[j].key = k
  BY DEF Usable, Matches
<1> DEFINE c == CellOf(1, k, v)
<1>4. c.key = k /\ c.data = v /\ c.in_use = 1 /\ c \in Cells
  BY CellTypes DEF CellOf
<1>5. u = [t EXCEPT ![j] = c]
  OBVIOUS
<1> HIDE DEF c, j
<1>6. u[j] = c /\ (\A i \in 0..n-1 : i # j => u[i] = t[i]) /\ u \in [0..n-1 -> Cells]
  BY <1>2, <1>4, <1>5
<1>7. Used(u, n) = Used(t, n) \cup {j}
  BY <1>2, <1>4, <1>6 DEF Used
<1>8. Stored(t, u, n, j, k, v)
  BY <1>2, <1>3, <1>4, <1>6, <1>7 DEF Stored
<1> QED BY <1>8 DEF j

\* A put of a careful client keeps the table tidy.
LEMMA StoreTidy ==
  ASSUME NEW n \in Nat, n > 0, NEW t \in [0..n-1 -> Cells], Tidy(t, n), NEW k \in Key,
         NEW v \in Data, NEW d \in Usable(t, n, k), \A e \in Usable(t, n, k) : d <= e,
         Fresh(k, t, n) \/ NoHoles(t, n),
         NEW u, u = [t EXCEPT ![Probe(k, d, n)] = CellOf(1, k, v)]
  PROVE  Tidy(u, n)
<1> DEFINE j == Probe(k, d, n)
<1>0. d \in Chain
  BY DEF Usable, Matches
<1>a. Stored(t, u, n, j, k, v)
  BY StoreCells
<1>1. /\ j \in 0..n-1
      /\ u \in [0..n-1 -> Cells] /\ \A i \in 0..n-1 : i # j => u[i] = t[i]
      /\ u[j].key = k /\ u[j].data = v /\ u[j].in_use = 1
      /\ Used(u, n) = Used(t, n) \cup {j}
  BY <1>a DEF Stored
<1>2. \A i \in Used(t, n) : t[i].key = k => i = j
  BY OnlyCell
<1>3. Probe(k, d, n) = j
  OBVIOUS
<1> HIDE DEF j
<1>4. \A i \in 0..n-1 : u[i] = Blank \/ (u[i].in_use = 1 /\ u[i].data \in Data)
  BY <1>1 DEF Tidy
<1>5. InReach(u, n)
  BY <1>0, <1>1, <1>3 DEF Tidy, InReach
<1>6. \A i, l \in Used(u, n) : u[i].key = u[l].key => i = l
  <2> SUFFICES ASSUME NEW i \in Used(u, n), NEW l \in Used(u, n), u[i].key = u[l].key
               PROVE  i = l
    OBVIOUS
  <2>1. i \in 0..n-1 /\ l \in 0..n-1
    BY DEF Used
  <2>2. CASE i # j /\ l # j
    BY <1>1, <2>1, <2>2 DEF Tidy
  <2>3. CASE i = j /\ l # j
    BY <1>1, <1>2, <2>1, <2>3
  <2>4. CASE i # j /\ l = j
    BY <1>1, <1>2, <2>1, <2>4
  <2> QED BY <2>2, <2>3, <2>4
<1> QED BY <1>4, <1>5, <1>6 DEF Tidy

\* Nor does a put leave a hole before the cell it takes.
LEMMA StoreNoHoles ==
  ASSUME NEW n \in Nat, n > 0, NEW t \in [0..n-1 -> Cells], NoHoles(t, n), NEW k \in Key,
         NEW v \in Data, NEW d \in Usable(t, n, k), \A e \in Usable(t, n, k) : d <= e,
         NEW u, u = [t EXCEPT ![Probe(k, d, n)] = CellOf(1, k, v)]
  PROVE  NoHoles(u, n)
<1> DEFINE j == Probe(k, d, n)
<1>0. d \in Chain /\ d \in Nat
  BY DEF Usable, Matches, Chain
<1>a. Stored(t, u, n, j, k, v)
  BY StoreCells
<1>1. /\ j \in 0..n-1
      /\ \A i \in 0..n-1 : i # j => u[i] = t[i]
      /\ u[j].key = k /\ u[j].in_use = 1
      /\ Used(u, n) = Used(t, n) \cup {j}
  BY <1>a DEF Stored
<1>2. \A e \in Chain : e < d => t[Probe(k, e, n)].in_use # 0
  BY <1>0 DEF Usable, Chain
<1>3. \A l \in Key, e \in Chain : Probe(l, e, n) \in 0..n-1
  BY ProbeInChain
<1>4. Probe(k, d, n) = j
  OBVIOUS
<1> HIDE DEF j
<1>5. \A x \in 0..n-1 : t[x].in_use # 0 => u[x].in_use # 0
  BY <1>1
<1> SUFFICES ASSUME NEW i \in Used(u, n)
             PROVE  \E f \in Chain :
                      /\ Probe(u[i].key, f, n) = i
                      /\ \A e \in Chain : e < f => u[Probe(u[i].key, e, n)].in_use # 0
  BY DEF NoHoles
<1>6. CASE i = j
  BY <1>0, <1>1, <1>2, <1>3, <1>4, <1>5, <1>6
<1>7. CASE i # j
  <2>1. i \in Used(t, n) /\ u[i] = t[i] /\ t[i].key \in Key
    BY <1>1, <1>7 DEF Used, Cells
  <2>2. PICK f \in Chain :
          /\ Probe(t[i].key, f, n) = i
          /\ \A e \in Chain : e < f => t[Probe(t[i].key, e, n)].in_use # 0
    BY <2>1 DEF NoHoles
  <2> QED BY <1>3, <1>5, <2>1, <2>2
<1> QED BY <1>6, <1>7

\* Table u has the entries of t and one more, in one more cell.
OneMore(t, u, n, k, v) ==
  /\ Pairs(u, n) = Pairs(t, n) \cup {<<k, v>>}
  /\ Cardinality(Used(u, n)) = Cardinality(Used(t, n)) + 1

\* The put of a key that is absent adds one entry.
LEMMA StoreFresh ==
  ASSUME NEW n \in Nat, n > 0, NEW t \in [0..n-1 -> Cells], NEW k \in Key, NEW v \in Data,
         NEW d \in Usable(t, n, k), Fresh(k, t, n),
         NEW u, u = [t EXCEPT ![Probe(k, d, n)] = CellOf(1, k, v)]
  PROVE  OneMore(t, u, n, k, v)
<1> DEFINE j == Probe(k, d, n)
<1>1. /\ j \in 0..n-1 /\ \A i \in 0..n-1 : i # j => u[i] = t[i]
      /\ u[j].key = k /\ u[j].data = v
      /\ t[j].in_use # 0 => t[j].key = k
      /\ Used(u, n) = Used(t, n) \cup {j}
  <2>1. Stored(t, u, n, j, k, v)
    BY StoreCells
  <2> QED BY <2>1 DEF Stored
<1> HIDE DEF j
<1>2. j \notin Used(t, n)
  BY <1>1 DEF Fresh, Used
<1>3. \A i \in Used(t, n) : u[i] = t[i]
  BY <1>1, <1>2 DEF Used
<1>4. \A p : p \in Pairs(t, n) <=> \E i \in Used(t, n) : p = <<t[i].key, t[i].data>>
  BY DEF Pairs
<1>5. \A p : p \in Pairs(u, n) <=> \E i \in Used(u, n) : p = <<u[i].key, u[i].data>>
  BY DEF Pairs
<1>6. \A p : p \in Pairs(u, n) <=> p \in Pairs(t, n) \/ p = <<k, v>>
  <2> TAKE p
  <2>1. ASSUME p \in Pairs(u, n), p # <<k, v>> PROVE p \in Pairs(t, n)
    <3>1. PICK i \in Used(u, n) : p = <<u[i].key, u[i].data>>
      BY <1>5, <2>1
    <3>2. i # j
      BY <1>1, <2>1, <3>1
    <3>3. i \in Used(t, n) /\ u[i] = t[i]
      BY <1>1, <1>3, <3>2
    <3> QED BY <1>4, <3>1, <3>3
  <2>2. ASSUME p \in Pairs(t, n) PROVE p \in Pairs(u, n)
    <3>1. PICK i \in Used(t, n) : p = <<t[i].key, t[i].data>>
      BY <1>4, <2>2
    <3> QED BY <1>1, <1>3, <1>5, <3>1
  <2>3. <<k, v>> \in Pairs(u, n)
    BY <1>1, <1>5
  <2> QED BY <2>1, <2>2, <2>3
<1>7. Pairs(u, n) = Pairs(t, n) \cup {<<k, v>>}
  BY <1>6
<1>8. IsFiniteSet(Used(t, n))
  BY UsedFinite
<1>9. Cardinality(Used(t, n) \cup {j}) = Cardinality(Used(t, n)) + 1
  BY <1>2, <1>8, FS_AddElement
<1> QED BY <1>1, <1>7, <1>9 DEF OneMore

\* A removal keeps the table tidy and takes the entry of one key out of it.
LEMMA BlankTidy ==
  ASSUME NEW n \in Nat, n > 0, NEW t \in [0..n-1 -> Cells], Tidy(t, n), NEW j \in Used(t, n),
         NEW u, u = [t EXCEPT ![j] = Blank]
  PROVE  /\ u \in [0..n-1 -> Cells]
         /\ Tidy(u, n)
         /\ Fresh(t[j].key, u, n)
         /\ \A k, v : k # t[j].key => (<<k, v>> \in Pairs(t, n) <=> <<k, v>> \in Pairs(u, n))
<1>1. /\ u[j] = Blank /\ \A i \in 0..n-1 : i # j => u[i] = t[i]
      /\ u \in [0..n-1 -> Cells] /\ j \in 0..n-1
  BY CellTypes DEF Used
<1>2. Used(u, n) = Used(t, n) \ {j}
  BY <1>1 DEF Used, Blank, CellOf
<1>3. \A i \in Used(u, n) : u[i] = t[i] /\ i # j
  BY <1>1, <1>2 DEF Used
<1>4. Tidy(u, n)
  <2>1. \A i \in 0..n-1 : u[i] = Blank \/ (u[i].in_use = 1 /\ u[i].data \in Data)
    BY <1>1 DEF Tidy
  <2>2. InReach(u, n)
    BY <1>2, <1>3 DEF Tidy, InReach, Used
  <2> QED BY <1>2, <1>3, <2>1, <2>2 DEF Tidy
<1>5. Fresh(t[j].key, u, n)
  BY <1>2, <1>3 DEF Fresh, Tidy
<1>6. \A k, v : k # t[j].key => (<<k, v>> \in Pairs(t, n) <=> <<k, v>> \in Pairs(u, n))
  <2> TAKE k, v
  <2> HAVE k # t[j].key
  <2>1. <<k, v>> \in Pairs(t, n) <=> \E i \in Used(t, n) : t[i].key = k /\ t[i].data = v
    BY DEF Pairs
  <2>2. <<k, v>> \in Pairs(u, n) <=> \E i \in Used(u, n) : u[i].key = k /\ u[i].data = v
    BY DEF Pairs
  <2> QED BY <1>2, <1>3, <2>1, <2>2
<1> QED BY <1>1, <1>4, <1>5, <1>6

\* A table of blank cells.
LEMMA BlankTable ==
  ASSUME NEW n \in Nat, NEW t, \A i \in 0..n-1 : t[i] = Blank
  PROVE  /\ Used(t, n) = {} /\ Tidy(t, n) /\ NoHoles(t, n) /\ Pairs(t, n) = {}
         /\ \A k : Fresh(k, t, n)
<1>1. Used(t, n) = {}
  BY DEF Used, Blank, CellOf
<1> QED BY <1>1 DEF Tidy, InReach, NoHoles, Pairs, Fresh, Used

\* The entries before a cell, and with that cell.
LEMMA PairsGrow ==
  ASSUME NEW i \in Nat, NEW t
  PROVE  /\ t[i].in_use # 0 => Pairs(t, i + 1) = Pairs(t, i) \cup {<<t[i].key, t[i].data>>}
         /\ \A j \in Nat : i <= j /\ (\A e \in i..j-1 : t[e].in_use = 0) => Pairs(t, j) = Pairs(t, i)
<1>1. ASSUME t[i].in_use # 0
      PROVE  Pairs(t, i + 1) = Pairs(t, i) \cup {<<t[i].key, t[i].data>>}
  <2>1. Used(t, i + 1) = Used(t, i) \cup {i}
    BY <1>1 DEF Used
  <2> QED BY <2>1 DEF Pairs
<1>2. ASSUME NEW j \in Nat, i <= j, \A e \in i..j-1 : t[e].in_use = 0
      PROVE  Pairs(t, j) = Pairs(t, i)
  <2>1. Used(t, j) = Used(t, i)
    BY <1>2 DEF Used
  <2> QED BY <2>1 DEF Pairs
<1> QED BY <1>1, <1>2

-----------------------------------------------------------------------------
\* Table t holds what the rehash of frame fr has put so far.
Holds(fr, t, n) == Pairs(t, n) = Pairs(fr.old, fr.i)

\* The rehash of frame fr is putting k and v.
Putting(fr, k, v) ==
  /\ fr.i < fr.n /\ fr.old[fr.i].in_use # 0
  /\ k = fr.old[fr.i].key /\ v = fr.old[fr.i].data

\* A rehash inside a put of a rehash starts from what the outer one has put.
NestInv ==
  \A f \in 1..Len(frames) :
    /\ frames[f].n > 0
    /\ Tidy(frames[f].old, frames[f].n)
    /\ client = "overwriter" => NoHoles(frames[f].old, frames[f].n)
    /\ client = "remover" \/ f > 1 => Fresh(frames[f].key, frames[f].old, frames[f].n)
    /\ frames[f].val \in Data
    /\ Pairs(frames[f].old, frames[f].n) \subseteq Pairs(frames[1].old, frames[1].n)
    /\ f < Len(frames) =>
         /\ Holds(frames[f], frames[f+1].old, frames[f+1].n)
         /\ Putting(frames[f], frames[f+1].key, frames[f+1].val)

TopInv ==
  frames # <<>> =>
    /\ Holds(frames[Len(frames)], data, table_size)
    /\ pc = "put" => Putting(frames[Len(frames)], key, val)

EntriesInv ==
  /\ Tidy(data, table_size)
  /\ client = "overwriter" => NoHoles(data, table_size)
  /\ pc = "put" => val \in Data
  /\ pc = "put" /\ (client = "remover" \/ frames # <<>>) => Fresh(key, data, table_size)
  /\ client = "remover" => size = Cardinality(Used(data, table_size))

CarefulInv == CleanInv /\ NestInv /\ TopInv /\ EntriesInv

Careful == Junk \subseteq {Blank} /\ Clients \subseteq {"overwriter", "remover"}

\* The frame of the innermost rehash changes, the others stay.
LEMMA TopReplaced ==
  ASSUME NEW s \in Seq(Frame), s # <<>>, NEW x \in Frame,
         NEW r, r = [s EXCEPT ![Len(s)] = x]
  PROVE  /\ Len(r) = Len(s) /\ r[Len(s)] = x
         /\ \A f \in 1..Len(s) : f # Len(s) => r[f] = s[f]
<1>1. Len(s) \in 1..Len(s)
  OBVIOUS
<1> QED BY <1>1

LEMMA InitCareful == Init => CarefulInv
<1> SUFFICES ASSUME Init PROVE CarefulInv
  OBVIOUS
<1>1. \A i \in 0..table_size-1 : data[i] = Blank
  BY DEF Init
<1>2. table_size \in Nat
  BY DEF Init
<1>3. Used(data, table_size) = {} /\ Tidy(data, table_size) /\ NoHoles(data, table_size)
  BY <1>1, <1>2, BlankTable
<1>4. frames = <<>> /\ Len(frames) = 0 /\ pc = "idle" /\ size = 0
  BY DEF Init
<1>5. Cardinality({}) = 0
  BY FS_EmptySet
<1>6. EntriesInv
  BY <1>3, <1>4, <1>5 DEF EntriesInv
<1> QED BY <1>4, <1>6, InitClean DEF CarefulInv, NestInv, TopInv

\* gfc_map_put with room in the table.
LEMMA CarefulStore ==
  ASSUME Careful, CarefulInv, Store
  PROVE  NestInv' /\ TopInv' /\ EntriesInv'
<1>0. Shape /\ NestInv /\ TopInv /\ EntriesInv /\ client \in {"overwriter", "remover"}
  BY DEF Careful, CarefulInv, CleanInv, Shape
<1>1. table_size \in Nat /\ table_size > 0 /\ data \in [0..table_size-1 -> Cells] /\ key \in Key
  BY <1>0 DEF Store, Shape
<1>2. /\ Tidy(data, table_size) /\ val \in Data
      /\ Fresh(key, data, table_size) \/ (client = "overwriter" /\ NoHoles(data, table_size))
  BY <1>0 DEF EntriesInv, Store
<1>3. PICK d \in Usable(data, table_size, key) :
        /\ \A e \in Usable(data, table_size, key) : d <= e
        /\ data' = [data EXCEPT ![Probe(key, d, table_size)] = CellOf(1, key, val)]
  BY DEF Store
<1>4. /\ Tidy(data', table_size)
      /\ NoHoles(data, table_size) => NoHoles(data', table_size)
      /\ Fresh(key, data, table_size) =>
           /\ Pairs(data', table_size) = Pairs(data, table_size) \cup {<<key, val>>}
           /\ Cardinality(Used(data', table_size)) = Cardinality(Used(data, table_size)) + 1
  <2>1. Tidy(data', table_size)
    BY <1>1, <1>2, <1>3, StoreTidy
  <2>2. ASSUME NoHoles(data, table_size) PROVE NoHoles(data', table_size)
    BY <1>1, <1>2, <1>3, <2>2, StoreNoHoles
  <2>3. ASSUME Fresh(key, data, table_size)
        PROVE  OneMore(data, data', table_size, key, val)
    BY <1>1, <1>2, <1>3, <2>3, StoreFresh
  <2> QED BY <2>1, <2>2, <2>3 DEF OneMore
<1>5. client' = client /\ table_size' = table_size /\ size' = size + 1 /\ pc' # "put"
      /\ pc = "put"
  BY DEF Store, Return
<1>6. EntriesInv'
  BY <1>0, <1>4, <1>5 DEF EntriesInv
<1>7. CASE frames = <<>>
  BY <1>6, <1>7 DEF Store, Return, NestInv, TopInv
<1>8. CASE frames # <<>>
  <2> DEFINE L == Len(frames)
             T == frames[L]
  <2>1. L \in Nat /\ L >= 1 /\ T \in Frame
    BY <1>0, <1>8 DEF Shape
  <2>2. T.i \in Nat /\ Putting(T, key, val) /\ Holds(T, data, table_size)
    BY <1>0, <1>5, <1>8, <2>1, FrameFields DEF TopInv
  <2>3. frames' = [frames EXCEPT ![L] = [T EXCEPT !.i = @ + 1]]
    BY <1>8 DEF Store, Return
  <2> DEFINE x == [T EXCEPT !.i = @ + 1]
  <2>a. x \in Frame
    <3>1. T.i + 1 \in 0..T.n
      BY <2>1, <2>2, FrameFields DEF Putting
    <3> HIDE DEF T
    <3> QED BY <2>1, <3>1, FrameAdvance
  <2>b. frames' = [frames EXCEPT ![L] = x] /\ frames \in Seq(Frame)
    BY <1>0, <2>3 DEF Shape
  <2> HIDE DEF x
  <2>4. /\ Len(frames') = L /\ \A f \in 1..L : f # L => frames'[f] = frames[f]
        /\ frames'[L] = x
    BY <1>8, <2>a, <2>b, TopReplaced
  <2>5. /\ frames'[L].old = T.old /\ frames'[L].n = T.n /\ frames'[L].key = T.key
        /\ frames'[L].val = T.val /\ frames'[L].i = T.i + 1
    BY <2>1, <2>4 DEF Frame, x
  <2>6. Pairs(data', table_size) = Pairs(T.old, T.i + 1)
    <3>1. Pairs(data', table_size) = Pairs(data, table_size) \cup {<<key, val>>}
      BY <1>0, <1>4, <1>5, <1>8 DEF EntriesInv
    <3>2. Pairs(T.old, T.i + 1) = Pairs(T.old, T.i) \cup {<<key, val>>}
      BY <2>2, PairsGrow DEF Putting
    <3> QED BY <2>2, <3>1, <3>2 DEF Holds
  <2> HIDE DEF L, T
  <2>7. TopInv'
    BY <1>5, <2>4, <2>5, <2>6 DEF TopInv, Holds
  <2>8. NestInv'
    <3>1. \A f \in 1..L : /\ frames'[f].old = frames[f].old /\ frames'[f].n = frames[f].n
                          /\ frames'[f].key = frames[f].key /\ frames'[f].val = frames[f].val
                          /\ f < L => frames'[f] = frames[f]
      <4> TAKE f \in 1..L
      <4>1. CASE f = L
        BY <2>5, <4>1 DEF T
      <4>2. CASE f # L
        BY <2>4, <4>2
      <4> QED BY <2>1, <4>1, <4>2
    <3>2. 1 \in 1..L /\ \A f \in 1..L : f < L => f + 1 \in 1..L
      BY <2>1
    <3> QED BY <1>0, <1>5, <2>4, <3>1, <3>2 DEF NestInv, L
  <2> QED BY <1>6, <2>7, <2>8
<1> QED BY <1>7, <1>8

\* gfc_map_rehash up to its loop: the table becomes the old table of a frame.
LEMMA CarefulRehash ==
  ASSUME Careful, CarefulInv, Rehash
  PROVE  NestInv' /\ TopInv' /\ EntriesInv'
<1>0. Shape /\ NestInv /\ TopInv /\ EntriesInv /\ client \in {"overwriter", "remover"}
  BY DEF Careful, CarefulInv, CleanInv, Shape
<1>1. table_size \in Nat /\ table_size > 0 /\ table_size' = 2 * table_size /\ size' = 0
      /\ pc = "put" /\ pc' = "rehash" /\ client' = client
  BY <1>0 DEF Rehash, Shape
<1> DEFINE L == Len(frames)
           new == [old |-> data, n |-> table_size, i |-> 0, key |-> key, val |-> val]
<1>2. \A i \in 0..table_size'-1 : data'[i] = Blank
  <2>1. PICK junk \in [0..table_size-1 -> Junk] :
          data' = [i \in 0..2*table_size-1 |->
                     IF i < table_size THEN junk[i] ELSE Blank]
    BY DEF Rehash
  <2>2. \A i \in 0..table_size-1 : junk[i] = Blank
    BY DEF Careful
  <2> QED BY <1>1, <2>1, <2>2
<1>3. /\ Used(data', table_size') = {} /\ Tidy(data', table_size')
      /\ NoHoles(data', table_size') /\ Pairs(data', table_size') = {}
  <2>1. table_size' \in Nat
    BY <1>1
  <2> QED BY <1>2, <2>1, BlankTable
<1>4. EntriesInv'
  <2>1. Cardinality({}) = 0
    BY FS_EmptySet
  <2> QED BY <1>1, <1>3, <2>1 DEF EntriesInv
<1>5. new \in Frame /\ frames' = Append(frames, new) /\ frames \in Seq(Frame) /\ L \in Nat
  <2>1. frames' = Append(frames, new) /\ frames \in Seq(Frame) /\ L \in Nat
    BY <1>0 DEF Rehash, Shape
  <2>2. 0 \in 0..table_size
    BY <1>1
  <2>3. new \in Frame
    BY <1>0, <1>1, <2>2, FrameIntro DEF Shape
  <2> QED BY <2>1, <2>3
<1>6. /\ new.old = data /\ new.n = table_size /\ new.i = 0
      /\ new.key = key /\ new.val = val
  OBVIOUS
<1> HIDE DEF new
<1>7. /\ Len(frames') = L + 1 /\ frames' # <<>>
      /\ \A f \in 1..L : frames'[f] = frames[f]
      /\ frames'[L+1] = new
  BY <1>5
<1> HIDE DEF L
<1>8. TopInv'
  <2>1. Pairs(data, 0) = {}
    BY DEF Pairs, Used
  <2> QED BY <1>1, <1>3, <1>6, <1>7, <2>1 DEF TopInv, Holds
<1>9. Pairs(data, table_size) \subseteq Pairs(frames'[1].old, frames'[1].n)
  <2>1. CASE L = 0
    BY <1>6, <1>7, <2>1
  <2>2. CASE L # 0
    <3>1. L \in 1..L /\ 1 \in 1..L /\ frames # <<>> /\ frames[L] \in Frame
      BY <1>5, <2>2 DEF L
    <3>2. Pairs(data, table_size) = Pairs(frames[L].old, frames[L].i)
      BY <1>0, <3>1 DEF TopInv, Holds, L
    <3>3. Pairs(frames[L].old, frames[L].i) \subseteq Pairs(frames[L].old, frames[L].n)
      BY <3>1, FrameFields DEF Pairs, Used
    <3>4. Pairs(frames[L].old, frames[L].n) \subseteq Pairs(frames[1].old, frames[1].n)
      BY <1>0, <3>1 DEF NestInv, L
    <3> QED BY <1>7, <3>1, <3>2, <3>3, <3>4
  <2> QED BY <2>1, <2>2
<1>10. NestInv'
  <2> SUFFICES ASSUME NEW f \in 1..L+1
               PROVE  /\ frames'[f].n > 0
                      /\ Tidy(frames'[f].old, frames'[f].n)
                      /\ client = "overwriter" => NoHoles(frames'[f].old, frames'[f].n)
                      /\ client = "remover" \/ f > 1 =>
                           Fresh(frames'[f].key, frames'[f].old, frames'[f].n)
                      /\ frames'[f].val \in Data
                      /\ Pairs(frames'[f].old, frames'[f].n)
                           \subseteq Pairs(frames'[1].old, frames'[1].n)
                      /\ f < L + 1 =>
                           /\ Holds(frames'[f], frames'[f+1].old, frames'[f+1].n)
                           /\ Putting(frames'[f], frames'[f+1].key, frames'[f+1].val)
    BY <1>1, <1>7 DEF NestInv
  <2>1. CASE f = L + 1
    <3>1. f > 1 => frames # <<>>
      BY <1>5, <2>1 DEF L
    <3> QED BY <1>0, <1>1, <1>5, <1>6, <1>7, <1>9, <2>1, <3>1 DEF EntriesInv
  <2>2. CASE f = L
    <3>1. frames # <<>> /\ 1 \in 1..L /\ f \in 1..Len(frames) /\ ~(f < Len(frames))
      BY <1>5, <2>2 DEF L
    <3>2. frames'[f] = frames[f] /\ frames'[1] = frames[1] /\ frames'[f+1] = new
      BY <1>7, <2>2, <3>1
    <3>3. Holds(frames[f], data, table_size) /\ Putting(frames[f], key, val)
      BY <1>0, <1>1, <2>2, <3>1 DEF TopInv, L
    <3> QED BY <1>0, <1>6, <3>1, <3>2, <3>3 DEF NestInv
  <2>3. CASE f < L
    <3>1. f \in 1..L /\ f + 1 \in 1..L /\ 1 \in 1..L
      BY <1>5, <2>3
    <3>2. frames'[f] = frames[f] /\ frames'[1] = frames[1] /\ frames'[f+1] = frames[f+1]
      BY <1>7, <3>1
    <3> QED BY <1>0, <2>3, <3>1, <3>2 DEF NestInv, L
  <2>4. f = L + 1 \/ f = L \/ f < L
    BY <1>5
  <2> QED BY <2>1, <2>2, <2>3, <2>4, Zenon
<1> QED BY <1>4, <1>8, <1>10

\* The loop of gfc_map_rehash: the next key is not in the new table yet.
LEMMA CarefulRehashPut ==
  ASSUME Careful, CarefulInv, RehashPut
  PROVE  NestInv' /\ TopInv' /\ EntriesInv'
<1>0. Shape /\ NestInv /\ TopInv /\ EntriesInv
  BY DEF CarefulInv, CleanInv
<1> DEFINE L == Len(frames)
           T == frames[L]
<1>1. frames # <<>> /\ L \in Nat /\ L >= 1 /\ T \in Frame /\ Top = T
  BY <1>0 DEF RehashPut, Shape, Top
<1>2. PICK j \in ToPut :
        /\ \A e \in ToPut : j <= e
        /\ frames' = [frames EXCEPT ![L].i = j]
        /\ key' = Top.old[j].key /\ val' = Top.old[j].data
  BY DEF RehashPut
<1>3. /\ T.n \in Nat /\ T.i \in Nat /\ j \in T.i..T.n-1 /\ j \in Nat /\ T.old[j].in_use # 0
      /\ \A e \in T.i..j-1 : T.old[e].in_use = 0
  <2>1. T.n \in Nat /\ T.i \in Nat
    BY <1>1, FrameFields
  <2>2. j \in T.i..T.n-1 /\ T.old[j].in_use # 0
    BY <1>1, <1>2 DEF ToPut
  <2>3. ASSUME NEW e \in T.i..j-1 PROVE T.old[e].in_use = 0
    <3>1. e \in T.i..T.n-1 /\ ~(j <= e)
      BY <2>1, <2>2
    <3>2. e \notin ToPut
      BY <1>2, <3>1
    <3> QED BY <1>1, <3>1, <3>2 DEF ToPut
  <2> QED BY <2>1, <2>2, <2>3
<1> DEFINE x == [T EXCEPT !.i = j]
<1>a. x \in Frame
  <2>1. j \in 0..T.n
    BY <1>3
  <2> HIDE DEF T
  <2> QED BY <1>1, <2>1, FrameAdvance
<1>b. frames' = [frames EXCEPT ![L] = x] /\ frames \in Seq(Frame)
  BY <1>0, <1>2 DEF Shape
<1> HIDE DEF x
<1>4. /\ Len(frames') = L /\ \A f \in 1..L : f # L => frames'[f] = frames[f]
      /\ frames'[L] = x
  BY <1>1, <1>a, <1>b, TopReplaced
<1>5. /\ frames'[L].old = T.old /\ frames'[L].n = T.n /\ frames'[L].key = T.key
      /\ frames'[L].val = T.val /\ frames'[L].i = j
  BY <1>1, <1>4 DEF Frame, x
<1>6. Pairs(T.old, j) = Pairs(T.old, T.i)
  <2>1. T.i <= j
    BY <1>3
  <2> HIDE DEF T, L
  <2> QED BY <1>3, <2>1, PairsGrow
<1>7. /\ UNCHANGED <<client, table_size, size, data>> /\ pc' = "put" /\ pc = "rehash"
      /\ key' = T.old[j].key /\ val' = T.old[j].data
  BY <1>1, <1>2 DEF RehashPut
<1>8. L \in 1..L /\ Tidy(T.old, T.n) /\ Holds(T, data, table_size)
  BY <1>0, <1>1 DEF NestInv, TopInv
<1>9. T.old[j].data \in Data /\ j \in Used(T.old, T.n)
  BY <1>3, <1>8 DEF Tidy, Blank, CellOf, Used
<1>10. Fresh(T.old[j].key, data, table_size)
  <2>1. Fresh(T.old[j].key, T.old, j)
    BY <1>3, <1>8, <1>9 DEF Fresh, Used, Tidy
  <2>2. \A v : <<T.old[j].key, v>> \notin Pairs(T.old, j)
    BY <2>1, FreshPairs
  <2>3. \A v : <<T.old[j].key, v>> \notin Pairs(data, table_size)
    BY <1>6, <1>8, <2>2 DEF Holds
  <2> QED BY <2>3, FreshPairs
<1>11. EntriesInv'
  BY <1>0, <1>7, <1>9, <1>10 DEF EntriesInv
<1> HIDE DEF L, T
<1>12. TopInv'
  <2>1. Putting(frames'[L], key', val')
    BY <1>3, <1>5, <1>7 DEF Putting
  <2>2. Holds(frames'[L], data', table_size')
    BY <1>5, <1>6, <1>7, <1>8 DEF Holds
  <2> QED BY <1>4, <2>1, <2>2 DEF TopInv
<1>13. NestInv'
  <2>1. \A f \in 1..L : /\ frames'[f].old = frames[f].old /\ frames'[f].n = frames[f].n
                        /\ frames'[f].key = frames[f].key /\ frames'[f].val = frames[f].val
                        /\ f < L => frames'[f] = frames[f]
    <3> TAKE f \in 1..L
    <3>1. CASE f = L
      BY <1>5, <3>1 DEF T
    <3>2. CASE f # L
      BY <1>4, <3>2
    <3> QED BY <1>1, <3>1, <3>2
  <2>2. 1 \in 1..L /\ \A f \in 1..L : f < L => f + 1 \in 1..L
    BY <1>1
  <2> QED BY <1>0, <1>4, <1>7, <2>1, <2>2 DEF NestInv, L
<1> QED BY <1>11, <1>12, <1>13

\* The loop is done: the new table has the entries of the old one, and the put
\* that asked for the rehash still finds its key absent.
LEMMA CarefulRehashDone ==
  ASSUME Careful, CarefulInv, RehashDone
  PROVE  /\ NestInv' /\ TopInv' /\ EntriesInv'
         /\ Pairs(data, table_size) = Pairs(frames[Len(frames)].old, frames[Len(frames)].n)
<1>0. Shape /\ NestInv /\ TopInv /\ EntriesInv
  BY DEF CarefulInv, CleanInv
<1> DEFINE L == Len(frames)
           T == frames[L]
<1>1. frames # <<>> /\ L \in Nat /\ L >= 1 /\ T \in Frame /\ Top = T
  BY <1>0 DEF RehashDone, Shape, Top
<1>2. /\ ToPut = {} /\ key' = T.key /\ val' = T.val /\ frames' = SubSeq(frames, 1, L - 1)
      /\ pc' = "put" /\ UNCHANGED <<client, table_size, size, data>>
  BY <1>1 DEF RehashDone, Below
<1>3. T.n \in Nat /\ T.i \in Nat /\ T.i <= T.n /\ \A e \in T.i..T.n-1 : T.old[e].in_use = 0
  BY <1>1, <1>2, FrameFields DEF ToPut
<1>4. Len(frames') = L - 1 /\ \A f \in 1..L-1 : frames'[f] = frames[f]
  <2>1. \A f \in 1..L-1 : frames[f] \in Frame
    BY <1>0, <1>1 DEF Shape
  <2> HIDE DEF L, T
  <2> QED BY <1>1, <1>2, <2>1, SubSeqProperties
<1>5. L \in 1..L /\ Holds(T, data, table_size) /\ Tidy(T.old, T.n) /\ T.val \in Data
      /\ (client = "remover" \/ L > 1 => Fresh(T.key, T.old, T.n))
  BY <1>0, <1>1 DEF NestInv, TopInv
<1>6. Pairs(data, table_size) = Pairs(T.old, T.n)
  <2> HIDE DEF T
  <2>1. Pairs(T.old, T.n) = Pairs(T.old, T.i)
    BY <1>3, PairsGrow
  <2> QED BY <1>5, <2>1 DEF Holds
<1>7. client = "remover" \/ L > 1 => Fresh(T.key, data, table_size)
  BY <1>5, <1>6, FreshPairs
<1>8. frames' # <<>> => L > 1
  BY <1>1, <1>2, <1>4
<1>9. EntriesInv'
  BY <1>0, <1>2, <1>5, <1>7, <1>8 DEF EntriesInv
<1>10. TopInv'
  <2> SUFFICES ASSUME L > 1
               PROVE  /\ Holds(frames'[L-1], data, table_size)
                      /\ Putting(frames'[L-1], T.key, T.val)
    BY <1>2, <1>4, <1>8 DEF TopInv
  <2>1. L - 1 \in 1..L /\ L - 1 \in 1..L-1 /\ L - 1 < L /\ (L - 1) + 1 = L
    BY <1>1
  <2>2. Holds(frames[L-1], T.old, T.n) /\ Putting(frames[L-1], T.key, T.val)
    BY <1>0, <2>1 DEF NestInv
  <2> QED BY <1>4, <1>6, <2>1, <2>2 DEF Holds
<1>11. NestInv'
  <2> SUFFICES ASSUME NEW f \in 1..L-1
               PROVE  /\ frames'[f] = frames[f] /\ frames'[1] = frames[1]
                      /\ f \in 1..L
                      /\ f < L - 1 => f < L /\ frames'[f+1] = frames[f+1]
    BY <1>0, <1>2, <1>4 DEF NestInv
  <2>1. 1 \in 1..L-1 /\ f \in 1..L /\ (f < L - 1 => f < L /\ f + 1 \in 1..L-1)
    BY <1>1
  <2> QED BY <1>4, <2>1
<1> QED BY <1>6, <1>9, <1>10, <1>11

\* Calls on a map no put is under way in.
LEMMA CarefulCalls ==
  ASSUME Careful, CarefulInv,
         \/ \E k \in Key, v \in Data : Put(k, v)
         \/ \E k \in Key : Get(k) \/ Remove(k)
         \/ Iterate \/ MapFree \/ DeepFree \/ OutOfMemory \/ UNCHANGED mapVars
  PROVE  NestInv' /\ TopInv' /\ EntriesInv'
<1>0. Shape /\ NestInv /\ TopInv /\ EntriesInv /\ client \in {"overwriter", "remover"}
  BY DEF Careful, CarefulInv, CleanInv, Shape
<1>e. frames' = <<>> => NestInv' /\ TopInv'
  BY DEF NestInv, TopInv
<1>f. pc \in {"idle", "freed"} => frames = <<>>
  BY <1>0 DEF Shape
<1>1. ASSUME NEW k \in Key, NEW v \in Data, Put(k, v) PROVE NestInv' /\ TopInv' /\ EntriesInv'
  <2>1. /\ pc = "idle" /\ UNCHANGED <<client, table_size, size, data, frames>>
        /\ key' = k /\ val' = v /\ (client = "remover" => Lookup(data, table_size, k) = Null)
    BY <1>1 DEF Put, TheClient
  <2>2. table_size \in Nat /\ table_size > 0 /\ data \in [0..table_size-1 -> Cells]
        /\ Tidy(data, table_size)
    BY <1>0, <2>1 DEF Shape, EntriesInv
  <2>3. client = "remover" => Fresh(k, data, table_size)
    <3>1. client = "remover" => \A u : <<k, u>> \notin Pairs(data, table_size)
      BY <2>1, <2>2, LookupOfPair
    <3> QED BY <3>1, FreshPairs
  <2> QED BY <1>0, <1>e, <1>f, <2>1, <2>3 DEF EntriesInv
<1>2. ASSUME NEW k \in Key, Remove(k), Matches(data, table_size, k) # {}
      PROVE  NestInv' /\ TopInv' /\ EntriesInv'
  <2>1. /\ pc = "idle" /\ client = "remover" /\ size' = size - 1
        /\ UNCHANGED <<client, pc, table_size, frames>>
    BY <1>0, <1>2 DEF Remove
  <2>2. PICK d \in Matches(data, table_size, k) :
          data' = [data EXCEPT ![Probe(k, d, table_size)] = Blank]
    BY <1>2 DEF Remove
  <2>3. table_size \in Nat /\ table_size > 0 /\ data \in [0..table_size-1 -> Cells]
        /\ Tidy(data, table_size)
    BY <1>0, <2>1 DEF Shape, EntriesInv
  <2>4. Probe(k, d, table_size) \in Used(data, table_size)
    <3>1. d \in Chain /\ data[Probe(k, d, table_size)].in_use = 1
      BY DEF Matches
    <3>2. Probe(k, d, table_size) \in 0..table_size-1
      BY <2>3, <3>1, ProbeInChain
    <3> QED BY <3>1, <3>2 DEF Used
  <2>5. Tidy(data', table_size)
        /\ Cardinality(Used(data', table_size)) = Cardinality(Used(data, table_size)) - 1
    BY <2>2, <2>3, <2>4, BlankTidy, BlankCounts
  <2> QED BY <1>0, <1>e, <1>f, <2>1, <2>5 DEF EntriesInv
<1>3. ASSUME Release, pc = "idle" PROVE NestInv' /\ TopInv' /\ EntriesInv'
  <2>1. table_size' = 0 /\ size' = 0 /\ frames' = <<>> /\ pc' = "freed"
    BY <1>3, <1>f DEF Release
  <2>2. Tidy(data', 0) /\ NoHoles(data', 0) /\ Used(data', 0) = {}
    BY BlankTable
  <2>3. Cardinality({}) = 0
    BY FS_EmptySet
  <2> QED BY <1>e, <2>1, <2>2, <2>3 DEF EntriesInv
<1>4. CASE OutOfMemory
  <2>1. frames' = <<>> /\ pc' = "idle" /\ UNCHANGED <<client, table_size, size, data>>
    BY <1>4 DEF OutOfMemory
  <2> QED BY <1>0, <1>e, <2>1 DEF EntriesInv
<1>5. ASSUME UNCHANGED <<client, pc, table_size, size, data, frames>>, pc = "idle"
      PROVE  NestInv' /\ TopInv' /\ EntriesInv'
  BY <1>0, <1>5, <1>e, <1>f DEF EntriesInv
<1>6. ASSUME NEW k \in Key, Get(k) \/ (Remove(k) /\ Matches(data, table_size, k) = {})
      PROVE  NestInv' /\ TopInv' /\ EntriesInv'
  BY <1>5, <1>6 DEF Get, Remove
<1>7. CASE Iterate
  BY <1>5, <1>7 DEF Iterate
<1>8. CASE MapFree \/ (DeepFree /\ Release)
  BY <1>3, <1>8 DEF MapFree, DeepFree
<1>9. CASE UNCHANGED mapVars
  BY <1>0, <1>9 DEF mapVars, NestInv, TopInv, EntriesInv
<1> QED BY <1>1, <1>2, <1>4, <1>6, <1>7, <1>8, <1>9 DEF DeepFree

LEMMA CarefulStep ==
  ASSUME Careful, CarefulInv, [Next]_mapVars
  PROVE  CarefulInv'
<1>1. CleanInv'
  BY NextClean DEF Careful, CarefulInv
<1>2. NestInv' /\ TopInv' /\ EntriesInv'
  BY CarefulStore, CarefulRehash, CarefulRehashPut, CarefulRehashDone, CarefulCalls
     DEF Next, Step
<1> QED BY <1>1, <1>2 DEF CarefulInv

LEMMA CarefulInductive ==
  ASSUME Careful
  PROVE  Spec => []CarefulInv
<1>1. CarefulInv /\ [Next]_mapVars => CarefulInv'
  BY CarefulStep
<1> QED BY <1>1, InitCareful, PTL DEF Spec

-----------------------------------------------------------------------------
(***************************************************************************)
(* For a client that never puts a key that is present, gfc_map_size is the *)
(* number of keys, after any removals, rehashes and failed puts.           *)
(***************************************************************************)
THEOREM SizeCorrect ==
  ASSUME Careful
  PROVE  Spec => []SizeIsKeys
<1>1. CarefulInv => SizeIsKeys
  <2> SUFFICES ASSUME CarefulInv, client = "remover", pc = "idle"
               PROVE  size = Cardinality({k \in Key : Lookup(data, table_size, k) # Null})
    BY DEF SizeIsKeys
  <2> DEFINE n == table_size
             U == Used(data, n)
             K == {k \in Key : Lookup(data, n, k) # Null}
             f == [i \in U |-> data[i].key]
  <2>1. n \in Nat /\ n > 0 /\ data \in [0..n-1 -> Cells] /\ Tidy(data, n)
    BY DEF CarefulInv, CleanInv, Shape, EntriesInv
  <2>2. size = Cardinality(U)
    BY DEF CarefulInv, EntriesInv
  <2>3. \A i \in U : data[i].key \in K
    <3> TAKE i \in U
    <3>1. data[i].key \in Key /\ <<data[i].key, data[i].data>> \in Pairs(data, n)
      BY <2>1 DEF Used, Cells, Pairs
    <3>2. data[i].data \in Data /\ Lookup(data, n, data[i].key) = data[i].data
      BY <2>1, <3>1, LookupOfPair
    <3> QED BY <3>1, <3>2
  <2>4. \A k \in K : \E i \in U : data[i].key = k
    <3> TAKE k \in K
    <3>1. Matches(data, n, k) # {}
      BY <2>1, LookupOfPair
    <3>2. <<k, Lookup(data, n, k)>> \in Pairs(data, n)
      BY <2>1, <3>1, LookupOfPair
    <3> QED BY <3>2 DEF Pairs
  <2>5. \A i, l \in U : data[i].key = data[l].key => i = l
    BY <2>1 DEF Tidy
  <2>6. IsFiniteSet(U)
    BY <2>1, UsedFinite
  <2> HIDE DEF U, K
  <2>7. f \in [U -> K] /\ \A i \in U : f[i] = data[i].key
    BY <2>3
  <2> HIDE DEF f
  <2>8. f \in Injection(U, K)
    BY <2>5, <2>7 DEF Injection, IsInjective
  <2>9. f \in Surjection(U, K)
    BY <2>4, <2>7 DEF Surjection
  <2>10. f \in Bijection(U, K)
    BY <2>8, <2>9 DEF Bijection
  <2>11. ExistsBijection(U, K)
    BY <2>10 DEF ExistsBijection
  <2>12. Cardinality(U) = Cardinality(K)
    BY <2>6, <2>11, FS_Bijection
  <2> QED BY <2>2, <2>12 DEF K
<1> QED BY <1>1, CarefulInductive, PTL

-----------------------------------------------------------------------------
\* What the map holds for its clients, as DictView sees it.
Dict == IF pc = "freed" THEN [k \in Key |-> Null] ELSE Contents

\* A table of the map, for the lemmas on tables.
LEMMA MapTable ==
  ASSUME CarefulInv, pc # "freed"
  PROVE  /\ table_size \in Nat /\ table_size > 0 /\ data \in [0..table_size-1 -> Cells]
         /\ Tidy(data, table_size)
BY DEF CarefulInv, CleanInv, Shape, EntriesInv

\* The table a rehash fills has no entry the first old table had not.
LEMMA NoNewEntries ==
  ASSUME CarefulInv, frames # <<>>
  PROVE  /\ Pairs(data, table_size) \subseteq Pairs(frames[1].old, frames[1].n)
         /\ frames[1].n \in Nat /\ frames[1].n > 0
         /\ frames[1].old \in [0..frames[1].n-1 -> Cells] /\ Tidy(frames[1].old, frames[1].n)
<1> DEFINE L == Len(frames)
<1>0. Shape /\ NestInv /\ TopInv
  BY DEF CarefulInv, CleanInv
<1>1. L \in 1..L /\ 1 \in 1..L /\ frames[L] \in Frame /\ frames[1] \in Frame
  BY <1>0 DEF Shape
<1>2. Pairs(data, table_size) = Pairs(frames[L].old, frames[L].i)
  BY <1>0 DEF TopInv, Holds
<1>3. Pairs(frames[L].old, frames[L].i) \subseteq Pairs(frames[L].old, frames[L].n)
  BY <1>1, FrameFields DEF Pairs, Used
<1>4. Pairs(frames[L].old, frames[L].n) \subseteq Pairs(frames[1].old, frames[1].n)
  BY <1>0, <1>1 DEF NestInv
<1>5. frames[1].n > 0 /\ Tidy(frames[1].old, frames[1].n)
  BY <1>0, <1>1 DEF NestInv
<1> QED BY <1>1, <1>2, <1>3, <1>4, <1>5, FrameFields

\* gfc_map_get, gfc_map_remove and gfc_map_iterate, as the clients see them.
LEMMA DictGetStep ==
  ASSUME CarefulInv, NEW k \in Key, Get(k)
  PROVE  DictView!DictGet
<1>1. pc = "idle" /\ pc' = pc /\ UNCHANGED <<table_size, data, frames>> /\ frames = <<>>
  BY DEF Get, CarefulInv, CleanInv, Shape
<1>2. Dict = [l \in Key |-> Lookup(data, table_size, l)] /\ Dict' = Dict
  BY <1>1 DEF Dict, Contents
<1>3. Matches(data, table_size, k) # {} <=> Lookup(data, table_size, k) # Null
  <2>1. Matches(data, table_size, k) # {} => Lookup(data, table_size, k) \in Data
    BY <1>1, MapTable, LookupOfPair
  <2>2. Matches(data, table_size, k) = {} => Lookup(data, table_size, k) = Null
    BY DEF Lookup
  <2> QED BY <2>1, <2>2
<1>4. answer' = IF Dict[k] # Null THEN Answer("found", {<<k, Dict[k]>>})
                ELSE Answer("missing", {})
  BY <1>2, <1>3 DEF Get
<1>5. answer'.rc \in {"found", "missing"}
  BY <1>4 DEF Answer
<1> QED BY <1>2, <1>4, <1>5 DEF DictView!DictGet, DictView!Answer, Answer, Dict

LEMMA DictRemoveStep ==
  ASSUME Careful, CarefulInv, NEW k \in Key, Remove(k)
  PROVE  DictView!DictRemove
<1>1. pc = "idle" /\ pc' = pc /\ UNCHANGED <<table_size, frames>> /\ frames = <<>>
  BY DEF Remove, CarefulInv, CleanInv, Shape
<1>2. /\ Dict = [l \in Key |-> Lookup(data, table_size, l)]
      /\ Dict' = [l \in Key |-> Lookup(data', table_size, l)]
  BY <1>1 DEF Dict, Contents
<1>3. /\ table_size \in Nat /\ table_size > 0 /\ data \in [0..table_size-1 -> Cells]
      /\ Tidy(data, table_size)
  BY <1>1, MapTable
<1>4. CASE Matches(data, table_size, k) = {}
  <2>1. data' = data /\ answer' = Answer("missing", {}) /\ Dict[k] = Null
    BY <1>2, <1>4 DEF Remove, Lookup
  <2>2. Dict' = [Dict EXCEPT ![k] = Null]
    BY <1>2, <2>1
  <2> QED BY <2>1, <2>2 DEF DictView!DictRemove, DictView!Answer, Answer, Dict
<1>5. CASE Matches(data, table_size, k) # {}
  <2>1. PICK d \in Matches(data, table_size, k) :
          data' = [data EXCEPT ![Probe(k, d, table_size)] = Blank]
    BY <1>5 DEF Remove
  <2> DEFINE j == Probe(k, d, table_size)
  <2>2. j \in Used(data, table_size) /\ data[j].key = k
    <3>1. d \in Chain /\ data[j].in_use = 1 /\ data[j].key = k
      BY DEF Matches
    <3>2. j \in 0..table_size-1
      BY <1>3, <3>1, ProbeInChain
    <3> QED BY <3>1, <3>2 DEF Used
  <2> HIDE DEF j
  <2>a. data' = [data EXCEPT ![j] = Blank]
    BY <2>1 DEF j
  <2>3. /\ data' \in [0..table_size-1 -> Cells] /\ Tidy(data', table_size)
    BY <1>3, <2>2, <2>a, BlankTidy
  <2>4. Fresh(k, data', table_size)
    BY <1>3, <2>2, <2>a, BlankTidy
  <2>5. \A l, v : l # k =>
          (<<l, v>> \in Pairs(data, table_size) <=> <<l, v>> \in Pairs(data', table_size))
    BY <1>3, <2>2, <2>a, BlankTidy
  <2>6. \A l \in Key : l # k => Lookup(data', table_size, l) = Lookup(data, table_size, l)
    BY <1>3, <2>3, <2>5, SameLookup
  <2>7. Lookup(data', table_size, k) = Null
    <3>1. \A v : <<k, v>> \notin Pairs(data', table_size)
      BY <2>4, FreshPairs
    <3> QED BY <1>3, <2>3, <3>1, LookupOfPair
  <2>8. Dict' = [Dict EXCEPT ![k] = Null]
    BY <1>2, <2>6, <2>7
  <2>9. Dict[k] # Null
    BY <1>2, <1>3, <1>5, LookupOfPair
  <2>10. answer' = Answer("removed", {})
    BY <1>5 DEF Remove
  <2> QED BY <2>8, <2>9, <2>10 DEF DictView!DictRemove, DictView!Answer, Answer, Dict
<1> QED BY <1>4, <1>5

LEMMA DictIterateStep ==
  ASSUME CarefulInv, Iterate
  PROVE  DictView!DictIterate
<1> DEFINE n == table_size
           Entries == {<<k, Dict[k]>> : k \in {l \in Key : Dict[l] # Null} \ {EmptyKey}}
<1>1. pc = "idle" /\ pc' = pc /\ UNCHANGED <<table_size, data, frames>> /\ frames = <<>>
  BY DEF Iterate, CarefulInv, CleanInv, Shape
<1>2. Dict = [l \in Key |-> Lookup(data, n, l)] /\ Dict' = Dict
  BY <1>1 DEF Dict, Contents
<1>3. n \in Nat /\ n > 0 /\ data \in [0..n-1 -> Cells] /\ Tidy(data, n)
  BY <1>1, MapTable
<1>4. ASSUME NEW last \in 0..n-1 PROVE Visited(last) \subseteq Entries
  <2> SUFFICES ASSUME NEW i \in 0..last, data[i].key # EmptyKey
               PROVE  <<data[i].key, data[i].data>> \in Entries
    BY DEF Visited
  <2>1. i \in 0..n-1 /\ data[i] # Blank
    BY <1>3 DEF Blank, CellOf
  <2>2. i \in Used(data, n) /\ data[i].key \in Key
    BY <1>3, <2>1 DEF Tidy, Used, Cells
  <2>3. <<data[i].key, data[i].data>> \in Pairs(data, n)
    BY <2>2 DEF Pairs
  <2>4. data[i].data \in Data /\ Lookup(data, n, data[i].key) = data[i].data
    BY <1>3, <2>2, <2>3, LookupOfPair
  <2> QED BY <1>2, <2>2, <2>4
<1>5. Entries \subseteq Visited(n - 1)
  <2> SUFFICES ASSUME NEW k \in Key, Dict[k] # Null, k # EmptyKey
               PROVE  <<k, Dict[k]>> \in Visited(n - 1)
    OBVIOUS
  <2>1. Matches(data, n, k) # {}
    BY <1>2 DEF Lookup
  <2>2. <<k, Dict[k]>> \in Pairs(data, n)
    BY <1>2, <1>3, <2>1, LookupOfPair
  <2>3. PICK i \in Used(data, n) : data[i].key = k /\ data[i].data = Dict[k]
    BY <2>2 DEF Pairs
  <2> QED BY <2>3 DEF Visited, Used
<1>6. n - 1 \in 0..n-1
  BY <1>3
<1>7. Visited(n - 1) = Entries
  BY <1>4, <1>5, <1>6
<1>8. CASE size <= 0
  <2>1. Cardinality(Used(data, n)) <= size /\ size \in Int
    BY DEF CarefulInv, CleanInv, Shape
  <2>2. IsFiniteSet(Used(data, n)) /\ Cardinality(Used(data, n)) \in Nat
    BY <1>3, UsedFinite
  <2>3. Used(data, n) = {}
    BY <1>8, <2>1, <2>2, FS_EmptySet
  <2>4. \A k \in Key : Dict[k] = Null
    <3> TAKE k \in Key
    <3>1. \A v : <<k, v>> \notin Pairs(data, n)
      BY <2>3 DEF Pairs
    <3>2. Matches(data, n, k) = {}
      BY <1>3, <3>1, LookupOfPair
    <3> QED BY <1>2, <3>2 DEF Lookup
  <2>5. answer' = Answer("missing", {})
    BY <1>8 DEF Iterate
  <2> QED
    BY <1>2, <2>4, <2>5 DEF DictView!DictIterate, DictView!Present, DictView!Answer, Answer, Dict
<1>9. CASE ~(size <= 0)
  <2>1. \/ answer' = Answer("iterated", Visited(n - 1))
        \/ \E i \in 0..n-1 : answer' = Answer("refused", Visited(i))
    BY <1>9 DEF Iterate
  <2>2. \/ answer'.rc = "iterated" /\ answer'.pairs = Entries
        \/ answer'.rc = "refused" /\ answer'.pairs \subseteq Entries
    BY <1>4, <1>7, <2>1 DEF Answer
  <2>3. Entries = DictView!Entries
    BY DEF DictView!Entries, DictView!Present, Dict
  <2> QED BY <1>2, <2>2, <2>3 DEF DictView!DictIterate, Dict
<1> QED BY <1>8, <1>9

\* Moving the index of a frame leaves its old table.
LEMMA FrameKept ==
  ASSUME NEW f \in Frame, NEW i
  PROVE  [f EXCEPT !.i = i].old = f.old /\ [f EXCEPT !.i = i].n = f.n
<1>1. PICK n \in Nat : f \in [old : [0..n-1 -> Cells], n : {n}, i : 0..n,
                              key : Key, val : Data \cup {Null}]
  BY DEF Frame
<1> QED BY <1>1

\* A put and the rehashes inside it: the new value is there when it answers.
LEMMA DictPutStep ==
  ASSUME Careful, CarefulInv, Step
  PROVE  DictView!DictPut \/ DictView!DictOutOfMemory \/ UNCHANGED <<Dict, answer>>
<1>0. Shape /\ pc # "freed" /\ pc' # "freed"
  BY DEF Step, Store, Return, Rehash, RehashPut, RehashDone, OutOfMemory, CarefulInv, CleanInv
<1>1. /\ table_size \in Nat /\ table_size > 0 /\ data \in [0..table_size-1 -> Cells]
      /\ Tidy(data, table_size)
  BY <1>0, MapTable
<1>2. CASE Store /\ frames = <<>>
  <2>1. /\ Dict = [l \in Key |-> Lookup(data, table_size, l)]
        /\ Dict' = [l \in Key |-> Lookup(data', table_size, l)]
    BY <1>0, <1>2 DEF Dict, Contents, Store, Return
  <2>2. PICK d \in Usable(data, table_size, key) :
          /\ \A e \in Usable(data, table_size, key) : d <= e
          /\ data' = [data EXCEPT ![Probe(key, d, table_size)] = CellOf(1, key, val)]
    BY <1>2 DEF Store
  <2>3. key \in Key /\ val \in Data
    BY <1>0, <1>2 DEF Shape, CarefulInv, EntriesInv, Store
  <2>4. Lookup(data', table_size, key) = val
    BY <1>1, <2>2, <2>3, PutIsFound
  <2>5. \A l \in Key : l # key => Lookup(data', table_size, l) = Lookup(data, table_size, l)
    <3> DEFINE n == table_size
               j == Probe(key, d, n)
    <3>1. d \in Chain /\ d \in Nat /\ (data[j].in_use = 0 \/ data[j].key = key)
      BY <2>2 DEF Usable, Matches, Chain
    <3>2. j \in 0..n-1
      BY <1>1, <2>3, <3>1, ProbeInTable
    <3>3. data' = [data EXCEPT ![j] = CellOf(1, key, val)]
      BY <2>2
    <3>4. n \in Nat /\ n > 0 /\ data \in [0..n-1 -> Cells]
      BY <1>1
    <3> HIDE DEF n, j
    <3>5. Taken(data, data', n, j, key)
      BY <3>1, <3>2, <3>3, <3>4 DEF Taken, CellOf
    <3>6. \A l \in Key : l # key => Lookup(data', n, l) = Lookup(data, n, l)
      BY <3>4, <3>5, StoreOthers
    <3> QED BY <3>6 DEF n
  <2>6. Dict' = [Dict EXCEPT ![key] = val]
    BY <2>1, <2>4, <2>5
  <2>7. answer' = Answer("ok", {})
    BY <1>2 DEF Store, Return
  <2> QED BY <2>3, <2>6, <2>7 DEF DictView!DictPut, DictView!Answer, Answer, Dict
<1>3. ASSUME frames # <<>>, frames' # <<>>, frames'[1].old = frames[1].old,
             frames'[1].n = frames[1].n, answer' = answer
      PROVE  UNCHANGED <<Dict, answer>>
  BY <1>0, <1>3 DEF Dict, Contents
<1>4. CASE (Store /\ frames # <<>>) \/ RehashPut
  <2> DEFINE L == Len(frames)
  <2>1. L \in Nat /\ L >= 1 /\ frames # <<>> /\ frames \in Seq(Frame)
    BY <1>0, <1>4 DEF Shape, RehashPut
  <2>2. PICK i : frames' = [frames EXCEPT ![L].i = i]
    BY <1>4 DEF Store, Return, RehashPut
  <2>3. 1 \in 1..L /\ frames[1] \in Frame
    BY <2>1
  <2>4. frames'[1].old = frames[1].old /\ frames'[1].n = frames[1].n
    <3>1. CASE L # 1
      BY <2>1, <2>2, <2>3, <3>1
    <3>2. CASE L = 1
      <4>1. frames'[1] = [frames[1] EXCEPT !.i = i]
        BY <2>1, <2>2, <2>3, <3>2
      <4> QED BY <2>3, <4>1, FrameKept
    <3> QED BY <3>1, <3>2
  <2>5. frames' # <<>> /\ answer' = answer
    BY <1>4, <2>1, <2>2 DEF Store, Return, RehashPut
  <2> QED BY <1>3, <2>1, <2>4, <2>5
<1>5. CASE Rehash
  <2> DEFINE new == [old |-> data, n |-> table_size, i |-> 0, key |-> key, val |-> val]
  <2>1. frames' = Append(frames, new) /\ frames \in Seq(Frame) /\ answer' = answer
    BY <1>0, <1>5 DEF Rehash, Shape
  <2>2. CASE frames = <<>>
    <3>1. frames' # <<>> /\ frames'[1].old = data /\ frames'[1].n = table_size
      BY <2>1, <2>2
    <3> QED BY <1>0, <2>1, <2>2, <3>1 DEF Dict, Contents
  <2>3. CASE frames # <<>>
    <3> HIDE DEF new
    <3>1. frames' # <<>> /\ frames'[1] = frames[1]
      BY <2>1, <2>3
    <3> QED BY <1>3, <2>1, <2>3, <3>1
  <2> QED BY <2>2, <2>3
<1>6. CASE RehashDone
  <2> DEFINE L == Len(frames)
  <2>1. L \in Nat /\ L >= 1 /\ frames # <<>> /\ \A f \in 1..L-1 : frames[f] \in Frame
    BY <1>0, <1>6 DEF Shape, RehashDone
  <2>2. frames' = SubSeq(frames, 1, L - 1) /\ UNCHANGED <<table_size, data, answer>>
    BY <1>6 DEF RehashDone, Below
  <2> HIDE DEF L
  <2>3. Len(frames') = L - 1 /\ \A f \in 1..L-1 : frames'[f] = frames[f]
    BY <2>1, <2>2, SubSeqProperties
  <2>4. CASE L > 1
    BY <1>3, <2>1, <2>2, <2>3, <2>4
  <2>5. CASE L = 1
    <3>1. frames' = <<>>
      BY <2>2, <2>5
    <3>2. Pairs(data, table_size) = Pairs(frames[1].old, frames[1].n)
      BY <1>6, <2>5, CarefulRehashDone DEF L
    <3>3. \A k \in Key : Lookup(data, table_size, k) = Lookup(frames[1].old, frames[1].n, k)
      <4> DEFINE m == frames[1].n
                 u == frames[1].old
      <4>1. m \in Nat /\ m > 0 /\ u \in [0..m-1 -> Cells] /\ Tidy(u, m)
        BY <2>1, NoNewEntries
      <4>2. Pairs(data, table_size) = Pairs(u, m)
        BY <3>2
      <4> HIDE DEF m, u
      <4> TAKE k \in Key
      <4>3. \A v : <<k, v>> \in Pairs(data, table_size) <=> <<k, v>> \in Pairs(u, m)
        BY <4>2
      <4>4. Lookup(data, table_size, k) = Lookup(u, m, k)
        BY <1>1, <4>1, <4>3, SameLookup
      <4> QED BY <4>4 DEF m, u
    <3> QED BY <1>0, <2>1, <2>2, <3>1, <3>3 DEF Dict, Contents
  <2> QED BY <2>1, <2>4, <2>5
<1>7. CASE OutOfMemory
  <2>1. /\ frames' = <<>> /\ UNCHANGED <<table_size, data>> /\ answer' = Answer("oom", {})
    BY <1>7 DEF OutOfMemory
  <2>2. Dict' = [k \in Key |-> Lookup(data, table_size, k)]
    BY <1>0, <2>1 DEF Dict, Contents
  <2>3. \A k \in Key : Dict'[k] \in {Dict[k], Null}
    <3>1. CASE frames = <<>>
      BY <1>0, <2>2, <3>1 DEF Dict, Contents
    <3>2. CASE frames # <<>>
      <4> TAKE k \in Key
      <4>1. CASE Matches(data, table_size, k) = {}
        BY <2>2, <4>1 DEF Lookup
      <4>2. CASE Matches(data, table_size, k) # {}
        <5>1. <<k, Lookup(data, table_size, k)>> \in Pairs(frames[1].old, frames[1].n)
          BY <1>1, <3>2, <4>2, LookupOfPair, NoNewEntries
        <5>2. Lookup(frames[1].old, frames[1].n, k) = Lookup(data, table_size, k)
          <6> DEFINE m == frames[1].n
                     u == frames[1].old
                     v == Lookup(data, table_size, k)
          <6>1. m \in Nat /\ m > 0 /\ u \in [0..m-1 -> Cells] /\ Tidy(u, m)
            BY <3>2, NoNewEntries
          <6>2. <<k, v>> \in Pairs(u, m)
            BY <5>1
          <6> HIDE DEF m, u, v
          <6>3. Lookup(u, m, k) = v
            BY <6>1, <6>2, LookupOfPair
          <6> QED BY <6>3 DEF m, u, v
        <5> QED BY <1>0, <2>2, <3>2, <5>2 DEF Dict, Contents
      <4> QED BY <4>1, <4>2
    <3> QED BY <3>1, <3>2
  <2> QED BY <2>1, <2>3 DEF DictView!DictOutOfMemory, DictView!Answer, Answer, Dict
<1> QED BY <1>2, <1>4, <1>5, <1>6, <1>7 DEF Step

LEMMA DictStep ==
  ASSUME Careful, CarefulInv, [Next]_mapVars
  PROVE  [DictView!DictNext]_(DictView!dictVars)
<1>0. Shape
  BY DEF CarefulInv, CleanInv
<1>1. ASSUME NEW k \in Key, NEW v \in Data, Put(k, v) PROVE DictView!DictCall
  <2>1. Dict' = Dict /\ answer' = Answer("none", {})
    BY <1>1 DEF Put, Dict, Contents
  <2> QED BY <2>1 DEF DictView!DictCall, DictView!Answer, Answer, Dict
<1>2. ASSUME Release, pc = "idle" PROVE DictView!DictFree
  <2>1. Dict' = [k \in Key |-> Null] /\ answer' = Answer("freed", {})
    BY <1>2 DEF Release, Dict
  <2> QED BY <2>1 DEF DictView!DictFree, DictView!Answer, Answer, Dict
<1>3. CASE UNCHANGED mapVars
  BY <1>3 DEF mapVars, DictView!dictVars, Contents
<1>4. CASE Step
  BY <1>4, DictPutStep DEF DictView!DictNext, DictView!dictVars, Dict
<1>5. CASE MapFree \/ DeepFree
  BY <1>2, <1>3, <1>5 DEF MapFree, DeepFree, DictView!DictNext
<1>6. CASE Iterate \/ \E k \in Key : Get(k) \/ Remove(k)
  BY <1>6, DictGetStep, DictRemoveStep, DictIterateStep DEF DictView!DictNext
<1> QED BY <1>1, <1>3, <1>4, <1>5, <1>6 DEF Next, DictView!DictNext

(***************************************************************************)
(* For a client that only overwrites, or only puts absent keys and removes *)
(* them, the map is a dictionary: a call changes no key but its own, a put *)
(* is visible at once through any rehash, an iteration meets every entry   *)
(* and a put that finds no memory may lose entries but alters none.        *)
(***************************************************************************)
THEOREM DictRefinement ==
  ASSUME Careful
  PROVE  Spec => DictSpec
<1>1. Init => DictView!DictInit
  <2> SUFFICES ASSUME Init PROVE DictView!DictInit
    OBVIOUS
  <2>1. \A k \in Key : Lookup(data, table_size, k) = Null
    <3> TAKE k \in Key
    <3>1. Matches(data, table_size, k) = {}
      <4>1. table_size \in Nat /\ table_size > 0 /\ \A i \in 0..table_size-1 : data[i].in_use = 0
        BY DEF Init, Blank, CellOf
      <4>2. \A d \in Chain : data[Probe(k, d, table_size)].in_use = 0
        BY <4>1, ProbeInChain
      <4> QED BY <4>2 DEF Matches
    <3> QED BY <3>1 DEF Lookup
  <2> QED BY <2>1 DEF Init, DictView!DictInit, DictView!Answer, Answer, Contents
<1>2. CarefulInv /\ [Next]_mapVars => [DictView!DictNext]_(DictView!dictVars)
  BY DictStep
<1> QED BY <1>1, <1>2, CarefulInductive, PTL DEF Spec, DictSpec, DictView!DictSpec
=============================================================================
