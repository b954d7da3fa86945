--------------------------- MODULE GfcParts_proofs ----------------------------
(***************************************************************************)
(* Seven parts that use nothing of one another: the two containers on one  *)
(* table, gfc_list and gfc_ring, of any size, the digests of gfc_sha1, the *)
(* strings of gfc_string, the websocket of gfc_ws, the trees of gfc_btree  *)
(* and the ids of gfc_id.                                                  *)
(*                                                                         *)
(* A list keeps its contents within its table.  What makes the invariant   *)
(* inductive is that one place is always free: the table grows as soon as  *)
(* an append has filled it.                                                *)
(*                                                                         *)
(* An item of a ring that lies in its block keeps the last datum pushed    *)
(* into it, also behind the getter; this is why a ring that was emptied    *)
(* begins anew with what it has handed out before, and why one that was    *)
(* pushed full hands out the newest datum in place of the oldest.          *)
(*                                                                         *)
(* A digest is that of the padded message for any length of blocks and     *)
(* counters, any message and any way to cut it into calls.                 *)
(*                                                                         *)
(* The block of a string holds the text with a zero behind it, for texts   *)
(* of any length, and the tokens strtok cuts from it are its letters in    *)
(* their order.                                                            *)
(*                                                                         *)
(* The reader of a websocket is in the frame behind those it has answered, *)
(* at a place its own state tells; what is sent is one frame behind the    *)
(* other, for octets of any size, any frames and any buffer.               *)
(*                                                                         *)
(* An insertion leaves a tree balanced for a reason that has nothing to do *)
(* with the order of its data, and the order as it was because rotations   *)
(* only regroup what a traversal prints.                                   *)
(*                                                                         *)
(* The ids are those of any number of nodes, any widths of the fields and  *)
(* any clocks, and of any number of threads on one context.                *)
(***************************************************************************)
EXTENDS GfcList, GfcRing, GfcSha1, GfcString, GfcWs, GfcBtree, GfcId, GfcIdThreads, Loops,
        SequenceTheorems, FiniteSetTheorems, TLAPS

ListInv ==
  /\ inside
  /\ Usable =>
       /\ capacity \in Nat /\ DOMAIN pointers = 0..(capacity - 1)
       /\ content \in Seq(Item)
       /\ size = Len(content) /\ size < capacity
       /\ \A i \in 1..Len(content) : pointers[i-1] = content[i]

LEMMA ListInitInv == ListInit => ListInv
BY ListSizes DEF ListInit, ListInv

LEMMA AppendInv == ASSUME ListInv, NEW d \in Item, ListAppend(d) PROVE ListInv'
<1>1. /\ inside /\ capacity \in Nat /\ DOMAIN pointers = 0..(capacity - 1) /\ content \in Seq(Item)
      /\ size = Len(content) /\ size < capacity /\ size \in Nat
      /\ \A i \in 1..Len(content) : pointers[i-1] = content[i]
  BY DEF ListInv, ListAppend
<1>2. /\ size' = size + 1 /\ content' = Append(content, d)
      /\ capacity' = IF size + 1 = capacity THEN capacity + Increment ELSE capacity
      /\ pointers' = [i \in 0..capacity'-1 |->
                        IF i = size THEN d ELSE IF i \in DOMAIN pointers THEN pointers[i] ELSE NoItem]
  BY DEF ListAppend, Grows
<1>3. /\ capacity' \in Nat /\ size' < capacity' /\ capacity <= capacity'
      /\ DOMAIN pointers' = 0..(capacity' - 1)
  BY <1>1, <1>2, ListSizes
<1>4. inside'
  <2>1. size \in DOMAIN pointers
    BY <1>1
  <2>2. inside' = (inside /\ size \in DOMAIN pointers)
    BY DEF ListAppend
  <2> QED BY <1>1, <2>1, <2>2, Zenon
<1>5. /\ content' \in Seq(Item) /\ Len(content') = size'
      /\ content'[size + 1] = d /\ \A i \in 1..size : content'[i] = content[i]
  BY <1>1, <1>2
<1>6. ASSUME NEW i \in 1..Len(content') PROVE pointers'[i-1] = content'[i]
  <2>1. CASE i = size + 1
    BY <1>1, <1>2, <1>3, <1>5, <2>1
  <2>2. CASE i # size + 1
    <3>1. i \in 1..size /\ i - 1 \in DOMAIN pointers /\ i - 1 # size /\ i - 1 \in 0..(capacity' - 1)
      BY <1>1, <1>2, <1>3, <1>5, <2>2
    <3> QED BY <1>1, <1>2, <1>5, <3>1
  <2> QED BY <2>1, <2>2
<1> QED BY <1>3, <1>4, <1>5, <1>6 DEF ListInv

LEMMA RemoveInv == ASSUME ListInv, NEW n \in 0..MaxElements, ListRemove(n) PROVE ListInv'
<1>1. /\ Usable /\ inside /\ capacity \in Nat /\ DOMAIN pointers = 0..(capacity - 1)
      /\ content \in Seq(Item)
      /\ size = Len(content) /\ size < capacity /\ size \in Nat /\ n \in Nat
      /\ \A i \in 1..Len(content) : pointers[i-1] = content[i]
  BY ListSizes DEF ListInv, ListRemove
<1>2. CASE n >= size
  BY <1>2 DEF ListRemove, ListInv, Usable
<1>3. CASE n < size
  <2>0. ~(n >= size)
    BY <1>1, <1>3
  <2>1. /\ size' = size - 1 /\ capacity' = capacity
        /\ pointers' = Closed(n, 1)
        /\ content' = RemoveAt(content, n + 1)
    BY <2>0 DEF ListRemove
  <2>2. /\ content' \in Seq(Item) /\ Len(content') = size - 1
        /\ \A i \in 1..(size - 1) : content'[i] = IF i <= n THEN content[i] ELSE content[i + 1]
    <3> DEFINE front == SubSeq(content, 1, n)
               rest == SubSeq(content, n + 2, Len(content))
    <3>1. /\ front \in Seq(Item) /\ Len(front) = n
          /\ \A i \in 1..n : front[i] = content[i]
      BY <1>1, <1>3
    <3>2. /\ rest \in Seq(Item) /\ Len(rest) = size - 1 - n
          /\ \A i \in 1..(size - 1 - n) : rest[i] = content[n + 1 + i]
      <4>1. /\ n + 2 \in Int /\ Len(content) \in Int /\ Len(content) - (n + 2) + 1 = size - 1 - n
            /\ size - 1 - n = IF n + 2 <= Len(content) THEN size - 1 - n ELSE 0
            /\ \A i \in (n + 2)..Len(content) : content[i] \in Item
            /\ \A i \in 1..(size - 1 - n) : n + 2 + i - 1 = n + 1 + i
        BY <1>1, <1>3
      <4>2. /\ rest \in Seq(Item)
            /\ Len(rest) = IF n + 2 <= Len(content) THEN Len(content) - (n + 2) + 1 ELSE 0
            /\ \A i \in 1..(Len(content) - (n + 2) + 1) : rest[i] = content[n + 2 + i - 1]
        BY <4>1, SubSeqProperties
      <4> HIDE DEF rest
      <4> QED BY <4>1, <4>2
    <3>3. content' = front \o rest
      <4>1. (n + 1) - 1 = n /\ (n + 1) + 1 = n + 2
        BY <1>1
      <4> QED BY <2>1, <4>1 DEF RemoveAt
    <3> HIDE DEF front, rest
    <3>4. /\ content' \in Seq(Item) /\ Len(content') = size - 1
          /\ \A i \in 1..(size - 1) : content'[i] = IF i <= n THEN front[i] ELSE rest[i - n]
      <4>1. content' \in Seq(Item) /\ Len(content') = Len(front) + Len(rest)
        BY <3>1, <3>2, <3>3, ConcatProperties
      <4>2. \A i \in 1..(Len(front) + Len(rest)) :
              content'[i] = IF i <= Len(front) THEN front[i] ELSE rest[i - Len(front)]
        BY <3>1, <3>2, <3>3
      <4>3. Len(front) + Len(rest) = size - 1
        BY <1>1, <3>1, <3>2
      <4> QED BY <3>1, <4>1, <4>2, <4>3
    <3>5. ASSUME NEW i \in 1..(size - 1) PROVE content'[i] = IF i <= n THEN content[i] ELSE content[i + 1]
      <4>1. CASE i <= n
        BY <1>1, <3>1, <3>4, <4>1
      <4>2. CASE i > n
        <5>1. i - n \in 1..(size - 1 - n) /\ n + 1 + (i - n) = i + 1
          BY <1>1, <4>2
        <5>2. ~(i <= n)
          BY <1>1, <4>2
        <5>3. content'[i] = rest[i - n]
          BY <3>4, <5>2
        <5>4. rest[i - n] = content[n + 1 + (i - n)]
          BY <3>2, <5>1
        <5> QED BY <5>1, <5>2, <5>3, <5>4
      <4> QED BY <1>1, <4>1, <4>2
    <3> QED BY <3>4, <3>5
  <2>3. DOMAIN pointers' = 0..(capacity' - 1)
    BY <1>1, <2>1 DEF Closed
  <2>4. inside' /\ size' < capacity'
    <3>1. size - 1 \in DOMAIN pointers /\ size' < capacity'
      BY <1>1, <1>3, <2>1
    <3>2. inside' = (inside /\ size - 1 \in DOMAIN pointers)
      BY <2>0 DEF ListRemove
    <3> QED BY <1>1, <3>1, <3>2, Zenon
  <2>5. ASSUME NEW i \in 1..(size - 1) PROVE pointers'[i-1] = content'[i]
    <3>1. /\ i - 1 \in DOMAIN pointers /\ i - 1 < size
          /\ pointers'[i-1] = IF i - 1 < n THEN pointers[i-1]
                              ELSE IF i - 1 + 1 < size THEN pointers[i - 1 + 1] ELSE NoItem
      BY <1>1, <2>1 DEF Closed
    <3>2. CASE i <= n
      <4>1. pointers'[i-1] = pointers[i-1] /\ i \in 1..Len(content)
        BY <1>1, <3>1, <3>2
      <4> QED BY <1>1, <2>2, <3>2, <4>1
    <3>3. CASE i > n
      <4>1. pointers'[i-1] = pointers[(i + 1) - 1] /\ i + 1 \in 1..Len(content)
        BY <1>1, <3>1, <3>3
      <4> QED BY <1>1, <2>2, <3>3, <4>1
    <3> QED BY <1>1, <3>2, <3>3
  <2> QED BY <1>1, <2>1, <2>2, <2>3, <2>4, <2>5 DEF ListInv
<1> QED BY <1>1, <1>2, <1>3

LEMMA ClearInv == ListInv /\ ListClear => ListInv'
<1> SUFFICES ASSUME ListInv, ListClear PROVE ListInv'
  OBVIOUS
<1>1. /\ content' = <<>> /\ size' = 0 /\ capacity' = capacity /\ inside' = inside
      /\ DOMAIN pointers' = DOMAIN pointers /\ Usable
  BY DEF ListClear, Closed
<1> QED BY <1>1 DEF ListInv

\* The table, the sizes and the contents agree in every state.
THEOREM ListInvariant == ListSpec => []ListInv
<1>1. ListInit => ListInv
  BY ListInitInv
<1>2. ListInv /\ [ListNext]_listVars => ListInv'
  <2> SUFFICES ASSUME ListInv, [ListNext]_listVars PROVE ListInv'
    OBVIOUS
  <2>1. ASSUME NEW n \in 0..MaxElements, ListGet(n) PROVE ListInv'
    BY <2>1 DEF ListGet, ListInv, Usable
  <2>2. CASE ListSort \/ UNCHANGED listVars
    BY <2>2 DEF ListSort, listVars, ListInv, Usable
  <2>3. CASE ListFree
    BY <2>3 DEF ListFree, ListInv, Usable
  <2> QED BY <2>1, <2>2, <2>3, AppendInv, RemoveInv, ClearInv DEF ListNext
<1> QED BY <1>1, <1>2, PTL DEF ListSpec

\* A list of any length holds what was put and not removed, and is never touched outside its table
\* (gfc_list.c:81-138, 168-175).
THEOREM ListHoldsCorrect == ListSpec => []ListHolds
<1>1. ListInv => ListHolds
  BY DEF ListInv, ListHolds
<1> QED BY <1>1, ListInvariant, PTL

-----------------------------------------------------------------------------
RingInv ==
  /\ pushed \in Seq(Datum) /\ popped \in Nat
  /\ head \in [Cells -> Datum \cup {Nothing}]
  /\ RingReplays

LEMMA RingInitInv == RingInit => RingInv
<1> SUFFICES ASSUME RingInit PROVE RingInv
  OBVIOUS
<1>1. /\ setter = 0 /\ getter = Invalid /\ pushed = <<>> /\ popped = 0
      /\ head \in [Cells -> Datum \cup {Nothing}] /\ Len(pushed) = 0
  BY DEF RingInit
<1>2. 0 \in Cells /\ 0 = 0 * Capacity + 0 /\ 0 \in 0..0
  BY RingAssumption DEF Cells
<1>3. \A n \in Cells : ~(n < 0)
  BY RingAssumption DEF Cells
<1> QED BY <1>1, <1>2, <1>3 DEF RingInv, RingReplays

\* The items are overwritten in turn: what was written n pushes ago was, before this one, n - 1.
LEMMA WrittenBefore ==
  ASSUME setter \in Cells, setter' = NextSetter, NEW n \in Cells
  PROVE  /\ n = 0 => Written(n)' = setter
         /\ n # 0 => n - 1 \in Cells /\ Written(n)' = Written(n - 1) /\ Written(n - 1) # setter
         /\ Written(n) \in Cells
BY RingAssumption DEF Written, NextSetter, Cells

LEMMA PushInv == ASSUME RingInv, NEW data \in Datum, RingPush(data) PROVE RingInv'
<1>1. /\ pushed' = Append(pushed, data) /\ popped' = popped /\ alive
      /\ head' = [head EXCEPT ![setter] = data]
      /\ getter' = IF getter = Invalid THEN 0 ELSE getter
      /\ setter' = NextSetter
  BY DEF RingPush, FirstItem
<1>2. /\ pushed \in Seq(Datum) /\ popped \in Nat /\ head \in [Cells -> Datum \cup {Nothing}]
      /\ setter \in Cells /\ \E round \in 0..Len(pushed) : Len(pushed) = round * Capacity + setter
      /\ getter # Invalid => getter = popped
      /\ getter = Invalid => popped = 0
  BY <1>1 DEF RingInv, RingReplays
<1>3. \A n \in Cells : n < Len(pushed) /\ InBlock(Written(n)) =>
        head[Written(n)] = pushed[Len(pushed) - n]
  BY <1>1 DEF RingInv, RingReplays
<1>4. pushed' \in Seq(Datum) /\ Len(pushed') = Len(pushed) + 1 /\ Len(pushed) \in Nat
  BY <1>1, <1>2
<1>5. popped' \in Nat /\ head' \in [Cells -> Datum \cup {Nothing}]
  BY <1>1, <1>2
<1>6. setter' \in Cells
  BY <1>1, <1>2, RingAssumption DEF NextSetter, Cells
<1>7. \E round \in 0..Len(pushed') : Len(pushed') = round * Capacity + setter'
  <2>1. PICK q \in 0..Len(pushed) : Len(pushed) = q * Capacity + setter
    BY <1>2
  <2>2. /\ q \in Nat /\ Capacity \in Nat /\ setter \in Nat /\ Len(pushed') = q * Capacity + setter + 1
        /\ q \in 0..Len(pushed') /\ q + 1 \in 0..Len(pushed')
        /\ (q + 1) * Capacity = q * Capacity + Capacity
    <3>1. q \in Nat /\ Capacity \in Nat /\ setter \in Nat
      BY <1>2, <1>4, <2>1, RingAssumption DEF Cells
    <3>2. (q + 1) * Capacity = q * Capacity + Capacity
      BY <3>1
    <3>3. Len(pushed') = q * Capacity + setter + 1
      BY <1>4, <2>1
    <3>4. q \in 0..Len(pushed') /\ q + 1 \in 0..Len(pushed')
      BY <1>4, <2>1
    <3> QED BY <3>1, <3>2, <3>3, <3>4
  <2>3. CASE setter + 1 = Capacity
    <3>1. Len(pushed') = (q + 1) * Capacity + setter'
      BY <1>1, <2>2, <2>3 DEF NextSetter
    <3> QED BY <2>2, <3>1
  <2>4. CASE setter + 1 # Capacity
    <3>1. Len(pushed') = q * Capacity + setter'
      BY <1>1, <2>2, <2>4 DEF NextSetter
    <3> QED BY <2>2, <3>1
  <2> QED BY <2>3, <2>4
<1>8. ASSUME NEW n \in Cells, n < Len(pushed'), InBlock(Written(n)')
      PROVE  head'[Written(n)'] = pushed'[Len(pushed') - n]
  <2>1. CASE n = 0
    <3>1. Written(n)' = setter /\ Len(pushed') - n = Len(pushed) + 1
      BY <1>1, <1>2, <1>4, <2>1, WrittenBefore
    <3>2. head'[setter] = data /\ pushed'[Len(pushed) + 1] = data
      BY <1>1, <1>2
    <3> QED BY <3>1, <3>2
  <2>2. CASE n # 0
    <3>1. /\ n - 1 \in Cells /\ Written(n)' = Written(n - 1) /\ Written(n - 1) # setter
          /\ Written(n - 1) \in Cells
      BY <1>1, <1>2, <2>2, WrittenBefore
    <3>2. /\ n \in Nat /\ n - 1 < Len(pushed) /\ Len(pushed') - n = Len(pushed) - (n - 1)
          /\ Len(pushed) - (n - 1) \in 1..Len(pushed)
      BY <1>4, <1>8, <2>2, RingAssumption DEF Cells
    <3>3. head[Written(n - 1)] = pushed[Len(pushed) - (n - 1)]
      BY <1>3, <1>8, <3>1, <3>2
    <3>4. head'[Written(n - 1)] = head[Written(n - 1)]
      BY <1>1, <1>2, <3>1
    <3>5. pushed'[Len(pushed) - (n - 1)] = pushed[Len(pushed) - (n - 1)]
      BY <1>1, <1>2, <3>2
    <3> QED BY <3>1, <3>2, <3>3, <3>4, <3>5
  <2> QED BY <2>1, <2>2
<1>9. getter' # Invalid /\ getter' = popped'
  BY <1>1, <1>2 DEF Invalid
<1> QED BY <1>4, <1>5, <1>6, <1>7, <1>8, <1>9 DEF RingInv, RingReplays

LEMMA PopInv == RingInv /\ RingPop => RingInv'
<1> SUFFICES ASSUME RingInv, RingPop PROVE RingInv'
  OBVIOUS
<1>1. /\ UNCHANGED <<head, setter, pushed>> /\ alive /\ getter # Invalid
      /\ getter' = IF getter + 1 = setter THEN Invalid ELSE getter + 1
      /\ popped' = IF getter' = Invalid THEN 0 ELSE popped + 1
      /\ getter' = Invalid => emptied'
  BY DEF RingPop
<1>2. popped \in Nat /\ getter = popped
  BY <1>1 DEF RingInv, RingReplays
<1>3. /\ popped' \in Nat
      /\ getter' = Invalid => popped' = 0 /\ emptied'
      /\ getter' # Invalid => getter' = popped'
  BY <1>1, <1>2
<1>4. \A n \in Cells : Written(n)' = Written(n)
  BY <1>1 DEF Written
<1> QED BY <1>1, <1>3, <1>4 DEF RingInv, RingReplays

LEMMA EmptyInv == RingInv /\ (RingClear \/ RingFree) => RingInv'
<1> SUFFICES ASSUME RingInv, RingClear \/ RingFree PROVE RingInv'
  OBVIOUS
<1>1. /\ setter' = 0 /\ getter' = Invalid /\ pushed' = <<>> /\ popped' = 0 /\ head' = head
      /\ Len(pushed') = 0
  BY DEF RingClear, RingFree
<1>2. 0 \in Cells /\ 0 = 0 * Capacity + 0 /\ 0 \in 0..0 /\ \A n \in Cells : ~(n < 0)
  BY RingAssumption DEF Cells
<1> QED BY <1>1, <1>2 DEF RingInv, RingReplays

LEMMA OverwrittenInv == ASSUME RingInv, NEW i \in Cells, RingOverwritten(i) PROVE RingInv'
<1>1. /\ UNCHANGED <<setter, getter, alive, pushed, popped, emptied>> /\ alive /\ ~InBlock(i)
      /\ head' \in [Cells -> Datum \cup {Nothing}]
      /\ \A j \in Cells : j # i => head'[j] = head[j]
  BY DEF RingOverwritten, RingInv
<1>2. \A n \in Cells : Written(n)' = Written(n) /\ Written(n) \in Cells
  BY <1>1, RingAssumption DEF RingInv, RingReplays, Written, Cells
<1>3. ASSUME NEW n \in Cells, n < Len(pushed), InBlock(Written(n))
      PROVE  head'[Written(n)] = pushed[Len(pushed) - n]
  <2>1. Written(n) \in Cells /\ Written(n) # i
    BY <1>1, <1>2, <1>3
  <2>2. head[Written(n)] = pushed[Len(pushed) - n]
    BY <1>1, <1>3 DEF RingInv, RingReplays
  <2> QED BY <1>1, <2>1, <2>2
<1> QED BY <1>1, <1>2, <1>3 DEF RingInv, RingReplays

\* The items and their bookkeeping agree in every state; beside RingReplays itself only types are
\* needed.
THEOREM RingInvariant == RingSpec => []RingInv
<1>1. RingInit => RingInv
  BY RingInitInv
<1>2. RingInv /\ [RingNext]_ringVars => RingInv'
  <2>1. RingInv /\ UNCHANGED ringVars => RingInv'
    <3> SUFFICES ASSUME RingInv, UNCHANGED ringVars PROVE RingInv'
      OBVIOUS
    <3>1. UNCHANGED <<head, setter, getter, alive, pushed, popped, emptied>>
      BY DEF ringVars
    <3>2. \A n \in Cells : Written(n)' = Written(n)
      BY <3>1 DEF Written
    <3> QED BY <3>1, <3>2 DEF RingInv, RingReplays
  <2> QED BY <2>1, PushInv, PopInv, EmptyInv, OverwrittenInv DEF RingNext
<1> QED BY <1>1, <1>2, PTL DEF RingSpec

\* A ring of any size, pushed round its end any number of times, still has in each item of its block
\* the last datum pushed there, whatever is written behind the block, and its getter counts the
\* pops from the first item on (gfc_ring.c:73, 80-102).
THEOREM RingReplaysCorrect == RingSpec => []RingReplays
<1>1. RingInv => RingReplays
  BY DEF RingInv
<1> QED BY <1>1, RingInvariant, PTL

-----------------------------------------------------------------------------
\* Digests.
Octets == {"m", "one", "zero", "length"} \X Nat
Blocks == [1..BlockLength -> Octets]

ShaTypeOK ==
  /\ block \in Blocks /\ hashed \in Seq(Blocks)
  /\ index \in 0..(BlockLength - 1)
  /\ low \in 0..(LowLimit - 1) /\ high \in 0..(HighLimit - 1)
  /\ computed \in BOOLEAN /\ corrupted \in {Success, TooLong, StateError}
  /\ left \in Nat /\ message \in Nat

\* Before the padding the blocks that were hashed and the one at hand hold the message, and the
\* two counters its length.
TakenInv ==
  ~computed /\ corrupted = Success =>
    /\ message = Len(hashed) * BlockLength + index
    /\ message = high * LowLimit + low
    /\ \A b \in 1..Len(hashed) : \A p \in 1..BlockLength :
         hashed[b][p] = <<"m", (b - 1) * BlockLength + p>>
    /\ \A p \in 1..index : block[p] = <<"m", Len(hashed) * BlockLength + p>>

\* After it the blocks are those of the padded message, and no more octets are taken.
PaddedInv ==
  /\ computed => PaddingOf(hashed, message) /\ message < LowLimit * HighLimit
  /\ computed \/ corrupted # Success => left = 0
  /\ digest # NoDigest => computed /\ digest = hashed

ShaInv == ShaTypeOK /\ TakenInv /\ PaddedInv

-------------------------------------------------------------------------------
(* Products *)

LEMMA NextMultiple == \A n, k \in Nat : n * k \in Nat /\ (n + 1) * k = n * k + k
OBVIOUS

LEMMA MultiplesGrow == \A m, n, k \in Nat : m <= n => m * k <= n * k
OBVIOUS

\* The two counters hold no more than their limits allow.
LEMMA CountersBelow ==
  ASSUME NEW l \in 0..(LowLimit - 1), NEW h \in 0..(HighLimit - 1)
  PROVE  h * LowLimit + l < LowLimit * HighLimit
<1>1. LowLimit \in Nat /\ HighLimit \in Nat /\ h \in Nat /\ l < LowLimit /\ h + 1 <= HighLimit
  BY Sha1Assumption
<1>2. (h + 1) * LowLimit = h * LowLimit + LowLimit /\ h * LowLimit \in Nat
  BY <1>1, NextMultiple
<1>3. (h + 1) * LowLimit <= HighLimit * LowLimit
  BY <1>1, MultiplesGrow
<1> QED BY <1>1, <1>2, <1>3

-------------------------------------------------------------------------------
LEMMA ShaInitInv == ShaInit => ShaInv
<1> SUFFICES ASSUME ShaInit PROVE ShaInv
  OBVIOUS
<1>1. ShaTypeOK
  <2>1. block \in Blocks
    <3>1. Marker \in Octets
      BY DEF Marker, Octets
    <3> QED BY <3>1 DEF ShaInit, Blocks
  <2>2. computed \in BOOLEAN /\ corrupted \in {Success, TooLong, StateError}
    BY DEF ShaInit
  <2>3. /\ index \in 0..(BlockLength - 1) /\ low \in 0..(LowLimit - 1)
        /\ high \in 0..(HighLimit - 1) /\ left \in Nat /\ message \in Nat
    BY Sha1Assumption DEF ShaInit
  <2>4. hashed \in Seq(Blocks)
    BY DEF ShaInit
  <2> QED BY <2>1, <2>2, <2>3, <2>4 DEF ShaTypeOK
<1>2. TakenInv
  BY Sha1Assumption DEF ShaInit, TakenInv
<1>3. PaddedInv
  BY DEF ShaInit, PaddedInv
<1> QED BY <1>1, <1>2, <1>3 DEF ShaInv

\* One octet: it goes to its place, and both ways to count it agree.
LEMMA OctetInv == ShaInv /\ ShaOctet => ShaInv'
<1> SUFFICES ASSUME ShaInv, ShaOctet PROVE ShaInv'
  OBVIOUS
<1> DEFINE stored == [block EXCEPT ![index + 1] = <<"m", message + 1>>]
           lowWraps == low + 1 = LowLimit
           highWraps == lowWraps /\ high + 1 = HighLimit
<1>1. /\ ~computed /\ corrupted = Success /\ digest = NoDigest
      /\ computed' = computed /\ digest' = digest
      /\ message' = message + 1
      /\ block' = stored
      /\ low' = IF lowWraps THEN 0 ELSE low + 1
      /\ high' = IF highWraps THEN 0 ELSE IF lowWraps THEN high + 1 ELSE high
      /\ corrupted' = IF highWraps THEN TooLong ELSE corrupted
      /\ left' = IF highWraps THEN 0 ELSE left - 1
      /\ index' = IF index + 1 = BlockLength THEN 0 ELSE index + 1
      /\ hashed' = IF index + 1 = BlockLength THEN Append(hashed, stored) ELSE hashed
  BY DEF ShaInv, ShaTypeOK, PaddedInv, ShaOctet, Full
<1>2. /\ BlockLength \in Nat /\ LowLimit \in Nat /\ HighLimit \in Nat /\ LowLimit > 0 /\ HighLimit > 0
      /\ Len(hashed) \in Nat /\ Len(hashed) * BlockLength \in Nat
      /\ index \in Nat /\ index + 1 \in 1..BlockLength
      /\ message \in Nat
  BY Sha1Assumption, NextMultiple DEF ShaInv, ShaTypeOK
<1>3. stored \in Blocks
  <2>1. <<"m", message + 1>> \in Octets
    BY <1>2 DEF Octets
  <2> QED BY <1>2, <2>1 DEF ShaInv, ShaTypeOK, Blocks
<1>4. ShaTypeOK'
  <2>1. hashed' \in Seq(Blocks) /\ block' \in Blocks
    BY <1>1, <1>3 DEF ShaInv, ShaTypeOK
  <2>2. index' \in 0..(BlockLength - 1) /\ message' \in Nat
    BY <1>1, <1>2
  <2>3. low' \in 0..(LowLimit - 1) /\ high' \in 0..(HighLimit - 1) /\ left' \in Nat
    BY <1>1, <1>2 DEF ShaInv, ShaTypeOK, ShaOctet
  <2> QED BY <1>1, <2>1, <2>2, <2>3 DEF ShaTypeOK, ShaInv
<1>5. TakenInv'
  <2> SUFFICES ASSUME ~highWraps PROVE TakenInv'
    BY <1>1 DEF TakenInv, TooLong, Success
  <2>1. /\ message = Len(hashed) * BlockLength + index
        /\ message = high * LowLimit + low
        /\ \A b \in 1..Len(hashed) : \A p \in 1..BlockLength :
             hashed[b][p] = <<"m", (b - 1) * BlockLength + p>>
        /\ \A p \in 1..index : block[p] = <<"m", Len(hashed) * BlockLength + p>>
    BY <1>1 DEF ShaInv, TakenInv
  <2>2. ASSUME NEW p \in 1..(index + 1) PROVE stored[p] = <<"m", Len(hashed) * BlockLength + p>>
    <3>1. block \in [1..BlockLength -> Octets] /\ p \in 1..BlockLength
      BY <1>2 DEF ShaInv, ShaTypeOK, Blocks
    <3>2. CASE p = index + 1
      <4>1. message + 1 = Len(hashed) * BlockLength + p
        BY <1>2, <2>1, <3>2
      <4>2. stored[p] = <<"m", message + 1>>
        BY <3>1, <3>2
      <4> QED BY <4>1, <4>2
    <3>3. CASE p # index + 1
      <4>1. p \in 1..index
        BY <1>2, <3>3
      <4>2. stored[p] = block[p]
        BY <3>1, <3>3
      <4> QED BY <2>1, <4>1, <4>2
    <3> QED BY <3>2, <3>3
  <2>3. message' = high' * LowLimit + low'
    <3>1. high \in Nat /\ low \in Nat /\ (high + 1) * LowLimit = high * LowLimit + LowLimit
      BY <1>2, NextMultiple DEF ShaInv, ShaTypeOK
    <3>2. CASE lowWraps
      <4>1. high' = high + 1 /\ low' = 0 /\ low + 1 = LowLimit /\ message' = message + 1
        BY <1>1, <3>2
      <4>2. high * LowLimit \in Nat
        BY <1>2, <3>1, NextMultiple
      <4>3. high' * LowLimit = high * LowLimit + LowLimit
        BY <3>1, <4>1
      <4> QED BY <1>2, <2>1, <3>1, <4>1, <4>2, <4>3
    <3>3. CASE ~lowWraps
      <4>1. high' = high /\ low' = low + 1
        BY <1>1, <3>3
      <4>2. high * LowLimit \in Nat
        BY <1>2, <3>1, NextMultiple
      <4> QED BY <1>1, <2>1, <3>1, <4>1, <4>2
    <3> QED BY <3>2, <3>3
  <2>4. CASE index + 1 = BlockLength
    <3>1. /\ Len(hashed') = Len(hashed) + 1 /\ index' = 0
          /\ hashed'[Len(hashed) + 1] = stored
          /\ \A b \in 1..Len(hashed) : hashed'[b] = hashed[b]
      BY <1>1, <1>3, <2>4 DEF ShaInv, ShaTypeOK
    <3>2. (Len(hashed) + 1) * BlockLength = Len(hashed) * BlockLength + BlockLength
      BY <1>2, NextMultiple
    <3>3. message' = Len(hashed') * BlockLength + index'
      BY <1>1, <1>2, <2>1, <2>4, <3>1, <3>2
    <3>4. ASSUME NEW b \in 1..Len(hashed'), NEW p \in 1..BlockLength
          PROVE  hashed'[b][p] = <<"m", (b - 1) * BlockLength + p>>
      <4>1. CASE b = Len(hashed) + 1
        <5>1. b - 1 = Len(hashed) /\ hashed'[b] = stored /\ p \in 1..(index + 1)
          BY <1>2, <2>4, <3>1, <4>1
        <5> HIDE DEF stored
        <5> QED BY <2>2, <5>1
      <4>2. CASE b # Len(hashed) + 1
        <5>1. b \in 1..Len(hashed) /\ hashed'[b] = hashed[b]
          BY <1>2, <3>1, <4>2
        <5> QED BY <2>1, <5>1
      <4> QED BY <4>1, <4>2
    <3> QED BY <2>3, <3>1, <3>3, <3>4 DEF TakenInv
  <2>5. CASE index + 1 # BlockLength
    <3>1. hashed' = hashed /\ index' = index + 1 /\ block' = stored
      BY <1>1, <2>5
    <3>2. message' = Len(hashed') * BlockLength + index'
      BY <1>1, <1>2, <2>1, <3>1
    <3> QED BY <2>1, <2>2, <2>3, <3>1, <3>2 DEF TakenInv
  <2> QED BY <2>4, <2>5
<1>6. PaddedInv'
  BY <1>1 DEF PaddedInv, TooLong, Success
<1> QED BY <1>4, <1>5, <1>6 DEF ShaInv

\* Both ways to pad give the padding of the message, in one block more or in two.
LEMMA PaddingCorrect ==
  ASSUME ShaInv, ~computed, corrupted = Success
  PROVE  hashed \o Padding \in Seq(Blocks) /\ PaddingOf(hashed \o Padding, message)
<1> DEFINE n == Len(hashed)
           blocks == hashed \o Padding
<1>1. /\ BlockLength \in Nat /\ LengthField \in Nat /\ LengthField >= 1 /\ LengthField < BlockLength
      /\ n \in Nat /\ n * BlockLength \in Nat /\ index \in Nat /\ index < BlockLength
      /\ message = n * BlockLength + index
      /\ message = high * LowLimit + low
      /\ \A b \in 1..n : \A p \in 1..BlockLength : hashed[b][p] = <<"m", (b - 1) * BlockLength + p>>
      /\ \A p \in 1..index : block[p] = <<"m", n * BlockLength + p>>
  BY Sha1Assumption, NextMultiple DEF ShaInv, ShaTypeOK, TakenInv
<1>2. /\ (n + 1) * BlockLength = n * BlockLength + BlockLength
      /\ (n + 2) * BlockLength = n * BlockLength + BlockLength + BlockLength
  <2>1. (n + 1) * BlockLength = n * BlockLength + BlockLength
    BY <1>1, NextMultiple
  <2>2. ((n + 1) + 1) * BlockLength = (n + 1) * BlockLength + BlockLength
    BY <1>1, NextMultiple
  <2>3. (n + 1) + 1 = n + 2
    BY <1>1
  <2> QED BY <1>1, <2>1, <2>2, <2>3
<1>3. /\ Marked(index) \in Blocks /\ ZeroBlock \in Blocks
      /\ WithLength(Marked(index)) \in Blocks /\ WithLength(ZeroBlock) \in Blocks
  <2>1. /\ Marker \in Octets /\ ZeroOctet \in Octets
        /\ <<"length", high * LowLimit + low>> \in Octets
    BY <1>1 DEF Marker, ZeroOctet, Octets
  <2>2. Marked(index) \in Blocks /\ ZeroBlock \in Blocks
    BY <2>1 DEF Marked, ZeroBlock, Blocks, ShaInv, ShaTypeOK
  <2>3. ASSUME NEW b \in Blocks PROVE WithLength(b) \in Blocks
    BY <2>1 DEF WithLength, Blocks
  <2> QED BY <2>2, <2>3
<1>4. \A p \in 1..BlockLength :
        /\ p <= index => Marked(index)[p] = <<"m", n * BlockLength + p>>
        /\ p = index + 1 => Marked(index)[p] = Marker
        /\ p > index + 1 => Marked(index)[p] = ZeroOctet
        /\ ZeroBlock[p] = ZeroOctet
  BY <1>1 DEF Marked, ZeroBlock
<1>5. \A p \in 1..BlockLength : \A b \in Blocks :
        /\ p > BlockLength - LengthField => WithLength(b)[p] = <<"length", message>>
        /\ ~(p > BlockLength - LengthField) => WithLength(b)[p] = b[p]
  BY <1>1 DEF WithLength
<1>6. /\ n \in Nat /\ n * BlockLength \in Nat /\ index \in Nat /\ index < BlockLength /\ BlockLength \in Nat
      /\ message = n * BlockLength + index /\ LengthField \in Nat
  BY <1>1
<1> HIDE DEF blocks, n
\* The blocks that were hashed before.
<1>7. ASSUME NEW k \in Nat, NEW b \in 1..n, NEW p \in 1..BlockLength
      PROVE  hashed[b][p] = Expected(message, k, b, p)
  <2>1. b - 1 \in Nat /\ (b - 1) * BlockLength \in Nat /\ b * BlockLength <= n * BlockLength
    <3>1. b \in Nat /\ b - 1 \in Nat /\ b <= n
      BY <1>1
    <3> QED BY <1>1, <3>1, NextMultiple, MultiplesGrow
  <2>2. (b - 1) * BlockLength + BlockLength = b * BlockLength
    <3>1. ((b - 1) + 1) * BlockLength = (b - 1) * BlockLength + BlockLength
      BY <1>1, <2>1, NextMultiple
    <3>2. (b - 1) + 1 = b
      OBVIOUS
    <3> QED BY <3>1, <3>2
  <2>3. (b - 1) * BlockLength + p <= message
    BY <1>1, <2>1, <2>2
  <2> QED BY <1>1, <2>3 DEF Expected
<1>8. CASE ~Crowded(index)
  <2>1. Padding = <<WithLength(Marked(index))>> /\ index + 1 + LengthField <= BlockLength
    BY <1>1, <1>8 DEF Padding, Crowded
  <2>2. /\ blocks \in Seq(Blocks) /\ Len(blocks) = n + 1 /\ blocks[n + 1] = WithLength(Marked(index))
        /\ \A b \in 1..n : blocks[b] = hashed[b]
    BY <1>3, <2>1 DEF blocks, n, ShaInv, ShaTypeOK
  <2>3. ASSUME NEW p \in 1..BlockLength
        PROVE  blocks[n + 1][p] = Expected(message, n + 1, n + 1, p)
    <3>1. ((n + 1) - 1) * BlockLength = n * BlockLength
      BY <1>1
    <3>2. blocks[n + 1][p] = IF p > BlockLength - LengthField THEN <<"length", message>> ELSE Marked(index)[p]
      BY <1>3, <1>5, <2>2
    <3>3. Expected(message, n + 1, n + 1, p) =
            IF n * BlockLength + p <= message THEN <<"m", n * BlockLength + p>>
            ELSE IF n * BlockLength + p = message + 1 THEN Marker
            ELSE IF p > BlockLength - LengthField THEN <<"length", message>> ELSE ZeroOctet
      BY <3>1 DEF Expected
    <3>4. CASE p <= index
      BY <1>4, <1>6, <2>1, <3>2, <3>3, <3>4
    <3>5. CASE p > index
      BY <1>4, <1>6, <2>1, <3>2, <3>3, <3>5
    <3> QED BY <1>6, <3>4, <3>5
  <2>4. ASSUME NEW b \in 1..Len(blocks), NEW p \in 1..BlockLength
        PROVE  blocks[b][p] = Expected(message, Len(blocks), b, p)
    <3>1. CASE b = n + 1
      BY <2>2, <2>3, <3>1
    <3>2. CASE b # n + 1
      <4>1. b \in 1..n /\ n + 1 \in Nat
        BY <1>1, <2>2, <3>2
      <4> QED BY <1>7, <2>2, <4>1
    <3> QED BY <3>1, <3>2
  <2>5. /\ (Len(blocks) - 1) * BlockLength < message + 1 + LengthField
        /\ message + 1 + LengthField <= Len(blocks) * BlockLength
    <3>1. Len(blocks) - 1 = n /\ Len(blocks) = n + 1
      BY <1>1, <2>2
    <3>2. n * BlockLength < message + 1 + LengthField
      BY <1>1
    <3>3. message + 1 + LengthField <= (n + 1) * BlockLength
      BY <1>1, <1>2, <2>1
    <3> QED BY <3>1, <3>2, <3>3
  <2> QED BY <2>2, <2>4, <2>5 DEF PaddingOf, blocks
<1>9. CASE Crowded(index)
  <2>1. Padding = <<Marked(index), WithLength(ZeroBlock)>> /\ index + 1 + LengthField > BlockLength
    BY <1>1, <1>9 DEF Padding, Crowded
  <2>2. /\ blocks \in Seq(Blocks) /\ Len(blocks) = n + 2
        /\ blocks[n + 1] = Marked(index) /\ blocks[n + 2] = WithLength(ZeroBlock)
        /\ \A b \in 1..n : blocks[b] = hashed[b]
    BY <1>3, <2>1 DEF blocks, n, ShaInv, ShaTypeOK
  <2>3. ASSUME NEW p \in 1..BlockLength
        PROVE  /\ blocks[n + 1][p] = Expected(message, n + 2, n + 1, p)
               /\ blocks[n + 2][p] = Expected(message, n + 2, n + 2, p)
    <3>1. (n + 1) - 1 = n /\ (n + 2) - 1 = n + 1
      BY <1>1
    <3>2. blocks[n + 2][p] = IF p > BlockLength - LengthField THEN <<"length", message>> ELSE ZeroOctet
      BY <1>3, <1>4, <1>5, <2>2
    <3>3. blocks[n + 1][p] = Expected(message, n + 2, n + 1, p)
      <4>1. Expected(message, n + 2, n + 1, p) =
              IF n * BlockLength + p <= message THEN <<"m", n * BlockLength + p>>
              ELSE IF n * BlockLength + p = message + 1 THEN Marker ELSE ZeroOctet
        <5>1. n + 1 # n + 2
          BY <1>6
        <5> QED BY <3>1, <5>1 DEF Expected
      <4>2. CASE p <= index
        <5>1. blocks[n + 1][p] = <<"m", n * BlockLength + p>>
          BY <1>4, <2>2, <4>2
        <5>2. n * BlockLength + p <= message
          BY <1>6, <4>2
        <5> QED BY <4>1, <5>1, <5>2
      <4>3. CASE p > index
        <5>1. blocks[n + 1][p] = IF p = index + 1 THEN Marker ELSE ZeroOctet
          <6>1. p = index + 1 \/ p > index + 1
            BY <1>6, <4>3
          <6> QED BY <1>4, <2>2, <6>1
        <5> QED BY <1>6, <4>1, <4>3, <5>1
      <4> QED BY <1>6, <4>2, <4>3
    <3>4. (n + 1) * BlockLength + p > message + 1
      BY <1>1, <1>2
    <3>5. blocks[n + 2][p] = Expected(message, n + 2, n + 2, p)
      BY <1>1, <1>2, <3>1, <3>2, <3>4 DEF Expected
    <3> QED BY <3>3, <3>5
  <2>4. ASSUME NEW b \in 1..Len(blocks), NEW p \in 1..BlockLength
        PROVE  blocks[b][p] = Expected(message, Len(blocks), b, p)
    <3>1. CASE b \in {n + 1, n + 2}
      BY <2>2, <2>3, <3>1
    <3>2. CASE b \notin {n + 1, n + 2}
      <4>1. b \in 1..n /\ n + 2 \in Nat
        BY <1>1, <2>2, <3>2
      <4> QED BY <1>7, <2>2, <4>1
    <3> QED BY <3>1, <3>2
  <2>5. /\ (Len(blocks) - 1) * BlockLength < message + 1 + LengthField
        /\ message + 1 + LengthField <= Len(blocks) * BlockLength
    <3>1. Len(blocks) - 1 = n + 1 /\ Len(blocks) = n + 2
      BY <1>1, <2>2
    <3>2. (n + 1) * BlockLength < message + 1 + LengthField
      BY <1>1, <1>2, <2>1
    <3>3. message + 1 + LengthField <= (n + 2) * BlockLength
      BY <1>1, <1>2
    <3> QED BY <3>1, <3>2, <3>3
  <2> QED BY <2>2, <2>4, <2>5 DEF PaddingOf, blocks
<1> QED BY <1>8, <1>9

LEMMA ResultInv == ShaInv /\ ShaResult => ShaInv'
<1> SUFFICES ASSUME ShaInv, ShaResult PROVE ShaInv'
  OBVIOUS
<1> USE DEF ShaInv
<1>1. CASE corrupted # Success \/ computed
  <2>1. /\ UNCHANGED <<block, index, low, high, hashed, computed, corrupted, left, message>>
        /\ digest' = NoDigest \/ (digest' = hashed /\ computed)
    BY <1>1 DEF ShaResult
  <2> QED BY <2>1 DEF ShaTypeOK, TakenInv, PaddedInv, PaddingOf, Expected
<1>2. CASE corrupted = Success /\ ~computed
  <2>1. /\ hashed' = hashed \o Padding /\ digest' = hashed' /\ computed' = TRUE
        /\ block' = ZeroBlock /\ index' = 0 /\ low' = 0 /\ high' = 0 /\ left = 0
        /\ UNCHANGED <<corrupted, left, message>>
    BY <1>2 DEF ShaResult
  <2>2. hashed' \in Seq(Blocks) /\ PaddingOf(hashed', message)
    BY <1>2, <2>1, PaddingCorrect
  <2>3. message < LowLimit * HighLimit
    BY <1>2, CountersBelow DEF TakenInv, ShaTypeOK
  <2>4. ZeroBlock \in Blocks
    BY DEF ZeroBlock, ZeroOctet, Blocks, Octets
  <2>5. ShaTypeOK'
    <3>1. index' \in 0..(BlockLength - 1) /\ low' \in 0..(LowLimit - 1) /\ high' \in 0..(HighLimit - 1)
      BY <2>1, Sha1Assumption
    <3> QED BY <2>1, <2>2, <2>4, <3>1 DEF ShaTypeOK
  <2>6. TakenInv'
    BY <2>1 DEF TakenInv
  <2>7. PaddedInv'
    BY <2>1, <2>2, <2>3 DEF PaddedInv, PaddingOf, Expected
  <2> QED BY <2>5, <2>6, <2>7
<1> QED BY <1>1, <1>2

LEMMA ResetInv == ShaInv /\ ShaReset => ShaInv'
<1> SUFFICES ASSUME ShaInv, ShaReset PROVE ShaInv'
  OBVIOUS
<1>1. /\ index' = 0 /\ low' = 0 /\ high' = 0 /\ hashed' = <<>> /\ computed' = FALSE
      /\ corrupted' = Success /\ message' = 0 /\ digest' = NoDigest
      /\ block' = block /\ left' = left
  BY DEF ShaReset
<1>2. ShaTypeOK'
  <2>1. hashed' \in Seq(Blocks)
    BY <1>1
  <2>2. /\ index' \in 0..(BlockLength - 1) /\ low' \in 0..(LowLimit - 1)
        /\ high' \in 0..(HighLimit - 1) /\ message' \in Nat
    BY <1>1, Sha1Assumption
  <2>3. computed' \in BOOLEAN /\ corrupted' \in {Success, TooLong, StateError}
    BY <1>1
  <2> QED BY <1>1, <2>1, <2>2, <2>3 DEF ShaTypeOK, ShaInv
<1>3. TakenInv'
  BY <1>1, Sha1Assumption DEF TakenInv
<1>4. PaddedInv'
  BY <1>1 DEF PaddedInv
<1> QED BY <1>2, <1>3, <1>4 DEF ShaInv

LEMMA InputInv == ASSUME ShaInv, NEW length \in 1..MaxInput, ShaInput(length) PROVE ShaInv'
<1>1. /\ UNCHANGED <<block, index, low, high, hashed, computed, message, digest>>
      /\ corrupted' = IF computed THEN StateError ELSE corrupted
      /\ left' = IF computed \/ corrupted # Success THEN 0 ELSE length
      /\ left = 0
  BY DEF ShaInput
<1>2. ShaTypeOK'
  BY <1>1, Sha1Assumption DEF ShaTypeOK, ShaInv
<1>3. TakenInv'
  BY <1>1 DEF TakenInv, ShaInv
<1>4. PaddedInv'
  BY <1>1 DEF PaddedInv, ShaInv, PaddingOf, Expected, StateError, Success
<1> QED BY <1>2, <1>3, <1>4 DEF ShaInv

\* The invariant holds in every state of every context.
THEOREM ShaInvariant == ShaSpec => []ShaInv
<1>1. ShaInit => ShaInv
  BY ShaInitInv
<1>2. ShaInv /\ [ShaNext]_shaVars => ShaInv'
  <2>1. CASE UNCHANGED shaVars
    BY <2>1 DEF shaVars, ShaInv, ShaTypeOK, TakenInv, PaddedInv, PaddingOf, Expected
  <2> QED BY <2>1, OctetInv, ResultInv, ResetInv, InputInv DEF ShaNext
<1> QED BY <1>1, <1>2, PTL DEF ShaSpec

\* gfc_sha1_result answers the digest of the padded message, or none (gfc_sha1.c:100-136, 342-389).
THEOREM DigestOfMessageCorrect == ShaSpec => []DigestOfMessage
<1>1. ShaInv => DigestOfMessage
  BY DEF ShaInv, PaddedInv, DigestOfMessage
<1> QED BY <1>1, ShaInvariant, PTL

-----------------------------------------------------------------------------
\* Strings.
\* The letters of a text, character by character.
LEMMA LettersIs ==
  ASSUME NEW S, NEW s \in Seq(S)
  PROVE  \E f \in [0..Len(s) -> Seq(S)] :
           /\ f[0] = <<>>
           /\ \A i \in 0..Len(s)-1 :
                f[i+1] = IF s[i+1] \in Letter THEN Append(f[i], s[i+1]) ELSE f[i]
           /\ Letters(s) = f[Len(s)]
<1> DEFINE N == Len(s)
           Turn(i, t) == IF s[i] \in Letter THEN Append(t, s[i]) ELSE t
           g == [i \in 1..N |-> [t \in Seq(S) |-> Turn(i, t)]]
           Eq(u) == u = [i \in 0..N |-> IF i = 0 THEN <<>>
                           ELSE IF s[i] \in Letter THEN Append(u[i-1], s[i]) ELSE u[i-1]]
           kept == CHOOSE u : Eq(u)
<1>1. N \in Nat /\ \A i \in 1..N : s[i] \in S
  BY ElementOfSeq, LenProperties
<1>2. <<>> \in Seq(S)
  BY EmptySeq
<1>3. g \in [1..N -> [Seq(S) -> Seq(S)]]
  <2>1. \A i \in 1..N : \A t \in Seq(S) : Turn(i, t) \in Seq(S)
    BY <1>1
  <2> HIDE DEF Turn
  <2> QED BY <2>1
<1>4. PICK f \in [0..N -> Seq(S)] : Loop(f, N, <<>>, g)
  <2> HIDE DEF N, g
  <2> QED BY <1>1, <1>2, <1>3, LoopExists
<1>5. \A i \in 1..N : f[i] = Turn(i, f[i-1])
  <2> TAKE i \in 1..N
  <2>1. i-1 \in 0..N
    BY <1>1
  <2>2. f[i-1] \in Seq(S)
    BY <2>1
  <2>3. f[i] = g[i][f[i-1]]
    <3> HIDE DEF N, g
    <3> QED BY <1>4 DEF Loop
  <2> HIDE DEF Turn
  <2> QED BY <2>2, <2>3
<1>6. Eq(f)
  <2>1. ASSUME NEW i \in 0..N PROVE f[i] = IF i = 0 THEN <<>> ELSE Turn(i, f[i-1])
    <3> HIDE DEF Turn, g, N
    <3>1. CASE i = 0
      BY <1>4, <3>1 DEF Loop
    <3>2. CASE i # 0
      <4>1. i \in 1..N
        BY <1>1, <3>2
      <4> QED BY <1>5, <3>2, <4>1
    <3> QED BY <3>1, <3>2
  <2>2. f = [i \in 0..N |-> f[i]]
    BY <1>1
  <2>3. f = [i \in 0..N |-> IF i = 0 THEN <<>> ELSE Turn(i, f[i-1])]
    <3> HIDE DEF Turn, N, g
    <3> QED BY <2>1, <2>2, Zenon
  <2> QED BY <2>3, Zenon
<1>7. Eq(kept)
  <2> HIDE DEF Eq
  <2> QED BY <1>6
<1>8. Letters(s) = kept[N]
  BY Zenon DEF Letters
<1> HIDE DEF kept
<1>9. \A i \in 0..N : kept[i] = IF i = 0 THEN <<>>
                           ELSE IF s[i] \in Letter THEN Append(kept[i-1], s[i]) ELSE kept[i-1]
  BY <1>7, Zenon
<1> DEFINE Good == {i \in 0..N : kept[i] = f[i]}
<1>10. 0 \in Good
  <2>1. f[0] = <<>>
    BY <1>4 DEF Loop
  <2> QED BY <1>1, <1>9, <2>1
<1>11. ASSUME NEW i \in 0..N-1, i \in Good PROVE i+1 \in Good
  <2>1. i+1 \in 0..N /\ i+1 # 0 /\ (i+1)-1 = i /\ i+1 \in 1..N
    BY <1>1
  <2> QED BY <1>5, <1>9, <1>11, <2>1
<1>12. \A i \in 0..N-1 : i \in Good => i+1 \in Good
  BY <1>11
<1> HIDE DEF Good
<1>13. N \in Good
  <2>1. N \in 0..N
    BY <1>1
  <2> HIDE DEF N
  <2> QED BY <1>1, <1>10, <1>12, <2>1, Upwards
<1>14. Letters(s) = f[N]
  BY <1>8, <1>13 DEF Good
<1>15. f[0] = <<>>
  BY <1>4 DEF Loop
<1>16. \A i \in 0..N-1 : f[i+1] = IF s[i+1] \in Letter THEN Append(f[i], s[i+1]) ELSE f[i]
  <2> TAKE i \in 0..N-1
  <2>1. i+1 \in 1..N /\ (i+1)-1 = i
    BY <1>1
  <2> QED BY <1>5, <2>1
<1> QED BY <1>14, <1>15, <1>16

\* How many tokens begin before a place.
Earlier(s, i) == {c \in Begins(s) : c < i}
Nth(s, i) == Cardinality(Earlier(s, i))

LEMMA BeginsAre ==
  ASSUME NEW S, NEW s \in Seq(S)
  PROVE  /\ Len(s) \in Nat
         /\ Begins(s) \subseteq 1..Len(s)
         /\ IsFiniteSet(Begins(s)) /\ Cardinality(Begins(s)) \in Nat
         /\ \A i : /\ IsFiniteSet(Earlier(s, i)) /\ Nth(s, i) \in Nat
                   /\ Nth(s, i) <= Cardinality(Begins(s))
<1>1. Len(s) \in Nat /\ DOMAIN s = 1..Len(s)
  BY LenProperties
<1>2. Begins(s) \subseteq 1..Len(s)
  BY <1>1 DEF Begins
<1>3. IsFiniteSet(1..Len(s))
  BY <1>1, FS_Interval
<1>4. IsFiniteSet(Begins(s))
  BY <1>2, <1>3, FS_Subset
<1>5. Cardinality(Begins(s)) \in Nat
  BY <1>4, FS_CardinalityType
<1>6. ASSUME NEW i
      PROVE  /\ IsFiniteSet(Earlier(s, i)) /\ Nth(s, i) \in Nat
             /\ Nth(s, i) <= Cardinality(Begins(s))
  <2>1. Earlier(s, i) \in SUBSET Begins(s)
    BY DEF Earlier
  <2>2. IsFiniteSet(Earlier(s, i)) /\ Cardinality(Earlier(s, i)) <= Cardinality(Begins(s))
    BY <1>4, <2>1, FS_Subset
  <2> QED BY <2>2, FS_CardinalityType DEF Nth
<1> QED BY <1>1, <1>2, <1>4, <1>5, <1>6

LEMMA NthSteps ==
  ASSUME NEW S, NEW s \in Seq(S)
  PROVE  /\ Nth(s, 1) = 0
         /\ Nth(s, Len(s) + 1) = Cardinality(Begins(s))
         /\ \A i \in 1..Len(s) :
              Nth(s, i+1) = IF i \in Begins(s) THEN Nth(s, i) + 1 ELSE Nth(s, i)
<1>1. Len(s) \in Nat /\ Begins(s) \subseteq 1..Len(s)
  BY BeginsAre
<1>2. Nth(s, 1) = 0
  <2>1. Earlier(s, 1) = {}
    BY <1>1 DEF Earlier
  <2> QED BY <2>1, FS_EmptySet DEF Nth
<1>3. Nth(s, Len(s) + 1) = Cardinality(Begins(s))
  <2>1. Earlier(s, Len(s) + 1) = Begins(s)
    BY <1>1 DEF Earlier
  <2> QED BY <2>1 DEF Nth
<1>4. ASSUME NEW i \in 1..Len(s)
      PROVE  Nth(s, i+1) = IF i \in Begins(s) THEN Nth(s, i) + 1 ELSE Nth(s, i)
  <2>1. IsFiniteSet(Earlier(s, i)) /\ i \notin Earlier(s, i)
    <3>1. i \notin Earlier(s, i)
      BY <1>1 DEF Earlier
    <3> QED BY <3>1, BeginsAre
  <2>2. CASE i \in Begins(s)
    <3>1. Earlier(s, i+1) = Earlier(s, i) \cup {i}
      BY <1>1, <2>2 DEF Earlier
    <3> QED BY <2>1, <2>2, <3>1, FS_AddElement DEF Nth
  <2>3. CASE i \notin Begins(s)
    <3>1. Earlier(s, i+1) = Earlier(s, i)
      BY <1>1, <2>3 DEF Earlier
    <3> QED BY <2>3, <3>1 DEF Nth
  <2> QED BY <2>2, <2>3
<1> QED BY <1>2, <1>3, <1>4

LEMMA EndIs ==
  ASSUME NEW S, NEW s \in Seq(S), NEW b \in Begins(s)
  PROVE  /\ EndOf(s, b) \in b..Len(s)
         /\ EndOf(s, b) = Len(s) \/ s[EndOf(s, b) + 1] \notin Letter
         /\ \A j \in b..Len(s) :
              (j = Len(s) \/ s[j + 1] \notin Letter) => EndOf(s, b) <= j
<1> DEFINE E == {j \in b..Len(s) : j = Len(s) \/ s[j + 1] \notin Letter}
<1>1. Len(s) \in Nat /\ b \in 1..Len(s)
  BY BeginsAre
<1>2. Len(s) \in E /\ E \subseteq Nat
  BY <1>1
<1>3. EndOf(s, b) = Min(E)
  BY DEF EndOf
<1>4. E # {}
  BY <1>2
<1> HIDE DEF E
<1>5. Min(E) \in E /\ \A j \in E : Min(E) <= j
  BY <1>2, <1>4, MinIs
<1> QED BY <1>3, <1>5 DEF E

LEMMA NthUnique ==
  ASSUME NEW S, NEW s \in Seq(S), NEW b \in Begins(s), NEW c \in Begins(s), Nth(s, b) = Nth(s, c)
  PROVE  b = c
<1>1. ASSUME NEW d \in Begins(s), NEW e \in Begins(s), d < e PROVE Nth(s, d) < Nth(s, e)
  <2>1. Len(s) \in Nat /\ Begins(s) \subseteq 1..Len(s)
    BY BeginsAre
  <2>2. Earlier(s, d) \cup {d} \in SUBSET Earlier(s, e)
    BY <1>1, <2>1 DEF Earlier
  <2>3. IsFiniteSet(Earlier(s, e)) /\ IsFiniteSet(Earlier(s, d)) /\ d \notin Earlier(s, d)
    <3>1. d \notin Earlier(s, d)
      BY <2>1 DEF Earlier
    <3> QED BY <3>1, BeginsAre
  <2>4. Cardinality(Earlier(s, d) \cup {d}) = Nth(s, d) + 1
    BY <2>3, FS_AddElement DEF Nth
  <2>5. Cardinality(Earlier(s, d) \cup {d}) <= Nth(s, e)
    BY <2>2, <2>3, FS_Subset DEF Nth
  <2>6. Nth(s, d) \in Nat /\ Nth(s, e) \in Nat
    BY BeginsAre
  <2> QED BY <2>4, <2>5, <2>6
<1>2. b \in Int /\ c \in Int /\ Nth(s, b) \in Nat /\ Nth(s, c) \in Nat
  BY BeginsAre
<1> QED BY <1>1, <1>2

LEMMA TokenAt ==
  ASSUME NEW S, NEW s \in Seq(S), NEW b \in Begins(s)
  PROVE  /\ Nth(s, b) + 1 \in 1..Cardinality(Begins(s))
         /\ Tokens(s)[Nth(s, b) + 1] = SubSeq(s, b, EndOf(s, b))
<1>1. Nth(s, b) \in Nat /\ Cardinality(Begins(s)) \in Nat
  BY BeginsAre
<1>2. Nth(s, b) + 1 <= Cardinality(Begins(s))
  <2>1. b \in 1..Len(s) /\ Len(s) \in Nat
    BY BeginsAre
  <2>2. Nth(s, b+1) = Nth(s, b) + 1
    BY <2>1, NthSteps
  <2>3. Nth(s, b+1) <= Cardinality(Begins(s))
    BY BeginsAre
  <2> QED BY <2>2, <2>3
<1> DEFINE k == Nth(s, b) + 1
           First == CHOOSE c \in Begins(s) : Cardinality({d \in Begins(s) : d < c}) = k - 1
<1>3. k \in 1..Cardinality(Begins(s))
  BY <1>1, <1>2
<1>4. k - 1 = Nth(s, b)
  BY <1>1
<1>5. First = b
  <2> HIDE DEF k
  <2>1. \A c \in Begins(s) : Cardinality({d \in Begins(s) : d < c}) = Nth(s, c)
    BY DEF Nth, Earlier
  <2>2. \A c \in Begins(s) : Nth(s, c) = k - 1 => c = b
    BY <1>4, NthUnique
  <2> QED BY <1>4, <2>1, <2>2
<1>6. Tokens(s)[k] = SubSeq(s, First, EndOf(s, First))
  <2> HIDE DEF k
  <2> QED BY <1>3 DEF Tokens
<1> QED BY <1>3, <1>5, <1>6

\* For each number of a token there is a place where it begins.
LEMMA Ranked ==
  ASSUME NEW S, NEW s \in Seq(S), NEW k \in 1..Cardinality(Begins(s))
  PROVE  \E b \in Begins(s) : Nth(s, b) + 1 = k
<1> DEFINE Good == {i \in 0..Len(s) : \A l \in 1..Nth(s, i+1) : \E b \in Begins(s) : Nth(s, b) + 1 = l}
<1>1. Len(s) \in Nat /\ Begins(s) \subseteq 1..Len(s) /\ \A i : Nth(s, i) \in Nat
  BY BeginsAre
<1>2. 0 \in Good
  <2>1. Nth(s, 0+1) = 0
    BY NthSteps
  <2> QED BY <1>1, <2>1
<1>3. ASSUME NEW i \in 0..Len(s)-1, i \in Good PROVE i+1 \in Good
  <2>1. i+1 \in 1..Len(s) /\ i+1 \in 0..Len(s)
    BY <1>1
  <2>2. Nth(s, (i+1)+1) = IF i+1 \in Begins(s) THEN Nth(s, i+1) + 1 ELSE Nth(s, i+1)
    BY <2>1, NthSteps
  <2>3. \A l \in 1..Nth(s, i+1) : \E b \in Begins(s) : Nth(s, b) + 1 = l
    BY <1>3
  <2> HIDE DEF Good
  <2>4. CASE i+1 \in Begins(s)
    <3>1. \A l \in 1..Nth(s, (i+1)+1) : l \in 1..Nth(s, i+1) \/ l = Nth(s, i+1) + 1
      BY <1>1, <2>2, <2>4
    <3>2. \A l \in 1..Nth(s, (i+1)+1) : \E b \in Begins(s) : Nth(s, b) + 1 = l
      BY <2>3, <2>4, <3>1
    <3> QED BY <2>1, <3>2 DEF Good
  <2>5. CASE i+1 \notin Begins(s)
    BY <2>1, <2>2, <2>3, <2>5 DEF Good
  <2> QED BY <2>4, <2>5
<1>4. \A i \in 0..Len(s)-1 : i \in Good => i+1 \in Good
  BY <1>3
<1> HIDE DEF Good
<1>5. Len(s) \in 0..Len(s)
  BY <1>1
<1>6. Len(s) \in Good
  BY <1>1, <1>2, <1>4, <1>5, Upwards
<1>7. Nth(s, Len(s) + 1) = Cardinality(Begins(s))
  BY NthSteps
<1> QED BY <1>6, <1>7 DEF Good

LEMMA TokensTyped ==
  ASSUME NEW S, NEW s \in Seq(S)
  PROVE  /\ Tokens(s) \in Seq(Seq(S)) /\ Len(Tokens(s)) = Cardinality(Begins(s))
         /\ \A k \in DOMAIN Tokens(s) : Tokens(s)[k] # <<>>
<1> DEFINE N == Cardinality(Begins(s))
<1>1. N \in Nat /\ Len(s) \in Nat /\ Begins(s) \subseteq 1..Len(s)
  BY BeginsAre
<1>2. ASSUME NEW k \in 1..N
      PROVE  Tokens(s)[k] \in Seq(S) /\ Tokens(s)[k] # <<>>
  <2>1. PICK b \in Begins(s) : Nth(s, b) + 1 = k
    BY Ranked
  <2> DEFINE e == EndOf(s, b)
  <2>2. Tokens(s)[k] = SubSeq(s, b, e)
    BY <2>1, TokenAt
  <2>3. e \in b..Len(s) /\ b \in 1..Len(s)
    BY <1>1, EndIs
  <2> HIDE DEF e
  <2>4. \A i \in b..e : s[i] \in S
    BY <1>1, <2>3, ElementOfSeq
  <2>5. /\ SubSeq(s, b, e) \in Seq(S)
        /\ Len(SubSeq(s, b, e)) = IF b <= e THEN e - b + 1 ELSE 0
    <3>1. b \in Int /\ e \in Int
      BY <1>1, <2>3
    <3> QED BY <2>4, <3>1, SubSeqProperties
  <2>6. Len(SubSeq(s, b, e)) # 0
    BY <1>1, <2>3, <2>5
  <2>7. SubSeq(s, b, e) # <<>>
    <3>1. Len(<<>>) = 0
      OBVIOUS
    <3> QED BY <2>6, <3>1, Zenon
  <2> QED BY <2>2, <2>5, <2>7
<1>3. Tokens(s) = [k \in 1..N |-> Tokens(s)[k]] /\ DOMAIN Tokens(s) = 1..N
  <2> DEFINE Token(k) == LET i == CHOOSE b \in Begins(s) : Cardinality({c \in Begins(s) : c < b}) = k - 1
                         IN  SubSeq(s, i, EndOf(s, i))
  <2>1. Tokens(s) = [k \in 1..N |-> Token(k)]
    BY Zenon DEF Tokens
  <2> HIDE DEF N, Token
  <2> QED BY <2>1
<1>4. Tokens(s) \in [1..N -> Seq(S)]
  BY <1>2, <1>3
<1>5. Tokens(s) \in Seq(Seq(S)) /\ Len(Tokens(s)) = N
  BY <1>1, <1>4
<1> QED BY <1>2, <1>3, <1>5

LEMMA AppendIs == \A S : \A u \in Seq(S), d \in S : Append(u, d) = u \o <<d>>
OBVIOUS

LEMMA AppendBehind ==
  \A S : \A u, t \in Seq(S), d \in S : Append(u \o t, d) = u \o (t \o <<d>>)
<1> TAKE S
<1> TAKE u, t \in Seq(S), d \in S
<1> DEFINE one == <<d>>
<1>1. one \in Seq(S) /\ u \o t \in Seq(S)
  BY ConcatProperties
<1>2. Append(u \o t, d) = (u \o t) \o one
  BY <1>1, AppendIs
<1> HIDE DEF one
<1>3. (u \o t) \o one = u \o (t \o one)
  BY <1>1, ConcatAssociative
<1>4. Append(u \o t, d) = u \o (t \o one)
  BY <1>2, <1>3
<1> QED BY <1>4 DEF one

\* The tokens of a text are its letters, none lost.
LEMMA TokensAreLetters ==
  ASSUME NEW S, NEW s \in Seq(S)
  PROVE  FlattenSeq(Tokens(s)) = Letters(s)
<1>1. /\ Len(s) \in Nat /\ Begins(s) \subseteq 1..Len(s)
      /\ \A i : Nth(s, i) \in Nat /\ Nth(s, i) <= Cardinality(Begins(s))
      /\ Cardinality(Begins(s)) \in Nat
  BY BeginsAre
<1>2. Tokens(s) \in Seq(Seq(S)) /\ Len(Tokens(s)) = Cardinality(Begins(s))
  BY TokensTyped
<1> DEFINE N == Cardinality(Begins(s))
           q == Tokens(s)
<1>3. PICK flat \in [0..N -> Seq(S)] :
        /\ flat[0] = <<>>
        /\ \A k \in 0..N-1 : flat[k+1] = flat[k] \o q[k+1]
        /\ FlattenSeq(q) = flat[N]
  <2> HIDE DEF q
  <2>1. \E f \in [0..Len(q) -> Seq(S)] :
           /\ f[0] = <<>>
           /\ \A k \in 0..Len(q)-1 : f[k+1] = f[k] \o q[k+1]
           /\ FlattenSeq(q) = f[Len(q)]
    BY <1>2, FlattenIs DEF q
  <2>2. Len(q) = N
    BY <1>2 DEF q
  <2> QED BY <2>1, <2>2
<1>4. PICK kept \in [0..Len(s) -> Seq(S)] :
        /\ kept[0] = <<>>
        /\ \A i \in 0..Len(s)-1 :
             kept[i+1] = IF s[i+1] \in Letter THEN Append(kept[i], s[i+1]) ELSE kept[i]
        /\ Letters(s) = kept[Len(s)]
  BY LettersIs
\* Behind a letter all tokens but the last are complete, elsewhere all are.
<1> DEFINE In(i) == i > 0 /\ s[i] \in Letter
           Partial(i, b) ==
             /\ b <= i /\ Nth(s, b) + 1 = Nth(s, i+1)
             /\ \A j \in b..i : s[j] \in Letter
             /\ kept[i] = flat[Nth(s, b)] \o SubSeq(s, b, i)
           Good == {i \in 0..Len(s) :
                      IF In(i) THEN \E b \in Begins(s) : Partial(i, b)
                      ELSE kept[i] = flat[Nth(s, i+1)]}
<1>5. 0 \in Good
  <2>1. Nth(s, 0+1) = 0
    BY NthSteps
  <2> QED BY <1>1, <1>3, <1>4, <2>1
\* A token that ends at a place.
<1>6. ASSUME NEW i \in 0..Len(s), NEW b \in Begins(s), Partial(i, b),
             i = Len(s) \/ s[i+1] \notin Letter
      PROVE  kept[i] = flat[Nth(s, i+1)]
  <2>1. b \in 1..Len(s) /\ Nth(s, b) \in 0..N-1
    <3>1. Nth(s, b) + 1 \in 1..N
      BY TokenAt
    <3> QED BY <1>1, <3>1
  <2>2. EndOf(s, b) = i
    <3> DEFINE e == EndOf(s, b)
    <3>1. /\ e \in b..Len(s) /\ (e = Len(s) \/ s[e + 1] \notin Letter)
          /\ \A j \in b..Len(s) : (j = Len(s) \/ s[j + 1] \notin Letter) => e <= j
      BY EndIs
    <3> HIDE DEF e
    <3>2. i \in b..Len(s)
      BY <1>1, <1>6, <2>1
    <3>3. e <= i
      BY <1>6, <3>1, <3>2
    <3>4. ~(e < i)
      <4> SUFFICES ASSUME e < i PROVE FALSE
        OBVIOUS
      <4>1. e + 1 \in b..i /\ e # Len(s)
        BY <1>1, <2>1, <3>1, <3>2
      <4> QED BY <1>6, <3>1, <4>1
    <3>5. e = i
      BY <1>1, <2>1, <3>1, <3>2, <3>3, <3>4
    <3> QED BY <3>5 DEF e
  <2>3. q[Nth(s, b) + 1] = SubSeq(s, b, i)
    BY <2>2, TokenAt
  <2>4. flat[Nth(s, b) + 1] = flat[Nth(s, b)] \o q[Nth(s, b) + 1]
    BY <1>3, <2>1
  <2> HIDE DEF q
  <2>5. kept[i] = flat[Nth(s, b)] \o SubSeq(s, b, i) /\ Nth(s, b) + 1 = Nth(s, i+1)
    BY <1>6
  <2> QED BY <2>3, <2>4, <2>5, Zenon
<1>7. ASSUME NEW i \in 0..Len(s)-1, i \in Good PROVE i+1 \in Good
  <2> DEFINE p == i + 1
  <2>1. p \in 1..Len(s) /\ p \in 0..Len(s) /\ i \in 0..Len(s) /\ p > 0
    BY <1>1
  <2>2. p \in Begins(s) <=> s[p] \in Letter /\ ~In(i)
    <3>1. p \in Begins(s) <=> s[p] \in Letter /\ (p = 1 \/ s[p - 1] \notin Letter)
      <4>1. DOMAIN s = 1..Len(s)
        BY LenProperties
      <4> QED BY <2>1, <4>1 DEF Begins
    <3>2. p - 1 = i /\ (p = 1 <=> i = 0) /\ (i > 0 <=> i # 0)
      BY <2>1
    <3> HIDE DEF p
    <3> QED BY <3>1, <3>2
  <2>3. Nth(s, p+1) = IF p \in Begins(s) THEN Nth(s, p) + 1 ELSE Nth(s, p)
    BY <2>1, NthSteps
  <2>4. kept[p] = IF s[p] \in Letter THEN Append(kept[i], s[p]) ELSE kept[i]
    BY <1>4
  <2>5. IF In(i) THEN \E b \in Begins(s) : Partial(i, b) ELSE kept[i] = flat[Nth(s, p)]
    BY <1>7
  <2>6. s[p] \in S
    BY <2>1, ElementOfSeq
  <2>7. CASE s[p] \notin Letter
    <3>1. kept[i] = flat[Nth(s, p)]
      <4>1. CASE In(i)
        BY <1>6, <2>1, <2>5, <2>7, <4>1
      <4>2. CASE ~In(i)
        BY <2>5, <4>2
      <4> QED BY <4>1, <4>2
    <3>2. kept[p] = flat[Nth(s, p+1)] /\ ~In(p)
      BY <2>2, <2>3, <2>4, <2>7, <3>1
    <3> QED BY <2>1, <3>2
  <2>8. CASE s[p] \in Letter /\ ~In(i)
    <3>1. p \in Begins(s) /\ Nth(s, p) + 1 = Nth(s, p+1)
      BY <2>2, <2>3, <2>8
    <3>2. \A j \in p..p : s[j] \in Letter
      BY <2>1, <2>8
    <3>3. kept[p] = flat[Nth(s, p)] \o SubSeq(s, p, p)
      <4>1. Nth(s, p) \in 0..N
        BY <1>1
      <4>2. flat[Nth(s, p)] \in Seq(S)
        BY <4>1
      <4>3. SubSeq(s, p, p) = <<s[p]>>
        <5> HIDE DEF p
        <5>1. p \in p..Len(s) /\ p - 1 < p /\ p \in Int /\ p - 1 \in Int
          BY <1>1, <2>1
        <5>2. SubSeq(s, p, p) = SubSeq(s, p, p - 1) \o <<s[p]>>
          BY <2>1, <5>1, SubSeqRecursiveSecond
        <5>3. SubSeq(s, p, p - 1) = <<>>
          BY <5>1, SubSeqEmpty
        <5>4. <<s[p]>> \in Seq(S)
          BY <2>6
        <5>5. <<>> \o <<s[p]>> = <<s[p]>>
          BY <5>4, ConcatEmptySeq
        <5> QED BY <5>2, <5>3, <5>5, Zenon
      <4>4. kept[p] = Append(flat[Nth(s, p)], s[p])
        BY <2>4, <2>5, <2>8
      <4>5. Append(flat[Nth(s, p)], s[p]) = flat[Nth(s, p)] \o <<s[p]>>
        BY <2>6, <4>2, AppendIs
      <4> QED BY <4>3, <4>4, <4>5, Zenon
    <3>4. Partial(p, p)
      BY <2>1, <3>1, <3>2, <3>3
    <3> QED BY <2>1, <2>8, <3>1, <3>4
  <2>9. CASE s[p] \in Letter /\ In(i)
    <3>1. PICK b \in Begins(s) : Partial(i, b)
      BY <2>5, <2>9
    <3>2. b \in 1..Len(s) /\ b <= i
      BY <1>1, <3>1
    <3>3. Nth(s, b) + 1 = Nth(s, p+1)
      BY <2>2, <2>3, <2>9, <3>1
    <3>4. \A j \in b..p : s[j] \in Letter
      <4>1. \A j \in b..p : j \in b..i \/ j = p
        BY <2>1, <3>2
      <4> QED BY <2>9, <3>1, <4>1
    <3>5. kept[p] = flat[Nth(s, b)] \o SubSeq(s, b, p)
      <4>1. Nth(s, b) \in 0..N
        BY <1>1
      <4>2. flat[Nth(s, b)] \in Seq(S)
        BY <4>1
      <4>3. SubSeq(s, b, p) = SubSeq(s, b, i) \o <<s[p]>>
        <5>1. p \in b..Len(s) /\ p - 1 = i
          BY <2>1, <3>2
        <5> HIDE DEF p
        <5> QED BY <3>2, <5>1, SubSeqRecursiveSecond
      <4>4. SubSeq(s, b, i) \in Seq(S)
        <5>1. \A j \in b..i : s[j] \in S
          BY <2>1, <3>2, ElementOfSeq
        <5>2. b \in Int /\ i \in Int
          BY <2>1, <3>2
        <5> QED BY <5>1, <5>2, SubSeqProperties
      <4>5. kept[p] = Append(flat[Nth(s, b)] \o SubSeq(s, b, i), s[p])
        BY <2>4, <2>9, <3>1
      <4>6. Append(flat[Nth(s, b)] \o SubSeq(s, b, i), s[p])
              = flat[Nth(s, b)] \o (SubSeq(s, b, i) \o <<s[p]>>)
        BY <2>6, <4>2, <4>4, AppendBehind, Zenon
      <4> QED BY <4>3, <4>5, <4>6, Zenon
    <3>6. Partial(p, b)
      BY <2>1, <3>2, <3>3, <3>4, <3>5
    <3> QED BY <2>1, <2>9, <3>6
  <2> QED BY <2>7, <2>8, <2>9
<1>8. \A i \in 0..Len(s)-1 : i \in Good => i+1 \in Good
  BY <1>7
<1> HIDE DEF Good
<1>9. Len(s) \in Good
  <2>1. Len(s) \in 0..Len(s)
    BY <1>1
  <2> QED BY <1>1, <1>5, <1>8, <2>1, Upwards
<1>10. kept[Len(s)] = flat[Nth(s, Len(s) + 1)]
  <2>1. CASE In(Len(s))
    <3>1. PICK b \in Begins(s) : Partial(Len(s), b)
      BY <1>9, <2>1 DEF Good
    <3> HIDE DEF Partial
    <3>2. Len(s) \in 0..Len(s)
      BY <1>1
    <3> QED BY <1>6, <3>1, <3>2
  <2>2. CASE ~In(Len(s))
    BY <1>9, <2>2 DEF Good
  <2> QED BY <2>1, <2>2
<1>11. Nth(s, Len(s) + 1) = N
  BY NthSteps
<1> QED BY <1>3, <1>4, <1>10, <1>11

Plain == Letter \cup {Separator}

\* A block that holds a text: its characters, and a zero behind them.
Holds(b, t) ==
  /\ b \in Seq(Plain \cup {Terminator}) /\ t \in Seq(Plain)
  /\ Len(t) < Len(b) /\ b[Len(t) + 1] = Terminator
  /\ \A i \in 1..Len(t) : b[i] = t[i]

LEMMA HoldsVisible ==
  ASSUME NEW b, NEW t, Holds(b, t)
  PROVE  Visible(b) = t /\ Terminator \in Range(b)
<1> DEFINE n == Len(t)
           zeros == {i \in DOMAIN b : b[i] = Terminator}
<1>1. /\ b \in Seq(Plain \cup {Terminator}) /\ t \in Seq(Plain)
      /\ n < Len(b) /\ b[n + 1] = Terminator /\ \A i \in 1..n : b[i] = t[i]
  BY DEF Holds
<1>2. n \in Nat /\ Len(b) \in Nat /\ DOMAIN b = 1..Len(b) /\ \A i \in 1..n : t[i] \in Plain
  BY <1>1, LenProperties, ElementOfSeq
<1>3. n + 1 \in zeros /\ zeros \subseteq Nat /\ zeros # {}
  BY <1>1, <1>2
<1>4. \A i \in zeros : i > n
  BY <1>1, <1>2, StringAssumption DEF Plain
<1> HIDE DEF n
<1>5. Min(zeros) = n + 1
  <2> HIDE DEF zeros
  <2>1. Min(zeros) \in zeros /\ \A k \in zeros : Min(zeros) <= k
    BY <1>3, MinIs
  <2>2. Min(zeros) > n /\ Min(zeros) <= n + 1 /\ Min(zeros) \in Nat
    BY <1>3, <1>4, <2>1
  <2> QED BY <1>2, <2>2
<1>6. Visible(b) = SubSeq(b, 1, n)
  <2>1. Visible(b) = SubSeq(b, 1, Min(zeros) - 1)
    BY <1>3 DEF Visible
  <2> HIDE DEF zeros
  <2> QED BY <1>2, <1>5, <2>1
<1>7. /\ SubSeq(b, 1, n) \in Seq(Plain) /\ Len(SubSeq(b, 1, n)) = n
      /\ \A i \in 1..n : SubSeq(b, 1, n)[i] = t[i]
  <2>1. \A i \in 1..n : b[i] \in Plain
    BY <1>1, <1>2
  <2>2. 1 \in Int /\ n \in Int
    BY <1>2
  <2>3. /\ SubSeq(b, 1, n) \in Seq(Plain)
        /\ Len(SubSeq(b, 1, n)) = IF 1 <= n THEN n - 1 + 1 ELSE 0
        /\ \A i \in 1..n - 1 + 1 : SubSeq(b, 1, n)[i] = b[1 + i - 1]
    BY <2>1, <2>2, SubSeqProperties
  <2> QED BY <1>1, <1>2, <2>3
<1>8. SubSeq(b, 1, n) = t
  BY <1>1, <1>7, SeqEqual DEF n
<1>9. Terminator \in Range(b)
  BY <1>3 DEF Range
<1> QED BY <1>6, <1>8, <1>9

LEMMA PutHolds ==
  ASSUME NEW t \in Seq(Plain)
  PROVE  /\ Holds(t \o <<Terminator>>, t)
         /\ t \o <<Terminator>> # <<>>
         /\ Len(t \o <<Terminator>>) = Len(t) + 1
<1> DEFINE A == Plain \cup {Terminator}
           z == <<Terminator>>
<1>1. t \in Seq(A) /\ z \in Seq(A) /\ Len(z) = 1 /\ z[1] = Terminator
  <2>1. Plain \subseteq A
    OBVIOUS
  <2> QED BY <2>1, SeqMonotonic
<1> HIDE DEF z, A
<1>2. /\ t \o z \in Seq(A) /\ Len(t \o z) = Len(t) + 1
      /\ \A i \in 1..Len(t) + 1 : (t \o z)[i] = IF i <= Len(t) THEN t[i] ELSE z[i - Len(t)]
  <2>1. /\ t \o z \in Seq(A) /\ Len(t \o z) = Len(t) + Len(z)
        /\ \A i \in 1..Len(t) + Len(z) : (t \o z)[i] = IF i <= Len(t) THEN t[i] ELSE z[i - Len(t)]
    BY <1>1, ConcatProperties
  <2> QED BY <1>1, <2>1
<1>3. Len(t) \in Nat
  BY LenProperties
<1>4. (t \o z)[Len(t) + 1] = Terminator
  <2>1. Len(t) + 1 \in 1..Len(t) + 1 /\ ~(Len(t) + 1 <= Len(t)) /\ Len(t) + 1 - Len(t) = 1
    BY <1>3
  <2>2. (t \o z)[Len(t) + 1] = z[Len(t) + 1 - Len(t)]
    BY <1>2, <2>1
  <2> QED BY <1>1, <2>1, <2>2
<1>5. \A i \in 1..Len(t) : (t \o z)[i] = t[i]
  BY <1>2, <1>3
<1>6. Holds(t \o z, t)
  BY <1>2, <1>3, <1>4, <1>5 DEF Holds
<1>7. t \o z # <<>>
  <2>1. Len(t \o z) # 0
    BY <1>2, <1>3
  <2>2. Len(<<>>) = 0
    OBVIOUS
  <2> QED BY <2>1, <2>2, Zenon
<1> QED BY <1>2, <1>6, <1>7 DEF z

\* What a program sees after any calls, and what it got from strtok.
BlockInv == chars # <<>> /\ ~spoiled => Holds(chars, text)

TokensInv ==
  /\ text \in Seq(Plain) /\ cut \in Seq(Plain)
  /\ FlattenSeq(tokens) = Letters(cut)
  /\ \A k \in DOMAIN tokens : tokens[k] # <<>>

StringInv == BlockInv /\ TokensInv

LEMMA ValuesPlain == \A v \in Values : v \in Seq(Plain)
BY StringAssumption DEF Values, Plain

LEMMA StringInitInv == StringInit => StringInv
<1> SUFFICES ASSUME StringInit PROVE StringInv
  OBVIOUS
<1>1. chars = <<>> /\ text = <<>> /\ tokens = <<>> /\ cut = <<>>
  BY DEF StringInit
<1>2. <<>> \in Seq(Plain) /\ Len(<<>>) = 0
  BY EmptySeq
<1>3. FlattenSeq(<<>>) = <<>>
  BY <1>2 DEF FlattenSeq
<1>4. Letters(<<>>) = <<>>
  <2> DEFINE e == <<>>
  <2>1. e \in Seq(Plain) /\ Len(e) = 0
    BY <1>2
  <2> HIDE DEF e
  <2>2. PICK f : f[0] = <<>> /\ Letters(e) = f[Len(e)]
    BY <2>1, LettersIs
  <2> QED BY <2>1, <2>2 DEF e
<1>5. DOMAIN <<>> = {}
  OBVIOUS
<1> QED BY <1>1, <1>2, <1>3, <1>4, <1>5 DEF StringInv, BlockInv, TokensInv

LEMMA NewInv == ASSUME StringInv, NEW str \in Values, StringNew(str) PROVE StringInv'
<1>1. str \in Seq(Plain)
  BY ValuesPlain
<1>2. chars' = str \o <<Terminator>>
  <2>1. chars' = Append(str, Terminator)
    BY DEF StringNew
  <2>2. str \in Seq(Plain \cup {Terminator})
    <3>1. Plain \subseteq Plain \cup {Terminator}
      OBVIOUS
    <3> QED BY <1>1, <3>1, SeqMonotonic
  <2>3. Terminator \in Plain \cup {Terminator}
    OBVIOUS
  <2> QED BY <2>1, <2>2, <2>3, AppendIs
<1>3. text' = str
  BY DEF StringNew
<1>4. Holds(chars', text')
  BY <1>1, <1>2, <1>3, PutHolds
<1> QED BY <1>1, <1>3, <1>4 DEF StringInv, BlockInv, TokensInv, StringNew

LEMMA PutBehind ==
  ASSUME NEW t, Holds(chars, t), NEW val \in Seq(Plain)
  PROVE  /\ t \o val \in Seq(Plain)
         /\ Holds(Concatenated(val), t \o val)
<1>1. Visible(chars) = t /\ t \in Seq(Plain)
  BY HoldsVisible DEF Holds
<1> DEFINE u == t \o val
           b == u \o <<Terminator>>
<1>2. u \in Seq(Plain) /\ Len(u) = Len(t) + Len(val)
  BY <1>1, ConcatProperties
<1>3. Concatenated(val) = SubSeq(b, 1, Len(t) + Len(val) + 1)
  BY <1>1 DEF Concatenated, Room
<1> HIDE DEF u
<1>4. Holds(b, u) /\ Len(b) = Len(u) + 1
  BY <1>2, PutHolds
<1>5. b \in Seq(Plain \cup {Terminator})
  BY <1>4 DEF Holds
<1> HIDE DEF b
<1>6. SubSeq(b, 1, Len(b)) = b
  BY <1>5, SubSeqFull
<1>7. Concatenated(val) = b
  BY <1>2, <1>3, <1>4, <1>6
<1> QED BY <1>2, <1>4, <1>7 DEF u

LEMMA ConcatInv == ASSUME StringInv, NEW val \in Values, StringConcat(val) PROVE StringInv'
<1>1. Holds(chars, text) /\ val \in Seq(Plain)
  BY ValuesPlain DEF StringInv, BlockInv, StringConcat
<1>2. text \o val \in Seq(Plain) /\ Holds(Concatenated(val), text \o val)
  BY <1>1, PutBehind
<1>3. chars' = Concatenated(val) /\ text' = text \o val
  BY DEF StringConcat
<1>4. Holds(chars', text') /\ text' \in Seq(Plain)
  BY <1>2, <1>3
<1> QED BY <1>4 DEF StringInv, BlockInv, TokensInv, StringConcat

LEMMA ConcatOwnInv == StringInv /\ StringConcatOwn => StringInv'
<1> SUFFICES ASSUME StringInv, StringConcatOwn PROVE StringInv'
  OBVIOUS
<1>1. Holds(chars, text) /\ text \in Seq(Plain)
  BY DEF StringInv, BlockInv, TokensInv, StringConcatOwn
<1>2. Visible(chars) = text
  BY <1>1, HoldsVisible
<1>3. text \o text \in Seq(Plain) /\ Holds(Concatenated(text), text \o text)
  BY <1>1, PutBehind
<1>4. chars' = Concatenated(text) /\ text' = text \o text
  BY <1>2 DEF StringConcatOwn
<1>5. Holds(chars', text') /\ text' \in Seq(Plain)
  BY <1>3, <1>4
<1> QED BY <1>5 DEF StringInv, BlockInv, TokensInv, StringConcatOwn

LEMMA SplitInv == StringInv /\ StringSplit => StringInv'
<1> SUFFICES ASSUME StringInv, StringSplit PROVE StringInv'
  OBVIOUS
<1>1. Holds(chars, text) /\ text \in Seq(Plain)
  BY DEF StringInv, BlockInv, TokensInv, StringSplit
<1>2. Visible(chars) = text
  BY <1>1, HoldsVisible
<1> DEFINE ends == {EndOf(text, i) : i \in Begins(text)}
<1>3. /\ chars' = [i \in DOMAIN chars |-> IF i - 1 \in ends THEN Terminator ELSE chars[i]]
      /\ tokens' = Tokens(text) /\ cut' = text
      /\ text' = IF ends = {} THEN text ELSE SubSeq(text, 1, Min(ends))
  BY <1>2 DEF StringSplit
<1>4. /\ Len(text) \in Nat /\ Len(chars) \in Nat /\ DOMAIN chars = 1..Len(chars)
      /\ Len(text) < Len(chars)
      /\ \A i \in 1..Len(chars) : chars[i] \in Plain \cup {Terminator}
      /\ \A i \in 1..Len(text) : chars[i] = text[i] /\ text[i] \in Plain
  BY <1>1, LenProperties, ElementOfSeq DEF Holds
<1>5. ends \subseteq 1..Len(text)
  <2>1. Begins(text) \subseteq 1..Len(text)
    BY <1>1, BeginsAre
  <2>2. \A i \in Begins(text) : EndOf(text, i) \in i..Len(text)
    BY <1>1, EndIs
  <2> QED BY <1>4, <2>1, <2>2
<1>6. FlattenSeq(tokens') = Letters(cut') /\ \A k \in DOMAIN tokens' : tokens'[k] # <<>>
  BY <1>1, <1>3, TokensAreLetters, TokensTyped
<1> HIDE DEF ends
<1>7. chars' \in Seq(Plain \cup {Terminator}) /\ Len(chars') = Len(chars)
  BY <1>3, <1>4
<1>8. Holds(chars', text')
  <2>1. CASE ends = {}
    <3>1. \A i \in 1..Len(chars) : chars'[i] = chars[i]
      BY <1>3, <1>4, <2>1
    <3>2. text' = text
      BY <1>3, <2>1
    <3> QED BY <1>1, <1>4, <1>7, <3>1, <3>2 DEF Holds
  <2>2. CASE ends # {}
    <3> DEFINE m == Min(ends)
    <3>1. m \in ends /\ \A k \in ends : m <= k
      <4>1. ends \subseteq Nat
        BY <1>4, <1>5
      <4> QED BY <2>2, <4>1, MinIs
    <3>2. text' = SubSeq(text, 1, m)
      BY <1>3, <2>2
    <3> HIDE DEF m
    <3>3. m \in 1..Len(text) /\ m + 1 \in 1..Len(chars) /\ (m + 1) - 1 = m
      BY <1>4, <1>5, <3>1
    <3>4. /\ text' \in Seq(Plain) /\ Len(text') = m
          /\ \A i \in 1..m : text'[i] = text[i]
      <4>1. \A i \in 1..m : text[i] \in Plain
        BY <1>4, <3>3
      <4>2. 1 \in Int /\ m \in Int
        BY <3>3
      <4>3. /\ SubSeq(text, 1, m) \in Seq(Plain)
            /\ Len(SubSeq(text, 1, m)) = IF 1 <= m THEN m - 1 + 1 ELSE 0
            /\ \A i \in 1..m - 1 + 1 : SubSeq(text, 1, m)[i] = text[1 + i - 1]
        BY <4>1, <4>2, SubSeqProperties
      <4> QED BY <1>4, <3>2, <3>3, <4>3
    <3>5. chars'[m + 1] = Terminator
      BY <1>3, <1>4, <3>1, <3>3
    <3>6. ASSUME NEW i \in 1..m PROVE chars'[i] = text'[i]
      <4>1. i - 1 \notin ends /\ i \in 1..Len(chars) /\ i \in 1..Len(text)
        BY <1>4, <3>1, <3>3
      <4>2. chars'[i] = chars[i]
        BY <1>3, <1>4, <4>1
      <4> QED BY <1>4, <3>4, <4>1, <4>2
    <3> QED BY <1>4, <1>7, <3>3, <3>4, <3>5, <3>6 DEF Holds
  <2> QED BY <2>1, <2>2
<1>9. text' \in Seq(Plain) /\ cut' \in Seq(Plain)
  BY <1>1, <1>3, <1>8 DEF Holds
<1> QED BY <1>6, <1>8, <1>9 DEF StringInv, BlockInv, TokensInv

LEMMA FreeInv == StringInv /\ StringFree => StringInv'
<1> SUFFICES ASSUME StringInv, StringFree PROVE StringInv'
  OBVIOUS
<1>1. chars' = <<>> /\ text' = <<>> /\ text' \in Seq(Plain) /\ cut' = cut /\ tokens' = tokens
  BY EmptySeq DEF StringFree
<1> QED BY <1>1 DEF StringInv, BlockInv, TokensInv

\* One string of gfc_string.c after any calls: its block holds the text that was put and not
\* cut off, and its last split the letters of the text that was split.
THEOREM StringInvariant == StringSpec => []StringInv
<1>1. StringInv /\ [StringNext]_stringVars => StringInv'
  <2> SUFFICES ASSUME StringInv, [StringNext]_stringVars PROVE StringInv'
    OBVIOUS
  <2>1. ASSUME NEW val \in Values, StringNew(val) PROVE StringInv'
    BY <2>1, NewInv
  <2>2. ASSUME NEW val \in Values, StringConcat(val) PROVE StringInv'
    BY <2>2, ConcatInv
  <2>3. CASE StringConcatOwn
    BY <2>3, ConcatOwnInv
  <2>4. CASE StringSplit
    BY <2>4, SplitInv
  <2>5. CASE StringFree
    BY <2>5, FreeInv
  <2>6. CASE UNCHANGED stringVars
    BY <2>6 DEF stringVars, StringInv, BlockInv, TokensInv
  <2> QED BY <2>1, <2>2, <2>3, <2>4, <2>5, <2>6 DEF StringNext
<1> QED BY <1>1, StringInitInv, PTL DEF StringSpec

\* For any characters, lengths and calls, the visible text of a string is what was put and not
\* cut off, and the tokens of a split are the letters it was given.
THEOREM StringHoldsCorrect == StringSpec => []StringHolds
<1>1. StringInv => StringHolds
  BY HoldsVisible DEF StringInv, BlockInv, TokensInv, StringHolds
<1> QED BY <1>1, StringInvariant, PTL

-----------------------------------------------------------------------------
\* Weights of the octets of a length.
LEMMA PlaceIs ==
  /\ Place[0] = 1 /\ \A n \in 1..8 : Place[n] = OctetSize * Place[n-1]
  /\ \A n \in 0..8 : Place[n] \in Nat /\ Place[n] >= 1
<1> DEFINE g == [n \in 1..8 |-> [s \in Nat |-> OctetSize * s]]
           Eq(u) == u = [n \in 0..8 |-> IF n = 0 THEN 1 ELSE OctetSize * u[n-1]]
<1>1. OctetSize \in Nat /\ OctetSize >= 8
  BY WsAssumption
<1>2. g \in [1..8 -> [Nat -> Nat]]
  BY <1>1
<1>3. PICK f \in [0..8 -> Nat] : Loop(f, 8, 1, g)
  <2> HIDE DEF g
  <2> QED BY <1>2, LoopExists
<1>4. f[0] = 1 /\ \A n \in 1..8 : f[n] = OctetSize * f[n-1]
  <2>1. \A n \in 1..8 : n-1 \in 0..8 /\ f[n-1] \in Nat /\ f[n] = g[n][f[n-1]]
    BY <1>3 DEF Loop
  <2>2. \A n \in 1..8 : \A s \in Nat : g[n][s] = OctetSize * s
    OBVIOUS
  <2>3. f[0] = 1
    BY <1>3 DEF Loop
  <2> HIDE DEF g
  <2> QED BY <2>1, <2>2, <2>3
<1>5. Eq(f)
  <2>1. \A n \in 0..8 : n # 0 => n \in 1..8
    OBVIOUS
  <2>2. f = [n \in 0..8 |-> f[n]]
    OBVIOUS
  <2>3. \A n \in 0..8 : f[n] = IF n = 0 THEN 1 ELSE OctetSize * f[n-1]
    BY <1>4, <2>1
  <2> QED BY <2>2, <2>3, Zenon
<1>6. Eq(Place)
  <2>1. Place = CHOOSE u : Eq(u)
    BY Zenon DEF Place
  <2> HIDE DEF Eq
  <2> QED BY <1>5, <2>1
<1>7. Place[0] = 1 /\ \A n \in 1..8 : Place[n] = OctetSize * Place[n-1]
  <2>1. \A n \in 0..8 : Place[n] = IF n = 0 THEN 1 ELSE OctetSize * Place[n-1]
    BY <1>6, Zenon
  <2>2. \A n \in 1..8 : n \in 0..8 /\ n # 0
    OBVIOUS
  <2>3. 0 \in 0..8
    OBVIOUS
  <2> QED BY <2>1, <2>2, <2>3
<1> DEFINE Good == {n \in 0..8 : Place[n] \in Nat /\ Place[n] >= 1}
<1>8. 0 \in Good
  BY <1>7
<1>9. ASSUME NEW n \in 0..8-1, n \in Good PROVE n+1 \in Good
  <2>1. n+1 \in 1..8 /\ n+1 \in 0..8 /\ (n+1)-1 = n
    OBVIOUS
  <2>2. Place[n+1] = OctetSize * Place[n]
    BY <1>7, <2>1
  <2>3. \A a, b \in Nat : a >= 1 /\ b >= 1 => a * b \in Nat /\ a * b >= 1
    <3> TAKE a, b \in Nat
    <3> HAVE a >= 1 /\ b >= 1
    <3>1. PICK c \in Nat : b = 1 + c
      <4>1. b - 1 \in Nat /\ b = 1 + (b - 1)
        OBVIOUS
      <4> QED BY <4>1
    <3>2. a * (1 + c) = a + a * c /\ a * c \in Nat
      OBVIOUS
    <3> QED BY <3>1, <3>2
  <2> QED BY <1>1, <1>9, <2>1, <2>2, <2>3
<1>10. \A n \in 0..8 : n \in Good
  <2> HIDE DEF Good
  <2>1. \A n \in 0..8-1 : n \in Good => n+1 \in Good
    BY <1>9
  <2> QED BY <1>8, <2>1, Upwards
<1> QED BY <1>7, <1>10

\* Division by a product divides twice.
LEMMA DivTwice ==
  \A a, b, c \in Nat : b >= 1 /\ c >= 1 => a \div (b * c) = (a \div c) \div b
<1> SUFFICES ASSUME NEW a \in Nat, NEW b \in Nat, NEW c \in Nat, b >= 1, c >= 1
             PROVE  a \div (b * c) = (a \div c) \div b
  OBVIOUS
<1> DEFINE q == a \div c
           r == a % c
           p == q \div b
           t == q % b
<1>1. q \in Nat /\ r \in 0..c-1 /\ a = c * q + r
  OBVIOUS
<1> HIDE DEF q, r
<1>2. p \in Nat /\ t \in 0..b-1 /\ q = b * p + t
  BY <1>1
<1> HIDE DEF p, t
<1>3. c * t \in Nat /\ c * t + r <= b * c - 1
  <2>1. PICK e \in Nat : b = t + 1 + e
    <3>1. b - t - 1 \in Nat /\ b = t + 1 + (b - t - 1)
      BY <1>2
    <3> QED BY <3>1
  <2>2. (t + 1 + e) * c = c * t + c + e * c /\ e * c \in Nat /\ c * t \in Nat
    BY <1>2
  <2>3. b * c = c * t + c + e * c
    BY <2>1, <2>2
  <2> QED BY <1>1, <2>2, <2>3
<1>4. a = (b * c) * p + (c * t + r)
  <2>1. c * (b * p + t) = (b * c) * p + c * t
    BY <1>2
  <2>2. c * q = (b * c) * p + c * t
    BY <1>2, <2>1
  <2>3. c * t \in Nat /\ (b * c) * p \in Int
    BY <1>3, <1>2
  <2> DEFINE x == (b * c) * p
             y == c * t
             z == c * q
  <2>4. x \in Int /\ y \in Nat /\ z = x + y /\ a = z + r
    BY <1>1, <2>2, <2>3
  <2> HIDE DEF x, y, z
  <2>5. a = x + (y + r)
    BY <1>1, <2>4
  <2> QED BY <2>5 DEF x, y
<1> DEFINE m == b * c
           u == c * t + r
<1>5. m \in Nat /\ u \in 0..m-1 /\ m >= 1
  BY <1>1, <1>3
<1>6. a = m * p + u
  BY <1>4
<1> HIDE DEF m, u
<1>7. a \div m = p
  <2> DEFINE x == a \div m
             y == a % m
  <2>1. x \in Nat /\ y \in 0..m-1 /\ a = m * x + y
    BY <1>5
  <2> HIDE DEF x, y
  <2>2. \A i, j \in Nat : \A v, w \in 0..m-1 : i < j => m * i + v < m * j + w
    <3> TAKE i, j \in Nat
    <3> TAKE v, w \in 0..m-1
    <3> HAVE i < j
    <3>1. PICK e \in Nat : j = i + 1 + e
      <4>1. j - i - 1 \in Nat /\ j = i + 1 + (j - i - 1)
        OBVIOUS
      <4> QED BY <4>1
    <3>2. m * (i + 1 + e) = m * i + m + m * e /\ m * e \in Nat /\ m * i \in Nat
      BY <1>5
    <3> QED BY <1>5, <3>1, <3>2
  <2>3. ~(x < p) /\ ~(p < x)
    BY <1>2, <1>5, <1>6, <2>1, <2>2
  <2> QED BY <1>2, <2>1, <2>3 DEF x
<1> QED BY <1>7 DEF m, p, q

WsFrame == {f \in [op : 0..15, payload : Seq(Octet)] : Len(f.payload) < Place[8]}

\* How many octets follow the one of a length, and what that one says.
Extra(len) == IF len < Octets2 THEN 0 ELSE IF len < Place[2] THEN 2 ELSE 8
Code(len) == IF len < Octets2 THEN len ELSE IF len < Place[2] THEN Octets2 ELSE Octets8

LEMMA HalfIs ==
  /\ OctetSize \in Nat /\ Half \in Nat /\ OctetSize = 2 * Half /\ Half >= 4
  /\ Octets2 = Half - 2 /\ Octets8 = Half - 1
BY WsAssumption DEF Half, Octets2, Octets8

LEMMA ExtraIs ==
  ASSUME NEW len \in Nat, len < Place[8]
  PROVE  /\ Extra(len) \in {0, 2, 8}
         /\ Code(len) \in 0..(Half - 1) /\ Code(len) \in Nat
         /\ Extra(len) = 0 => Code(len) = len /\ len < Octets2
         /\ Extra(len) = 2 => Code(len) = Octets2
         /\ Extra(len) = 8 => Code(len) = Octets8
         /\ Extra(len) # 0 => len < Place[Extra(len)]
BY HalfIs DEF Extra, Code

LEMMA BigIs ==
  ASSUME NEW number \in Nat, NEW n \in 0..8
  PROVE  /\ Big(number, n) \in Seq(Octet) /\ Len(Big(number, n)) = n
         /\ \A i \in 1..n : Big(number, n)[i] = (number \div Place[n - i]) % OctetSize
<1>1. \A i \in 1..n : (number \div Place[n - i]) % OctetSize \in Octet
  <2> TAKE i \in 1..n
  <2>1. Place[n - i] \in Nat /\ Place[n - i] >= 1
    <3>1. n - i \in 0..8
      OBVIOUS
    <3> QED BY <3>1, PlaceIs
  <2>2. number \div Place[n - i] \in Nat
    <3> DEFINE p == Place[n - i]
    <3> HIDE DEF p
    <3>1. p \in Nat /\ p >= 1 => number \div p \in Nat
      OBVIOUS
    <3> QED BY <2>1, <3>1 DEF p
  <2> DEFINE v == number \div Place[n - i]
  <2> HIDE DEF v
  <2>3. v \in Nat => v % OctetSize \in Octet
    BY WsAssumption DEF Octet
  <2> QED BY <2>2, <2>3 DEF v
<1> DEFINE b == [i \in 1..n |-> (number \div Place[n - i]) % OctetSize]
<1>2. b \in [1..n -> Octet]
  BY <1>1
<1>3. b \in Seq(Octet) /\ Len(b) = n
  BY <1>2
<1> QED BY <1>3 DEF Big

\* The octets of a length: one, and as many as it says.
LEMMA LengthIs ==
  ASSUME NEW len \in Nat, len < Place[8], NEW bit \in Nat
  PROVE  /\ LengthOctets(len, bit) \in Seq(Nat)
         /\ Len(LengthOctets(len, bit)) = 1 + Extra(len)
         /\ LengthOctets(len, bit)[1] = bit + Code(len)
         /\ \A n \in 1..Extra(len) :
              LengthOctets(len, bit)[1 + n] = (len \div Place[Extra(len) - n]) % OctetSize
<1>1. Code(len) \in Nat
  BY ExtraIs
<1> DEFINE one == <<bit + Code(len)>>
<1>2. one \in Seq(Nat) /\ Len(one) = 1 /\ one[1] = bit + Code(len)
  BY <1>1
<1>3. CASE len < Octets2
  <2>1. LengthOctets(len, bit) = one /\ Extra(len) = 0
    BY <1>3 DEF LengthOctets, Extra, Code
  <2> HIDE DEF one
  <2> QED BY <1>2, <2>1
<1>4. CASE ~(len < Octets2)
  <2> DEFINE e == Extra(len)
             b == Big(len, e)
  <2>1. e \in 0..8
    BY ExtraIs
  <2>2. LengthOctets(len, bit) = one \o b
    BY <1>4 DEF LengthOctets, Extra, Code
  <2>3. /\ b \in Seq(Octet) /\ Len(b) = e
        /\ \A i \in 1..e : b[i] = (len \div Place[e - i]) % OctetSize
    BY <2>1, BigIs
  <2>4. b \in Seq(Nat)
    <3>1. Octet \subseteq Nat
      BY WsAssumption DEF Octet
    <3> HIDE DEF b
    <3> QED BY <2>3, <3>1, SeqMonotonic
  <2> HIDE DEF one, b, e
  <2>5. /\ one \o b \in Seq(Nat) /\ Len(one \o b) = Len(one) + Len(b)
        /\ \A i \in 1..Len(one) + Len(b) :
             (one \o b)[i] = IF i <= Len(one) THEN one[i] ELSE b[i - Len(one)]
    BY <1>2, <2>4, ConcatProperties
  <2>6. 1 \in 1..1+e /\ \A n \in 1..e : 1+n \in 1..1+e /\ ~(1+n <= 1) /\ (1+n) - 1 = n
    BY <2>1
  <2>7. /\ Len(one \o b) = 1 + e /\ (one \o b)[1] = one[1]
        /\ \A n \in 1..e : (one \o b)[1 + n] = b[n]
    BY <1>2, <2>3, <2>5, <2>6
  <2>8. /\ Len(LengthOctets(len, bit)) = 1 + e
        /\ LengthOctets(len, bit)[1] = bit + Code(len)
        /\ LengthOctets(len, bit) \in Seq(Nat)
    BY <1>2, <2>2, <2>5, <2>7
  <2>9. \A n \in 1..e : LengthOctets(len, bit)[1 + n] = (len \div Place[e - n]) % OctetSize
    BY <2>2, <2>3, <2>7
  <2> QED BY <2>8, <2>9 DEF e
<1> QED BY <1>3, <1>4

\* Three sequences one behind the other.
LEMMA ThreeParts ==
  \A S : \A s, t, u \in Seq(S) :
    /\ (s \o t) \o u \in Seq(S)
    /\ Len((s \o t) \o u) = Len(s) + Len(t) + Len(u)
    /\ \A i \in 1..Len(s) : ((s \o t) \o u)[i] = s[i]
    /\ \A i \in 1..Len(t) : ((s \o t) \o u)[Len(s) + i] = t[i]
    /\ \A i \in 1..Len(u) : ((s \o t) \o u)[Len(s) + Len(t) + i] = u[i]
<1> TAKE S
<1> TAKE s, t, u \in Seq(S)
<1>1. Len(s) \in Nat /\ Len(t) \in Nat /\ Len(u) \in Nat
  BY LenProperties
<1> DEFINE st == s \o t
<1>2. /\ st \in Seq(S) /\ Len(st) = Len(s) + Len(t)
      /\ \A i \in 1..Len(s) + Len(t) : st[i] = IF i <= Len(s) THEN s[i] ELSE t[i - Len(s)]
  BY ConcatIs
<1> HIDE DEF st
<1>3. /\ st \o u \in Seq(S) /\ Len(st \o u) = Len(st) + Len(u)
      /\ \A i \in 1..Len(st) + Len(u) : (st \o u)[i] = IF i <= Len(st) THEN st[i] ELSE u[i - Len(st)]
  <2>1. st \in Seq(S)
    BY <1>2
  <2>2. \A x, y \in Seq(S) :
          /\ x \o y \in Seq(S) /\ Len(x \o y) = Len(x) + Len(y)
          /\ \A i \in 1..Len(x) + Len(y) : (x \o y)[i] = IF i <= Len(x) THEN x[i] ELSE y[i - Len(x)]
    BY ConcatIs, Zenon
  <2> QED BY <2>1, <2>2, Zenon
<1>4. Len(st \o u) = Len(s) + Len(t) + Len(u)
  BY <1>1, <1>2, <1>3
<1>5. ASSUME NEW i \in 1..Len(s) PROVE (st \o u)[i] = s[i]
  <2>1. i \in 1..Len(s) + Len(t) /\ i \in 1..Len(st) + Len(u) /\ i <= Len(s) /\ i <= Len(st)
    BY <1>1, <1>2
  <2> QED BY <1>2, <1>3, <2>1
<1>6. ASSUME NEW i \in 1..Len(t) PROVE (st \o u)[Len(s) + i] = t[i]
  <2>1. /\ Len(s) + i \in 1..Len(s) + Len(t) /\ Len(s) + i \in 1..Len(st) + Len(u)
        /\ ~(Len(s) + i <= Len(s)) /\ Len(s) + i <= Len(st) /\ (Len(s) + i) - Len(s) = i
    BY <1>1, <1>2
  <2>2. (st \o u)[Len(s) + i] = st[Len(s) + i]
    BY <1>3, <2>1
  <2>3. st[Len(s) + i] = t[(Len(s) + i) - Len(s)]
    BY <1>2, <2>1
  <2> QED BY <2>1, <2>2, <2>3
<1>7. ASSUME NEW i \in 1..Len(u) PROVE (st \o u)[Len(s) + Len(t) + i] = u[i]
  <2>1. /\ Len(s) + Len(t) + i \in 1..Len(st) + Len(u)
        /\ ~(Len(s) + Len(t) + i <= Len(st)) /\ (Len(s) + Len(t) + i) - Len(st) = i
    BY <1>1, <1>2
  <2>2. (st \o u)[Len(s) + Len(t) + i] = u[(Len(s) + Len(t) + i) - Len(st)]
    BY <1>3, <2>1
  <2> QED BY <2>1, <2>2
<1> QED BY <1>3, <1>4, <1>5, <1>6, <1>7 DEF st

\* A frame of the peer, octet by octet.
LEMMA FrameIs ==
  ASSUME NEW f \in WsFrame
  PROVE  LET len == Len(f.payload)
             e == Extra(len)
             b == PeerFrame(f)
         IN  /\ len \in Nat /\ len < Place[8] /\ f.op \in 0..15 /\ f.payload \in Seq(Octet)
             /\ b \in Seq(Nat) /\ Len(b) = 2 + e + len
             /\ b[1] = FIN + f.op /\ b[2] = Code(len)
             /\ \A n \in 1..e : b[2 + n] = (len \div Place[e - n]) % OctetSize
             /\ \A i \in 1..len : b[2 + e + i] = f.payload[i]
<1> DEFINE len == Len(f.payload)
           e == Extra(len)
           opening == <<FIN + f.op>>
           length == LengthOctets(len, 0)
<1>1. f.payload \in Seq(Octet) /\ len \in Nat /\ len < Place[8] /\ f.op \in 0..15
  <2>1. f.payload \in Seq(Octet) /\ len < Place[8] /\ f.op \in 0..15
    BY DEF WsFrame
  <2> QED BY <2>1, LenProperties
<1>2. f.payload \in Seq(Nat)
  <2>1. Octet \subseteq Nat
    BY WsAssumption DEF Octet
  <2> QED BY <1>1, <2>1, SeqMonotonic
<1>3. opening \in Seq(Nat) /\ Len(opening) = 1 /\ opening[1] = FIN + f.op
  BY <1>1 DEF FIN
<1>4. e \in Nat
  BY <1>1, ExtraIs
<1> HIDE DEF len, opening
<1>5. /\ length \in Seq(Nat) /\ Len(length) = 1 + e /\ length[1] = 0 + Code(len)
      /\ \A n \in 1..e : length[1 + n] = (len \div Place[e - n]) % OctetSize
  BY <1>1, LengthIs
<1>6. PeerFrame(f) = (opening \o length) \o f.payload
  <2>1. length = IF len <= Half - 3 THEN <<len>>
                 ELSE IF len <= Place[2] - 1 THEN <<Half - 2>> \o Big(len, 2)
                 ELSE <<Half - 1>> \o Big(len, 8)
    <3>1. Place[2] \in Nat
      BY PlaceIs
    <3>2. /\ len < Octets2 <=> len <= Half - 3
          /\ len < Place[2] <=> len <= Place[2] - 1
      BY <1>1, <3>1, HalfIs
    <3>3. 0 + len = len /\ 0 + Octets2 = Half - 2 /\ 0 + Octets8 = Half - 1
      BY <1>1, HalfIs
    <3> QED BY <3>2, <3>3, Zenon DEF LengthOctets
  <2> QED BY <2>1, Zenon DEF PeerFrame, len, opening
<1> HIDE DEF length, e
<1> DEFINE b == (opening \o length) \o f.payload
<1>7. /\ b \in Seq(Nat) /\ Len(b) = Len(opening) + Len(length) + Len(f.payload)
      /\ \A i \in 1..Len(opening) : b[i] = opening[i]
      /\ \A i \in 1..Len(length) : b[Len(opening) + i] = length[i]
      /\ \A i \in 1..Len(f.payload) : b[Len(opening) + Len(length) + i] = f.payload[i]
  <2>1. opening \in Seq(Nat) /\ length \in Seq(Nat)
    BY <1>3, <1>5
  <2>2. \A s, t, u \in Seq(Nat) :
          /\ (s \o t) \o u \in Seq(Nat)
          /\ Len((s \o t) \o u) = Len(s) + Len(t) + Len(u)
          /\ \A i \in 1..Len(s) : ((s \o t) \o u)[i] = s[i]
          /\ \A i \in 1..Len(t) : ((s \o t) \o u)[Len(s) + i] = t[i]
          /\ \A i \in 1..Len(u) : ((s \o t) \o u)[Len(s) + Len(t) + i] = u[i]
    BY ThreeParts
  <2> QED BY <1>2, <2>1, <2>2, Zenon
<1> HIDE DEF b
<1>8. Len(b) = 2 + e + len
  <2>1. Len(b) = Len(opening) + Len(length) + Len(f.payload)
    BY <1>7
  <2>2. Len(b) = 1 + (1 + e) + len
    BY <1>3, <1>5, <2>1 DEF len
  <2> QED BY <1>1, <1>4, <2>2
<1>9. b[1] = FIN + f.op /\ b[2] = Code(len)
  <2>1. 1 \in 1..1 /\ 1 \in 1..1+e /\ 1 + 1 = 2
    BY <1>4
  <2>2. Code(len) \in Nat
    BY <1>1, ExtraIs
  <2>3. b[1] = opening[1] /\ b[1 + 1] = length[1]
    BY <1>3, <1>5, <1>7, <2>1
  <2> QED BY <1>3, <1>5, <2>2, <2>3
<1>10. ASSUME NEW n \in 1..e PROVE b[2 + n] = (len \div Place[e - n]) % OctetSize
  <2>1. 1 + n \in 1..1+e /\ 1 + (1 + n) = 2 + n
    BY <1>4
  <2>2. b[1 + (1 + n)] = length[1 + n]
    BY <1>3, <1>5, <1>7, <2>1
  <2> QED BY <1>5, <2>1, <2>2
<1>11. ASSUME NEW i \in 1..len PROVE b[2 + e + i] = f.payload[i]
  <2>1. 1 + (1 + e) + i = 2 + e + i
    BY <1>1, <1>4
  <2>2. b[1 + (1 + e) + i] = f.payload[i]
    BY <1>3, <1>5, <1>7 DEF len
  <2> QED BY <2>1, <2>2
<1>12. /\ len \in Nat /\ len < Place[8] /\ f.op \in 0..15 /\ f.payload \in Seq(Octet)
       /\ PeerFrame(f) \in Seq(Nat) /\ Len(PeerFrame(f)) = 2 + e + len
       /\ PeerFrame(f)[1] = FIN + f.op /\ PeerFrame(f)[2] = Code(len)
       /\ \A n \in 1..e : PeerFrame(f)[2 + n] = (len \div Place[e - n]) % OctetSize
       /\ \A i \in 1..len : PeerFrame(f)[2 + e + i] = f.payload[i]
  <2>1. PeerFrame(f) = b
    BY <1>6 DEF b
  <2> QED BY <1>1, <1>7, <1>8, <1>9, <1>10, <1>11, <2>1
<1> QED BY <1>12 DEF len, e

\* The number that is read from the octets of a length, octet by octet.
LEMMA NumberStep ==
  ASSUME NEW len \in Nat, NEW m \in 1..8
  PROVE  /\ (len \div Place[m]) * OctetSize + ((len \div Place[m-1]) % OctetSize)
              = len \div Place[m-1]
         /\ len \div Place[m-1] \in Nat
<1> DEFINE p == Place[m-1]
           v == len \div p
<1>1. p \in Nat /\ p >= 1 /\ Place[m] = OctetSize * p /\ OctetSize \in Nat /\ OctetSize >= 1
  <2>1. m-1 \in 0..8
    OBVIOUS
  <2> QED BY <2>1, PlaceIs, WsAssumption
<1> HIDE DEF p
<1>2. v \in Nat
  BY <1>1
<1>3. len \div Place[m] = v \div OctetSize
  <2>1. len \div (OctetSize * p) = (len \div p) \div OctetSize
    BY <1>1, DivTwice, Zenon
  <2> QED BY <1>1, <2>1, Zenon
<1> HIDE DEF v
<1>4. (v \div OctetSize) * OctetSize + (v % OctetSize) = v
  BY <1>1, <1>2
<1>5. (len \div Place[m]) * OctetSize + (v % OctetSize) = v
  BY <1>3, <1>4
<1> QED BY <1>2, <1>5 DEF v, p

LEMMA NumberEnds ==
  ASSUME NEW len \in Nat
  PROVE  /\ len \div Place[0] = len
         /\ \A e \in 0..8 : len < Place[e] => len \div Place[e] = 0
<1>1. len \div Place[0] = len
  BY PlaceIs
<1>2. ASSUME NEW e \in 0..8, len < Place[e] PROVE len \div Place[e] = 0
  <2> DEFINE p == Place[e]
  <2>1. p \in Nat /\ p >= 1 /\ len < p
    BY <1>2, PlaceIs
  <2> HIDE DEF p
  <2>2. len \div p = 0
    BY <2>1
  <2> QED BY <2>2 DEF p
<1> QED BY <1>1, <1>2

\* The place of the next octet in the stream, from zero.
Pos == IF Drained THEN taken ELSE taken - amt_read + cur_pos

\* No octet will come any more.
Stuck == broken /\ Drained

BufferInv ==
  /\ broken \in BOOLEAN /\ cur_pos \in Nat /\ amt_read \in Nat /\ taken \in Nat
  /\ cur_pos <= amt_read /\ amt_read <= taken /\ taken <= Len(stream) /\ Len(stream) \in Nat

\* Nothing is read before the handshake.
Fresh == taken = 0 => received = <<>> /\ reading = "idle" /\ status # "connected"

\* The stream is the answer to the handshake and the frames; frame k+1 lies behind place at[k].
Laid(begin) ==
  /\ frames \in Seq(WsFrame) /\ begin \in [0..Len(frames) -> Nat]
  /\ begin[0] = Response /\ begin[Len(frames)] = Len(stream)
  /\ \A k \in 0..Len(frames)-1 :
       LET b == PeerFrame(frames[k+1])
       IN  /\ begin[k+1] = begin[k] + Len(b)
           /\ \A i \in 1..Len(b) : stream[begin[k] + i] = b[i]

\* The frame f lies behind place start of the stream; e octets tell its length.
InStream(start, f, len, e) ==
  /\ f \in WsFrame /\ f.op \in 0..15 /\ f.payload \in Seq(Octet) /\ start \in Nat
  /\ len \in Nat /\ len < Place[8] /\ len = Len(f.payload) /\ e \in {0, 2, 8} /\ e = Extra(len)
  /\ stream[start + 1] = FIN + f.op /\ stream[start + 2] = Code(len)
  /\ \A n \in 1..e : stream[start + 2 + n] = (len \div Place[e - n]) % OctetSize
  /\ \A i \in 1..len : stream[start + 2 + e + i] = f.payload[i]

\* Where gfc_ws_recv is in the frame it reads.
ReadTo(start, f, len, e) ==
  /\ opcode = f.op
  /\ reading = "length" => Pos = start + 1
  /\ reading = "octets" =>
       /\ octets = e /\ togo \in 1..e /\ Pos = start + 2 + (e - togo)
       /\ frame_length = (len \div Place[togo]) * Place[togo]
  /\ reading \in {"skip", "allocate", "payload"} =>
       frame_length = len /\ togo \in 0..len /\ Pos = start + 2 + e + (len - togo)
  /\ reading = "allocate" => togo = len
  /\ reading = "payload" =>
       /\ payload \in Seq(Octet) /\ Len(payload) = len - togo
       /\ \A i \in 1..Len(payload) : payload[i] = f.payload[i]

\* That frame is the one behind those that are answered.
FrameAt(k, f, len, e) ==
  /\ k = Len(received) /\ k \in Nat /\ k < Len(frames)
  /\ f = frames[k+1] /\ len = Len(f.payload) /\ e = Extra(len)

InFrame(begin) ==
  \E k, f, len, e : FrameAt(k, f, len, e) /\ InStream(begin[k], f, len, e) /\ ReadTo(begin[k], f, len, e)

\* The reader is in step with the peer.
InPlace(begin) ==
  /\ received \in Seq(WsFrame) /\ Len(received) <= Len(frames)
  /\ \A i \in 1..Len(received) : received[i] = frames[i]
  /\ reading = "idle" /\ status = "connected" => Stuck \/ Pos = begin[Len(received)]
  /\ reading = "opcode" => Stuck \/ Pos = begin[Len(received)]
  /\ reading \notin {"idle", "payload"} => payload = <<>>
  /\ reading \notin {"idle", "opcode"} => failed \/ InFrame(begin)
  /\ failed => reading = "idle" \/ (reading = "octets" /\ Stuck)

WsInv == BufferInv /\ Fresh /\ \E begin : Laid(begin) /\ (inStep => InPlace(begin))

LEMMA FramesTyped == ASSUME frames \in PeerFrames PROVE frames \in Seq(WsFrame)
<1> DEFINE R == [op : 0..15, payload : Seq(Octet)]
<1>1. frames \in Seq(R) /\ \A i \in DOMAIN frames : Len(frames[i].payload) < Place[8]
  BY WsTexts
<1>2. Len(frames) \in Nat /\ DOMAIN frames = 1..Len(frames) /\ frames \in [1..Len(frames) -> R]
  <2> HIDE DEF R
  <2> QED BY <1>1, LenProperties
<1>3. \A i \in 1..Len(frames) : frames[i] \in WsFrame
  BY <1>1, <1>2 DEF WsFrame
<1>4. frames \in [1..Len(frames) -> WsFrame]
  <2> HIDE DEF R
  <2> QED BY <1>2, <1>3
<1>5. \A S : \A n \in Nat : \A t \in [1..n -> S] : t \in Seq(S)
  OBVIOUS
<1> QED BY <1>2, <1>4, <1>5

LEMMA WsInitInv == WsInit => WsInv
<1> SUFFICES ASSUME WsInit PROVE WsInv
  OBVIOUS
<1> DEFINE N == Len(frames)
           zeros == [i \in 1..Response |-> 0]
           q == [i \in DOMAIN frames |-> PeerFrame(frames[i])]
           fs == FlattenSeq(q)
<1>1. frames \in Seq(WsFrame)
  BY FramesTyped DEF WsInit
<1>2. N \in Nat /\ DOMAIN frames = 1..N /\ \A i \in 1..N : frames[i] \in WsFrame
  BY <1>1, LenProperties, ElementOfSeq
<1>3. \A i \in 1..N : PeerFrame(frames[i]) \in Seq(Nat) /\ Len(PeerFrame(frames[i])) \in Nat
  <2> TAKE i \in 1..N
  <2>1. PeerFrame(frames[i]) \in Seq(Nat)
    BY <1>2, FrameIs
  <2> QED BY <2>1, LenProperties
<1>4. q \in Seq(Seq(Nat)) /\ Len(q) = N /\ \A k \in 0..N-1 : q[k+1] = PeerFrame(frames[k+1])
  <2>1. q \in [1..N -> Seq(Nat)]
    BY <1>2, <1>3
  <2>2. \A S : \A n \in Nat : \A t \in [1..n -> S] : t \in Seq(S) /\ Len(t) = n
    OBVIOUS
  <2>3. q \in Seq(Seq(Nat)) /\ Len(q) = N
    BY <1>2, <2>1, <2>2
  <2> QED BY <1>2, <2>3
<1> HIDE DEF q
<1>5. PICK from : JoinedAs(from, q, Nat)
  BY <1>4, JoinedIs
<1>5a. /\ from \in [0..N -> Nat] /\ BeginsAt(from, q)
       /\ fs \in Seq(Nat) /\ Len(fs) = from[N]
       /\ \A k \in 0..N-1 : \A i \in 1..Len(q[k+1]) :
            from[k] + i <= from[N] /\ fs[from[k] + i] = q[k+1][i]
  <2>1. Len(q) = N
    BY <1>4
  <2> HIDE DEF N
  <2> QED BY <1>5, <2>1 DEF JoinedAs
<1> HIDE DEF N, fs
<1>6. zeros \in Seq(Nat) /\ Len(zeros) = Response /\ Response \in Nat
  BY WsAssumption
<1>6a. Response \in Nat
  BY WsAssumption
<1>6b. \A k \in 0..N : from[k] \in Nat
  BY <1>5a
<1> HIDE DEF zeros
<1>7. /\ stream = zeros \o fs
      /\ Len(stream) = Response + from[N]
      /\ \A i \in 1..Response + from[N] :
           stream[i] = IF i <= Response THEN zeros[i] ELSE fs[i - Response]
  <2>1. stream = zeros \o fs
    BY DEF WsInit, zeros, q, fs
  <2>2. /\ Len(zeros \o fs) = Len(zeros) + Len(fs)
        /\ \A i \in 1..Len(zeros) + Len(fs) :
             (zeros \o fs)[i] = IF i <= Len(zeros) THEN zeros[i] ELSE fs[i - Len(zeros)]
    <3>1. zeros \in Seq(Nat) /\ fs \in Seq(Nat)
      BY <1>5a, <1>6
    <3>2. \A s, t \in Seq(Nat) :
            /\ Len(s \o t) = Len(s) + Len(t)
            /\ \A i \in 1..Len(s) + Len(t) : (s \o t)[i] = IF i <= Len(s) THEN s[i] ELSE t[i - Len(s)]
      BY ConcatIs
    <3> QED BY <3>1, <3>2, Zenon
  <2> QED BY <1>5a, <1>6, <2>1, <2>2, Zenon
<1> DEFINE begin == [k \in 0..N |-> Response + from[k]]
<1>8. begin \in [0..N -> Nat] /\ begin[0] = Response /\ begin[N] = Len(stream)
  <2>1. 0 \in 0..N /\ N \in 0..N /\ from[0] = 0
    BY <1>2, <1>5a DEF BeginsAt, N
  <2>2. begin \in [0..N -> Nat]
    BY <1>6a, <1>6b
  <2>3. begin[0] = Response + from[0] /\ begin[N] = Response + from[N]
    BY <2>1
  <2>4. Len(stream) = Response + from[N]
    BY <1>7
  <2> QED BY <1>6a, <2>1, <2>2, <2>3, <2>4
<1>9. ASSUME NEW k \in 0..N-1
      PROVE  LET b == PeerFrame(frames[k+1])
             IN  /\ begin[k+1] = begin[k] + Len(b)
                 /\ \A i \in 1..Len(b) : stream[begin[k] + i] = b[i]
  <2> DEFINE b == PeerFrame(frames[k+1])
  <2>1. k \in 0..N /\ k+1 \in 0..N /\ k+1 \in 1..N /\ N \in 0..N /\ q[k+1] = b
    BY <1>2, <1>4 DEF N
  <2>2. from[k+1] = from[k] + Len(b) /\ from[k] \in Nat /\ from[N] \in Nat /\ Len(b) \in Nat
    <3>1. k \in 0..Len(q)-1
      BY <1>4
    <3>2. from[k+1] = from[k] + Len(q[k+1])
      BY <1>5a, <3>1 DEF BeginsAt
    <3>3. Len(b) \in Nat
      BY <1>3, <2>1
    <3>4. from[k] \in Nat /\ from[N] \in Nat
      BY <1>5a, <2>1
    <3> QED BY <2>1, <3>2, <3>3, <3>4
  <2>3. ASSUME NEW i \in 1..Len(b) PROVE stream[begin[k] + i] = b[i]
    <3>1. from[k] + i <= from[N] /\ fs[from[k] + i] = b[i]
      <4>1. i \in 1..Len(q[k+1])
        BY <2>1
      <4> QED BY <1>5a, <2>1, <4>1
    <3>2. begin[k] + i = Response + from[k] + i
      BY <1>6, <2>1, <2>2
    <3>3. /\ Response + from[k] + i \in 1..Response + from[N]
          /\ ~(Response + from[k] + i <= Response) /\ (Response + from[k] + i) - Response = from[k] + i
      <4>1. from[k] \in Nat /\ from[N] \in Nat /\ Len(b) \in Nat
        BY <2>2
      <4> HIDE DEF b
      <4> QED BY <1>6a, <3>1, <4>1
    <3>4. stream[Response + from[k] + i] = fs[(Response + from[k] + i) - Response]
      BY <1>7, <3>3
    <3> QED BY <3>1, <3>2, <3>3, <3>4
  <2>4. begin[k+1] = begin[k] + Len(b)
    BY <1>6, <2>1, <2>2
  <2> QED BY <2>3, <2>4
<1> HIDE DEF begin
<1>10. Laid(begin)
  BY <1>1, <1>8, <1>9 DEF Laid, N
<1>11. BufferInv /\ Fresh /\ InPlace(begin)
  <2>1. received = <<>> /\ reading = "idle" /\ payload = <<>>
    BY DEF WsInit
  <2>2. received \in Seq(WsFrame) /\ Len(received) = 0
    BY <2>1, EmptySeq
  <2>3. BufferInv /\ Fresh
    <3>1. broken = FALSE /\ cur_pos = 0 /\ amt_read = 0 /\ taken = 0 /\ status = "disconnected"
      BY DEF WsInit
    <3>2. status # "connected" /\ broken \in BOOLEAN
      BY <3>1
    <3>3. Len(stream) \in Nat
      <4>1. N \in Nat
        BY <1>2 DEF N
      <4> QED BY <1>8, <4>1
    <3> QED BY <2>1, <3>1, <3>2, <3>3 DEF BufferInv, Fresh
  <2>4. InPlace(begin)
    BY <1>2, <2>1, <2>2 DEF WsInit, InPlace, N
  <2> QED BY <2>3, <2>4
<1> QED BY <1>10, <1>11 DEF WsInv

LEMMA LaidStays ==
  ASSUME NEW begin, Laid(begin), UNCHANGED <<frames, stream>> PROVE Laid(begin)'
BY DEF Laid

\* What the stream holds of frame k+1.
LEMMA StreamIs ==
  ASSUME NEW begin, Laid(begin), NEW k \in Nat, k < Len(frames)
  PROVE  \E f, len, e :
           /\ f = frames[k+1] /\ InStream(begin[k], f, len, e)
           /\ begin[k+1] \in Nat /\ begin[k+1] = begin[k] + 2 + e + len
<1> DEFINE f == frames[k+1]
           len == Len(f.payload)
           e == Extra(len)
           b == PeerFrame(f)
<1>1. f \in WsFrame /\ k \in 0..Len(frames)-1 /\ begin[k] \in Nat
  <2>1. Len(frames) \in Nat /\ frames \in Seq(WsFrame) /\ begin \in [0..Len(frames) -> Nat]
    BY LenProperties DEF Laid
  <2>2. k+1 \in 1..Len(frames) /\ k \in 0..Len(frames)-1 /\ k \in 0..Len(frames)
    BY <2>1
  <2> QED BY <2>1, <2>2, ElementOfSeq
<1>2. begin[k+1] = begin[k] + Len(b) /\ \A i \in 1..Len(b) : stream[begin[k] + i] = b[i]
  BY <1>1 DEF Laid
<1> HIDE DEF f
<1>3. /\ len \in Nat /\ len < Place[8] /\ f.op \in 0..15 /\ f.payload \in Seq(Octet)
      /\ Len(b) = 2 + e + len
      /\ b[1] = FIN + f.op /\ b[2] = Code(len)
      /\ \A n \in 1..e : b[2 + n] = (len \div Place[e - n]) % OctetSize
      /\ \A i \in 1..len : b[2 + e + i] = f.payload[i]
  BY <1>1, FrameIs
<1> HIDE DEF b, len
<1>4. e \in {0, 2, 8} /\ e \in Nat
  <2>1. e \in {0, 2, 8}
    BY <1>3, ExtraIs
  <2> QED BY <2>1
<1> HIDE DEF e
<1>4a. len \in Nat /\ e \in Nat /\ begin[k] \in Nat /\ Len(b) = 2 + e + len
  BY <1>1, <1>3, <1>4
<1>5. begin[k+1] = begin[k] + 2 + e + len
  <2>1. begin[k+1] = begin[k] + Len(b)
    BY <1>2
  <2> QED BY <1>4a, <2>1
<1>6. stream[begin[k] + 1] = FIN + f.op /\ stream[begin[k] + 2] = Code(len)
  <2>1. 1 \in 1..Len(b) /\ 2 \in 1..Len(b)
    BY <1>3, <1>4
  <2> QED BY <1>2, <1>3, <2>1
<1>7. \A n \in 1..e : stream[begin[k] + 2 + n] = (len \div Place[e - n]) % OctetSize
  <2> TAKE n \in 1..e
  <2>1. 2 + n \in 1..Len(b) /\ begin[k] + 2 + n = begin[k] + (2 + n)
    BY <1>4a
  <2>2. stream[begin[k] + (2 + n)] = b[2 + n]
    BY <1>2, <2>1
  <2> QED BY <1>3, <2>1, <2>2
<1>8. \A i \in 1..len : stream[begin[k] + 2 + e + i] = f.payload[i]
  <2> TAKE i \in 1..len
  <2>1. 2 + e + i \in 1..Len(b) /\ begin[k] + 2 + e + i = begin[k] + (2 + e + i)
    BY <1>4a
  <2>2. stream[begin[k] + (2 + e + i)] = b[2 + e + i]
    BY <1>2, <2>1
  <2> QED BY <1>3, <2>1, <2>2
<1>9. /\ f \in WsFrame /\ f.op \in 0..15 /\ f.payload \in Seq(Octet)
      /\ len \in Nat /\ len < Place[8] /\ e \in {0, 2, 8}
      /\ begin[k] \in Nat
  BY <1>1, <1>3, <1>4
<1>10. InStream(begin[k], f, len, e)
  <2>1. len = Len(f.payload) /\ e = Extra(len)
    BY DEF len, e
  <2> QED BY <1>5, <1>6, <1>7, <1>8, <1>9, <2>1 DEF InStream
<1>11. begin[k+1] \in Nat
  BY <1>4a, <1>5
<1> QED BY <1>5, <1>10, <1>11 DEF f

\* next_byte takes the octet at the reader's place, and moves the place by one.
LEMMA NextByteIs ==
  ASSUME BufferInv, NextByte, stream' = stream
  PROVE  /\ BufferInv' /\ taken' # 0 /\ ~Stuck
         /\ Pos \in Nat /\ Pos < Len(stream) /\ Pos' = Pos + 1 /\ Upcoming = stream[Pos + 1]
<1>1. /\ broken \in BOOLEAN /\ cur_pos \in Nat /\ amt_read \in Nat /\ taken \in Nat
      /\ cur_pos <= amt_read /\ amt_read <= taken /\ taken <= Len(stream) /\ Len(stream) \in Nat
  BY DEF BufferInv
<1>2. CASE ~Drained
  <2>1. cur_pos' = cur_pos + 1 /\ broken' = broken /\ taken' = taken /\ amt_read' = amt_read
    BY <1>2 DEF NextByte
  <2>2. cur_pos # 0 /\ cur_pos # amt_read
    BY <1>2 DEF Drained
  <2>3. BufferInv' /\ taken' # 0
    BY <1>1, <2>1, <2>2 DEF BufferInv
  <2>4. Pos = taken - amt_read + cur_pos
    BY <1>2 DEF Pos
  <2>5. Pos' = taken - amt_read + cur_pos + 1
    BY <1>1, <2>1, <2>2 DEF Pos, Drained
  <2>6. Upcoming = stream[taken - amt_read + cur_pos + 1]
    BY <1>2 DEF Upcoming
  <2> QED BY <1>1, <1>2, <2>2, <2>3, <2>4, <2>5, <2>6 DEF Stuck
<1>3. CASE Drained
  <2>1. ~broken /\ broken' = broken
    BY <1>3 DEF NextByte
  <2>2. PICK n \in 1..FrmSize :
          taken + n <= Len(stream) /\ taken' = taken + n /\ amt_read' = n /\ cur_pos' = 1
    BY <1>3 DEF NextByte, Refilled
  <2>3. n \in Nat /\ n >= 1
    BY <2>2, WsAssumption
  <2>4. BufferInv' /\ taken' # 0
    BY <1>1, <2>1, <2>2, <2>3 DEF BufferInv
  <2>5. Pos = taken
    BY <1>3 DEF Pos
  <2>6. Pos' = taken + 1
    BY <1>1, <2>2, <2>3 DEF Pos, Drained
  <2>7. Upcoming = stream[taken + 1]
    BY <1>3 DEF Upcoming
  <2> QED BY <1>1, <2>1, <2>2, <2>3, <2>4, <2>5, <2>6, <2>7 DEF Stuck
<1> QED BY <1>2, <1>3

\* Once recv has found the end of the connection there is nothing more to read.
LEMMA NoByteIs ==
  ASSUME BufferInv, NoByte, stream' = stream
  PROVE  BufferInv' /\ (broken' => Stuck') /\ taken' = taken /\ (Stuck => Stuck')
<1>1. Drained'
  BY DEF NoByte, Drained
<1>2. broken' \in BOOLEAN /\ (broken => broken')
  <2>1. broken' = TRUE \/ broken' = broken
    BY Zenon DEF NoByte
  <2> QED BY <2>1 DEF BufferInv
<1> QED BY <1>1, <1>2 DEF BufferInv, NoByte, Stuck

\* What InPlace asks of the next state when no frame is answered.
LEMMA InPlaceStays ==
  ASSUME NEW begin, InPlace(begin), UNCHANGED <<frames, received>>,
         reading' = "idle" /\ status' = "connected" => Stuck' \/ Pos' = begin[Len(received)],
         reading' = "opcode" => Stuck' \/ Pos' = begin[Len(received)],
         reading' \notin {"idle", "payload"} => payload' = <<>>,
         reading' \notin {"idle", "opcode"} => failed' \/ InFrame(begin)',
         failed' => reading' = "idle" \/ (reading' = "octets" /\ Stuck')
  PROVE  InPlace(begin)'
BY DEF InPlace

\* The reader stays in its frame.
LEMMA InFrameStays ==
  ASSUME NEW begin, UNCHANGED <<frames, stream, received>>, NEW k, NEW f, NEW len, NEW e,
         FrameAt(k, f, len, e), InStream(begin[k], f, len, e), ReadTo(begin[k], f, len, e)'
  PROVE  InFrame(begin)'
<1>1. FrameAt(k, f, len, e)' /\ InStream(begin[k], f, len, e)'
  BY DEF FrameAt, InStream
<1> QED BY <1>1 DEF InFrame

LEMMA OpcodeInPlace ==
  ASSUME BufferInv, NEW begin, Laid(begin), InPlace(begin), RecvOpcode
  PROVE  InPlace(begin)'
<1>1. /\ reading = "opcode" /\ UNCHANGED <<frames, stream, payload, received, togo, frame_length>>
      /\ ~failed /\ failed' = failed /\ payload = <<>> /\ (Stuck \/ Pos = begin[Len(received)])
      /\ Len(received) \in Nat /\ Len(received) <= Len(frames)
  <2>1. received \in Seq(WsFrame) /\ reading = "opcode"
    BY DEF InPlace, RecvOpcode
  <2> QED BY <2>1, LenProperties DEF RecvOpcode, InPlace
<1>2. CASE NextByte /\ opcode' = Upcoming % 16
           /\ reading' = (IF opcode' = CLSE THEN "idle" ELSE "length")
           /\ status' = (IF opcode' = CLSE THEN "disconnected" ELSE status)
  <2>1. Pos = begin[Len(received)] /\ Pos < Len(stream) /\ Pos' = Pos + 1 /\ Upcoming = stream[Pos + 1]
    BY <1>1, <1>2, NextByteIs
  <2>0. PICK k : k = Len(received)
    OBVIOUS
  <2>2. k \in Nat /\ k < Len(frames)
    <3>1. begin[Len(frames)] = Len(stream) /\ Len(stream) \in Nat /\ Len(frames) \in Nat
      BY LenProperties DEF Laid, BufferInv
    <3>2. Len(received) # Len(frames)
      BY <2>1, <3>1
    <3> QED BY <1>1, <2>0, <3>1, <3>2
  <2>3. PICK f, len, e : f = frames[k+1] /\ InStream(begin[k], f, len, e)
    BY <2>2, StreamIs
  <2>4. FrameAt(k, f, len, e)
    BY <2>0, <2>2, <2>3 DEF FrameAt, InStream
  <2>5. opcode' = f.op
    <3>1. f.op \in 0..15 /\ Upcoming = 128 + f.op
      BY <2>0, <2>1, <2>3 DEF InStream, FIN
    <3> QED BY <1>2, <3>1
  <2>6. reading' = "length" => InFrame(begin)'
    <3> SUFFICES ASSUME reading' = "length" PROVE InFrame(begin)'
      OBVIOUS
    <3>1. ReadTo(begin[k], f, len, e)'
      <4>1. Pos' = begin[k] + 1
        BY <2>0, <2>1
      <4> QED BY <2>5, <4>1 DEF ReadTo
    <3> QED BY <1>1, <2>3, <2>4, <3>1, InFrameStays
  <2>7. /\ reading' \in {"idle", "length"}
        /\ reading' = "idle" => status' # "connected"
    BY <1>2
  <2> QED BY <1>1, <2>6, <2>7, InPlaceStays
<1>3. CASE NoByte /\ reading' = "idle" /\ status' = "disconnected"
  BY <1>1, <1>3, InPlaceStays
<1> QED BY <1>2, <1>3 DEF RecvOpcode

\* The frame that is read, and what the stream holds of it.
LEMMA FrameRead ==
  ASSUME NEW begin, Laid(begin), InPlace(begin), reading \notin {"idle", "opcode"}, ~failed
  PROVE  \E k, f, len, e :
           /\ FrameAt(k, f, len, e) /\ InStream(begin[k], f, len, e) /\ ReadTo(begin[k], f, len, e)
           /\ k \in Nat /\ begin[k] \in Nat /\ len \in Nat /\ len < Place[8] /\ e \in {0, 2, 8}
<1>1. InFrame(begin)
  BY DEF InPlace
<1>2. PICK k, f, len, e :
        FrameAt(k, f, len, e) /\ InStream(begin[k], f, len, e) /\ ReadTo(begin[k], f, len, e)
  BY <1>1 DEF InFrame
<1>3. k \in Nat /\ begin[k] \in Nat /\ len \in Nat /\ len < Place[8] /\ e \in {0, 2, 8}
  BY <1>2 DEF FrameAt, InStream
<1> QED BY <1>2, <1>3

\* With its length known the reader is behind the octets of the length.
LEMMA KnownIs ==
  ASSUME NEW len \in Nat, NEW start \in Nat, NEW e \in {0, 2, 8}, NEW f,
         Known(len), Pos' = start + 2 + e, opcode' = f.op
  PROVE  /\ ReadTo(start, f, len, e)' /\ reading' \in {"allocate", "skip"}
<1>1. frame_length' = len /\ togo' = len /\ reading' \in {"allocate", "skip"}
  BY DEF Known
<1>2. len \in 0..len /\ start + 2 + e + (len - len) = start + 2 + e
  OBVIOUS
<1> QED BY <1>1, <1>2 DEF ReadTo

LEMMA LengthInPlace ==
  ASSUME BufferInv, NEW begin, Laid(begin), InPlace(begin), RecvLength, inStep'
  PROVE  InPlace(begin)'
<1>1. /\ reading = "length" /\ payload = <<>> /\ ~failed
      /\ UNCHANGED <<frames, stream, payload, received, opcode>>
  BY DEF InPlace, RecvLength
<1>2. PICK k, f, len, e :
        /\ FrameAt(k, f, len, e) /\ InStream(begin[k], f, len, e) /\ ReadTo(begin[k], f, len, e)
        /\ k \in Nat /\ begin[k] \in Nat /\ len \in Nat /\ len < Place[8] /\ e \in {0, 2, 8}
  BY <1>1, FrameRead
<1> DEFINE code == Upcoming % Half
<1>3. CASE /\ NextByte /\ failed' = failed
           /\ IF code < Octets2 THEN Known(code)
              ELSE /\ octets' = IF code = Octets2 THEN 2 ELSE 8
                   /\ togo' = octets' /\ reading' = "octets" /\ frame_length' = 0
  <2>1. Pos' = Pos + 1 /\ Upcoming = stream[Pos + 1]
    BY <1>1, <1>3, NextByteIs
  <2>2. Pos = begin[k] + 1 /\ opcode = f.op
    BY <1>1, <1>2 DEF ReadTo
  <2>3. Upcoming = Code(len)
    <3>1. Pos + 1 = begin[k] + 2
      BY <1>2, <2>2
    <3> QED BY <1>2, <2>1, <3>1 DEF InStream
  <2>4. /\ Code(len) \in 0..(Half - 1)
        /\ Extra(len) = 0 => Code(len) = len /\ len < Octets2
        /\ Extra(len) = 2 => Code(len) = Octets2
        /\ Extra(len) = 8 => Code(len) = Octets8
        /\ Extra(len) # 0 => len < Place[Extra(len)]
        /\ e = Extra(len)
    BY <1>2, ExtraIs DEF InStream
  <2>5. code = Code(len)
    BY <2>3, <2>4, HalfIs
  <2> HIDE DEF code
  <2>6. Pos' = begin[k] + 2 /\ opcode' = f.op
    BY <1>1, <1>2, <2>1, <2>2
  <2>7. CASE e = 0
    <3>1. code = len /\ code < Octets2 /\ Pos' = begin[k] + 2 + e
      BY <1>2, <2>4, <2>5, <2>6, <2>7
    <3>2. Known(len)
      BY <1>3, <3>1
    <3>3. ReadTo(begin[k], f, len, e)' /\ reading' \in {"allocate", "skip"}
      BY <1>2, <2>6, <3>1, <3>2, KnownIs
    <3>4. InFrame(begin)'
      BY <1>1, <1>2, <3>3, InFrameStays
    <3> QED BY <1>1, <1>3, <3>3, <3>4, InPlaceStays
  <2>8. CASE e # 0
    <3>1. e \in {2, 8} /\ ~(code < Octets2) /\ (code = Octets2 <=> e = 2)
      BY <1>2, <2>4, <2>5, <2>8, HalfIs
    <3>2. reading' = "octets" /\ frame_length' = 0 /\ togo' = e /\ octets' = e
      BY <1>3, <3>1
    <3>3. (len \div Place[e]) * Place[e] = 0
      <4>1. e \in 0..8 /\ len < Place[e]
        BY <2>4, <3>1
      <4>2. len \div Place[e] = 0 /\ Place[e] \in Nat
        BY <1>2, <4>1, NumberEnds, PlaceIs
      <4> QED BY <4>2
    <3>4. ReadTo(begin[k], f, len, e)'
      <4>1. togo' \in 1..e /\ begin[k] + 2 + (e - togo') = begin[k] + 2
        BY <1>2, <3>1, <3>2
      <4> QED BY <2>6, <3>2, <3>3, <4>1 DEF ReadTo
    <3>5. InFrame(begin)'
      BY <1>1, <1>2, <3>4, InFrameStays
    <3> QED BY <1>1, <1>3, <3>2, <3>5, InPlaceStays
  <2> QED BY <2>7, <2>8
<1>4. CASE NoByte /\ reading' = "octets" /\ failed' = TRUE /\ inStep' = (inStep /\ broken')
  <2>1. Stuck'
    BY <1>1, <1>4, NoByteIs
  <2> QED BY <1>1, <1>4, <2>1, InPlaceStays
<1> QED BY <1>3, <1>4 DEF RecvLength

LEMMA OctetsInPlace ==
  ASSUME BufferInv, NEW begin, Laid(begin), InPlace(begin), RecvOctets, inStep'
  PROVE  InPlace(begin)'
<1>1. /\ reading = "octets" /\ payload = <<>>
      /\ UNCHANGED <<frames, stream, payload, received, opcode, octets>>
  BY DEF InPlace, RecvOctets
<1> DEFINE soon == frame_length + Upcoming * OctetWeight
<1>3. CASE NextByte /\ failed
  \* After a failure that left the reader in step there are no octets.
  <2>1. Stuck
    BY <1>1, <1>3 DEF InPlace
  <2> QED BY <1>3, <2>1 DEF NextByte, Stuck
<1>4. CASE /\ NextByte /\ ~failed /\ failed' = failed /\ InOrder
           /\ IF togo > 1 THEN togo' = togo - 1 /\ frame_length' = soon /\ UNCHANGED reading
              ELSE Known(soon)
  <2>0. PICK k, f, len, e :
          /\ FrameAt(k, f, len, e) /\ InStream(begin[k], f, len, e) /\ ReadTo(begin[k], f, len, e)
          /\ k \in Nat /\ begin[k] \in Nat /\ len \in Nat /\ len < Place[8] /\ e \in {0, 2, 8}
    BY <1>1, <1>4, FrameRead
  <2>1. Pos' = Pos + 1 /\ Upcoming = stream[Pos + 1]
    BY <1>1, <1>4, NextByteIs
  <2>2. /\ togo \in 1..e /\ frame_length = (len \div Place[togo]) * Place[togo]
        /\ Pos = begin[k] + 2 + (e - togo) /\ opcode = f.op /\ octets = e
    BY <1>1, <2>0 DEF ReadTo
  <2>3. PICK m : m = togo
    OBVIOUS
  <2>4. m \in 1..8 /\ e - m + 1 \in 1..e /\ e - (e - m + 1) = m - 1
    BY <2>0, <2>2, <2>3
  <2>5. Pos + 1 = begin[k] + 2 + (e - m + 1)
    BY <2>0, <2>2, <2>3, <2>4
  <2>6. Upcoming = (len \div Place[m - 1]) % OctetSize
    <3>1. \A n \in 1..e : stream[begin[k] + 2 + n] = (len \div Place[e - n]) % OctetSize
      BY <2>0 DEF InStream
    <3>2. stream[begin[k] + 2 + (e - m + 1)] = (len \div Place[e - (e - m + 1)]) % OctetSize
      BY <2>4, <3>1
    <3> QED BY <2>1, <2>4, <2>5, <3>2
  <2>7. soon = (len \div Place[m - 1]) * Place[m - 1]
    <3>1. (len \div Place[m]) * OctetSize + ((len \div Place[m-1]) % OctetSize) = len \div Place[m-1]
      BY <2>0, <2>4, NumberStep
    <3>2. OctetWeight = Place[m - 1]
      <4>1. order[octets][e - m + 1] = e - m + 1
        BY <1>4, <2>2, <2>4 DEF InOrder
      <4> QED BY <2>2, <2>3, <2>4, <4>1 DEF OctetWeight
    <3>3. Place[m] = OctetSize * Place[m - 1] /\ Place[m - 1] \in Nat
      BY <2>4, PlaceIs
    <3>4. soon = (len \div Place[m]) * Place[m] + ((len \div Place[m-1]) % OctetSize) * Place[m-1]
      BY <2>2, <2>3, <2>6, <3>2
    <3> DEFINE h == len \div Place[m]
               w == (len \div Place[m-1]) % OctetSize
               p == Place[m-1]
               v == len \div Place[m-1]
    <3>5. h \in Int /\ w \in Int /\ p \in Int /\ OctetSize \in Int
      <4>1. Place[m] \in Nat /\ Place[m] >= 1 /\ Place[m-1] >= 1
        BY <2>4, PlaceIs
      <4> QED BY <2>0, <3>3, <4>1, WsAssumption
    <3>6. h * OctetSize + w = v /\ soon = h * (OctetSize * p) + w * p
      BY <3>1, <3>3, <3>4
    <3> HIDE DEF h, w, p, v
    <3>7. h * (OctetSize * p) + w * p = (h * OctetSize + w) * p
      BY <3>5
    <3>8. soon = v * p
      BY <3>6, <3>7
    <3> QED BY <3>8 DEF v, p
  <2> HIDE DEF soon
  <2>8. CASE m = 1
    <3>1. soon = len
      <4>1. m - 1 = 0
        BY <2>8
      <4>2. len \div Place[0] = len /\ Place[0] = 1
        BY <2>0, NumberEnds, PlaceIs
      <4> QED BY <2>0, <2>7, <4>1, <4>2
    <3>2. Known(len)
      BY <1>4, <2>3, <2>8, <3>1
    <3>3. Pos' = begin[k] + 2 + e /\ opcode' = f.op
      BY <1>1, <2>0, <2>1, <2>2, <2>5, <2>8
    <3>4. ReadTo(begin[k], f, len, e)' /\ reading' \in {"allocate", "skip"}
      BY <2>0, <3>2, <3>3, KnownIs
    <3>5. InFrame(begin)'
      BY <1>1, <2>0, <3>4, InFrameStays
    <3> QED BY <1>1, <1>4, <3>4, <3>5, InPlaceStays
  <2>9. CASE m # 1
    <3>1. /\ togo' = m - 1 /\ frame_length' = (len \div Place[m - 1]) * Place[m - 1]
          /\ reading' = "octets" /\ octets' = e
      BY <1>1, <1>4, <2>2, <2>3, <2>4, <2>7, <2>9
    <3>2. m - 1 \in 1..e /\ Pos' = begin[k] + 2 + (e - (m - 1)) /\ opcode' = f.op
      BY <1>1, <2>0, <2>1, <2>2, <2>3, <2>4, <2>5, <2>9
    <3>3. ReadTo(begin[k], f, len, e)'
      BY <3>1, <3>2 DEF ReadTo
    <3>4. InFrame(begin)'
      BY <1>1, <2>0, <3>3, InFrameStays
    <3> QED BY <1>1, <1>4, <3>1, <3>4, InPlaceStays
  <2> QED BY <2>8, <2>9
<1>5. CASE /\ NoByte /\ reading' \in {"idle", reading} /\ failed' = TRUE
           /\ inStep' = (inStep /\ broken')
  <2>1. Stuck'
    BY <1>1, <1>5, NoByteIs
  <2> QED BY <1>1, <1>5, <2>1, InPlaceStays
<1> QED BY <1>3, <1>4, <1>5 DEF RecvOctets

LEMMA SkipInPlace ==
  ASSUME BufferInv, NEW begin, Laid(begin), InPlace(begin), RecvSkip, inStep'
  PROVE  InPlace(begin)'
<1>1. /\ reading = "skip" /\ payload = <<>> /\ ~failed /\ failed' = failed
      /\ UNCHANGED <<frames, stream, payload, received, opcode, frame_length>>
  BY DEF InPlace, RecvSkip
<1>2. PICK k, f, len, e :
        /\ FrameAt(k, f, len, e) /\ InStream(begin[k], f, len, e) /\ ReadTo(begin[k], f, len, e)
        /\ k \in Nat /\ begin[k] \in Nat /\ len \in Nat /\ len < Place[8] /\ e \in {0, 2, 8}
  BY <1>1, FrameRead
<1>3. frame_length = len /\ togo \in 0..len /\ Pos = begin[k] + 2 + e + (len - togo) /\ opcode = f.op
  BY <1>1, <1>2 DEF ReadTo
<1>4. CASE togo > 0 /\ NextByte /\ togo' = togo - 1 /\ reading' = reading
  <2>1. Pos' = Pos + 1
    BY <1>1, <1>4, NextByteIs
  <2>2. togo' \in 0..len /\ Pos' = begin[k] + 2 + e + (len - togo')
    BY <1>2, <1>3, <1>4, <2>1
  <2>3. ReadTo(begin[k], f, len, e)'
    BY <1>1, <1>3, <1>4, <2>2 DEF ReadTo
  <2>4. InFrame(begin)'
    BY <1>1, <1>2, <2>3, InFrameStays
  <2> QED BY <1>1, <1>4, <2>4, InPlaceStays
<1>5. CASE NoByte /\ reading' = "idle" /\ inStep' = (inStep /\ broken')
  <2>1. Stuck'
    BY <1>1, <1>5, NoByteIs
  <2> QED BY <1>1, <1>5, <2>1, InPlaceStays
<1>6. CASE /\ togo = 0 /\ togo' = frame_length /\ reading' = "allocate"
           /\ inStep' = (inStep /\ frame_length = 0) /\ UNCHANGED bufferVars
  <2>1. len = 0 /\ togo' = 0 /\ Pos' = Pos
    BY <1>3, <1>6 DEF bufferVars, Pos, Drained
  <2>2. ReadTo(begin[k], f, len, e)'
    BY <1>1, <1>3, <1>6, <2>1 DEF ReadTo
  <2>3. InFrame(begin)'
    BY <1>1, <1>2, <2>2, InFrameStays
  <2> QED BY <1>1, <1>6, <2>3, InPlaceStays
<1> QED BY <1>4, <1>5, <1>6 DEF RecvSkip

LEMMA AllocateInPlace ==
  ASSUME BufferInv, NEW begin, Laid(begin), InPlace(begin), RecvAllocate, inStep'
  PROVE  InPlace(begin)'
<1>1. /\ ~failed /\ failed' = failed
      /\ reading = "allocate" /\ payload = <<>> /\ reading' = "payload"
      /\ UNCHANGED <<frames, stream, payload, received, opcode, frame_length, togo, bufferVars>>
  BY DEF InPlace, RecvAllocate
<1>2. PICK k, f, len, e :
        /\ FrameAt(k, f, len, e) /\ InStream(begin[k], f, len, e) /\ ReadTo(begin[k], f, len, e)
        /\ k \in Nat /\ begin[k] \in Nat /\ len \in Nat /\ len < Place[8] /\ e \in {0, 2, 8}
  BY <1>1, FrameRead
<1>3. /\ frame_length = len /\ togo \in 0..len /\ Pos = begin[k] + 2 + e + (len - togo) /\ opcode = f.op
      /\ togo = len
  BY <1>1, <1>2 DEF ReadTo
<1>4. Pos' = Pos
  BY <1>1 DEF bufferVars, Pos, Drained
<1>5. payload' \in Seq(Octet) /\ Len(payload') = 0 /\ len - togo = 0
  BY <1>1, <1>2, <1>3
<1>6. ReadTo(begin[k], f, len, e)'
  BY <1>1, <1>3, <1>4, <1>5 DEF ReadTo
<1>7. InFrame(begin)'
  BY <1>1, <1>2, <1>6, InFrameStays
<1> QED BY <1>1, <1>7, InPlaceStays

LEMMA PayloadInPlace ==
  ASSUME BufferInv, NEW begin, Laid(begin), InPlace(begin), RecvPayload, inStep'
  PROVE  InPlace(begin)'
<1>1. /\ reading = "payload" /\ togo > 0 /\ ~failed /\ failed' = failed
      /\ UNCHANGED <<frames, stream, received, opcode, frame_length>>
  BY DEF RecvPayload, InPlace
<1>2. PICK k, f, len, e :
        /\ FrameAt(k, f, len, e) /\ InStream(begin[k], f, len, e) /\ ReadTo(begin[k], f, len, e)
        /\ k \in Nat /\ begin[k] \in Nat /\ len \in Nat /\ len < Place[8] /\ e \in {0, 2, 8}
  BY <1>1, FrameRead
<1>3. /\ frame_length = len /\ togo \in 0..len /\ Pos = begin[k] + 2 + e + (len - togo) /\ opcode = f.op
      /\ payload \in Seq(Octet) /\ Len(payload) = len - togo
      /\ \A i \in 1..Len(payload) : payload[i] = f.payload[i]
  BY <1>1, <1>2 DEF ReadTo
<1>4. CASE /\ NextByte /\ payload' = Append(payload, Upcoming) /\ togo' = togo - 1
           /\ reading' = reading
  <2>1. Pos' = Pos + 1 /\ Upcoming = stream[Pos + 1]
    BY <1>1, <1>4, NextByteIs
  <2>2. /\ togo' \in 0..len /\ Pos' = begin[k] + 2 + e + (len - togo')
        /\ len - togo + 1 \in 1..len /\ Pos + 1 = begin[k] + 2 + e + (len - togo + 1)
        /\ len - togo + 1 = len - togo' /\ len - togo \in Nat
    <3>1. /\ togo \in 0..len /\ togo > 0 /\ togo' = togo - 1 /\ len \in Nat /\ e \in Nat
          /\ begin[k] \in Nat /\ Pos = begin[k] + 2 + e + (len - togo) /\ Pos' = Pos + 1
      BY <1>1, <1>2, <1>3, <1>4, <2>1
    <3> QED BY <3>1
  <2>3. PICK n \in Nat : n = len - togo
    BY <2>2
  <2>4. Upcoming = f.payload[n + 1]
    <3>1. \A i \in 1..len : stream[begin[k] + 2 + e + i] = f.payload[i]
      BY <1>2 DEF InStream
    <3>2. n + 1 \in 1..len /\ Upcoming = stream[begin[k] + 2 + e + (n + 1)]
      BY <2>1, <2>2, <2>3
    <3> QED BY <3>1, <3>2
  <2>5. Upcoming \in Octet
    <3>1. f.payload \in Seq(Octet) /\ Len(f.payload) = len
      BY <1>2 DEF InStream
    <3>2. n + 1 \in 1..Len(f.payload)
      BY <2>2, <2>3, <3>1
    <3> QED BY <2>4, <3>1, <3>2, ElementOfSeq
  <2>6. /\ payload' \in Seq(Octet) /\ Len(payload') = n + 1
        /\ \A i \in 1..n : payload'[i] = payload[i]
        /\ payload'[n + 1] = Upcoming
    <3> DEFINE u == Upcoming
    <3>1. u \in Octet /\ payload \in Seq(Octet) /\ Len(payload) = n /\ payload' = Append(payload, u)
      BY <1>3, <1>4, <2>3, <2>5
    <3> HIDE DEF u
    <3>2. \A s \in Seq(Octet) : \A x \in Octet :
            /\ Append(s, x) \in Seq(Octet) /\ Len(Append(s, x)) = Len(s) + 1
            /\ \A i \in 1..Len(s) : Append(s, x)[i] = s[i]
            /\ Append(s, x)[Len(s) + 1] = x
      BY AppendProperties
    <3>3. payload' \in Seq(Octet) /\ Len(payload') = n + 1
          /\ (\A i \in 1..n : payload'[i] = payload[i]) /\ payload'[n + 1] = u
      BY <3>1, <3>2, Zenon
    <3> QED BY <3>3 DEF u
  <2>7. \A i \in 1..Len(payload') : payload'[i] = f.payload[i]
    <3> TAKE i \in 1..Len(payload')
    <3>1. CASE i = n + 1
      BY <2>4, <2>6, <3>1
    <3>2. CASE i # n + 1
      <4>1. i \in 1..n
        BY <2>3, <2>6, <3>2
      <4>2. i \in 1..Len(payload)
        BY <1>3, <2>3, <4>1
      <4> QED BY <1>3, <2>6, <4>1, <4>2
    <3> QED BY <3>1, <3>2
  <2>8. ReadTo(begin[k], f, len, e)'
    <3>1. Len(payload') = len - togo'
      BY <2>2, <2>3, <2>6
    <3>2. reading' = "payload" /\ opcode' = f.op /\ frame_length' = len
      BY <1>1, <1>3, <1>4
    <3> QED BY <2>2, <2>6, <2>7, <3>1, <3>2 DEF ReadTo
  <2>9. InFrame(begin)'
    BY <1>1, <1>2, <2>8, InFrameStays
  <2> QED BY <1>1, <1>4, <2>9, InPlaceStays
<1>5. CASE /\ NoByte /\ reading' = "idle" /\ inStep' = (inStep /\ broken')
           /\ UNCHANGED <<payload, togo>>
  <2>1. Stuck'
    BY <1>1, <1>5, NoByteIs
  <2> QED BY <1>1, <1>5, <2>1, InPlaceStays
<1> QED BY <1>4, <1>5 DEF RecvPayload

LEMMA DoneInPlace ==
  ASSUME BufferInv, NEW begin, Laid(begin), InPlace(begin), RecvDone
  PROVE  InPlace(begin)'
<1>1. /\ reading = "payload" /\ togo = 0 /\ reading' = "idle" /\ ~failed /\ failed' = failed
      /\ received' = Append(received, [op |-> opcode, payload |-> payload])
      /\ UNCHANGED <<frames, stream, bufferVars>>
  BY DEF RecvDone, InPlace
<1>2. PICK k, f, len, e :
        /\ FrameAt(k, f, len, e) /\ InStream(begin[k], f, len, e) /\ ReadTo(begin[k], f, len, e)
        /\ k \in Nat /\ begin[k] \in Nat /\ len \in Nat /\ len < Place[8] /\ e \in {0, 2, 8}
  BY <1>1, FrameRead
<1>3. /\ Pos = begin[k] + 2 + e + (len - togo) /\ opcode = f.op
      /\ payload \in Seq(Octet) /\ Len(payload) = len - togo
      /\ \A i \in 1..Len(payload) : payload[i] = f.payload[i]
  BY <1>1, <1>2 DEF ReadTo
<1>4. k = Len(received) /\ k < Len(frames) /\ f = frames[k+1]
  BY <1>2 DEF FrameAt
<1>5. /\ f \in WsFrame /\ f.payload \in Seq(Octet) /\ Len(f.payload) = len
  BY <1>2 DEF InStream
<1>6. payload = f.payload
  <2>1. Len(payload) = len
    BY <1>1, <1>2, <1>3
  <2>2. \A s, t \in Seq(Octet) : Len(s) = Len(t) /\ (\A i \in 1..Len(s) : s[i] = t[i]) => s = t
    BY SeqEqual
  <2> QED BY <1>3, <1>5, <2>1, <2>2
<1>7. [op |-> opcode, payload |-> payload] = f
  <2>1. f = [op |-> f.op, payload |-> f.payload]
    BY <1>5 DEF WsFrame
  <2> QED BY <1>3, <1>6, <2>1
<1>8. Pos = begin[k+1]
  <2>1. PICK f2, len2, e2 : /\ f2 = frames[k+1] /\ InStream(begin[k], f2, len2, e2)
                            /\ begin[k+1] = begin[k] + 2 + e2 + len2
    BY <1>2, <1>4, StreamIs
  <2>2. len2 = len /\ e2 = e
    BY <1>2, <1>4, <2>1 DEF InStream
  <2> QED BY <1>1, <1>2, <1>3, <2>1, <2>2
<1>9. received \in Seq(WsFrame) /\ \A i \in 1..Len(received) : received[i] = frames[i]
  BY DEF InPlace
<1>10. /\ received' \in Seq(WsFrame) /\ Len(received') = k + 1
       /\ \A i \in 1..k : received'[i] = received[i]
       /\ received'[k + 1] = f
  <2>1. received' = Append(received, f)
    BY <1>1, <1>7
  <2>2. \A s \in Seq(WsFrame) : \A x \in WsFrame :
          /\ Append(s, x) \in Seq(WsFrame) /\ Len(Append(s, x)) = Len(s) + 1
          /\ \A i \in 1..Len(s) : Append(s, x)[i] = s[i]
          /\ Append(s, x)[Len(s) + 1] = x
    BY AppendProperties
  <2> QED BY <1>4, <1>5, <1>9, <2>1, <2>2, Zenon
<1>11. \A i \in 1..Len(received') : received'[i] = frames[i]
  <2> TAKE i \in 1..Len(received')
  <2>1. CASE i = k + 1
    BY <1>4, <1>10, <2>1
  <2>2. CASE i # k + 1
    <3>1. i \in 1..k
      BY <1>2, <1>10, <2>2
    <3> QED BY <1>4, <1>9, <1>10, <3>1
  <2> QED BY <2>1, <2>2
<1>12. Pos' = begin[Len(received')]
  BY <1>1, <1>8, <1>10 DEF bufferVars, Pos, Drained
<1>13. Len(received') <= Len(frames)
  <2>1. Len(frames) \in Nat
    BY LenProperties DEF Laid
  <2> QED BY <1>2, <1>4, <1>10, <2>1
<1> QED BY <1>1, <1>10, <1>11, <1>12, <1>13 DEF InPlace

LEMMA BeginInPlace ==
  ASSUME NEW begin, InPlace(begin), RecvBegin PROVE InPlace(begin)'
<1>1. /\ reading = "idle" /\ status = "connected" /\ reading' = "opcode" /\ payload' = <<>>
      /\ failed' = FALSE
      /\ UNCHANGED <<frames, received, bufferVars>>
  BY DEF RecvBegin
<1>2. Stuck' = Stuck /\ Pos' = Pos
  BY <1>1 DEF bufferVars, Stuck, Pos, Drained
<1>3. Stuck' \/ Pos' = begin[Len(received)]
  BY <1>1, <1>2 DEF InPlace
<1> QED BY <1>1, <1>3, InPlaceStays

LEMMA ConnBuffer ==
  ASSUME BufferInv, Fresh, WsConn PROVE BufferInv' /\ Fresh'
<1>1. taken = 0 /\ received = <<>> /\ reading = "idle" /\ UNCHANGED <<stream, reading, received>>
  BY DEF WsConn, Fresh, readVars
<1>2. Response \in Nat /\ Response >= 1 /\ FrmSize \in Nat
  BY WsAssumption
<1>3. CASE \E n \in 1..FrmSize :
             /\ n <= Len(stream) /\ taken' = n /\ amt_read' = n
             /\ IF n < Response THEN cur_pos' = 0 /\ status' = "lost"
                ELSE cur_pos' = Response /\ status' = "connected"
             /\ UNCHANGED broken
  <2>1. PICK n \in 1..FrmSize :
             /\ n <= Len(stream) /\ taken' = n /\ amt_read' = n
             /\ IF n < Response THEN cur_pos' = 0 ELSE cur_pos' = Response
             /\ UNCHANGED broken
    BY <1>3
  <2>2. n \in Nat /\ n >= 1
    BY <1>2
  <2> QED BY <1>1, <1>2, <2>1, <2>2 DEF BufferInv, Fresh
<1>4. CASE /\ broken' = TRUE /\ status' \in {"disconnected", "lost"}
           /\ UNCHANGED <<taken, amt_read, cur_pos>>
  <2>1. status' # "connected"
    BY <1>4
  <2> QED BY <1>1, <1>4, <2>1 DEF BufferInv, Fresh
<1> QED BY <1>3, <1>4 DEF WsConn

LEMMA ConnInPlace ==
  ASSUME BufferInv, Fresh, NEW begin, Laid(begin), InPlace(begin), WsConn
  PROVE  InPlace(begin)'
<1>1. /\ taken = 0 /\ received = <<>> /\ reading = "idle"
      /\ UNCHANGED <<frames, stream, reading, received, failed>>
  BY DEF WsConn, Fresh, readVars
<1>2. Response \in Nat /\ Response >= 1 /\ begin[Len(received)] = Response
  BY <1>1, WsAssumption, EmptySeq DEF Laid
<1>3. CASE \E n \in 1..FrmSize :
             /\ n <= Len(stream) /\ taken' = n /\ amt_read' = n
             /\ IF n < Response THEN cur_pos' = 0 /\ status' = "lost"
                ELSE cur_pos' = Response /\ status' = "connected"
             /\ UNCHANGED broken
  <2>1. PICK n \in 1..FrmSize :
             /\ n <= Len(stream) /\ taken' = n /\ amt_read' = n
             /\ IF n < Response THEN cur_pos' = 0 /\ status' = "lost"
                ELSE cur_pos' = Response /\ status' = "connected"
             /\ UNCHANGED broken
    BY <1>3
  <2>2. n \in Nat /\ n >= 1
    BY WsAssumption
  <2>3. status' = "connected" => Pos' = Response
    <3> HAVE status' = "connected"
    <3>1. n >= Response /\ cur_pos' = Response
      BY <1>2, <2>1, <2>2
    <3> QED BY <1>2, <2>1, <2>2, <3>1 DEF Pos, Drained
  <2> QED BY <1>1, <1>2, <2>3, InPlaceStays
<1>4. CASE /\ broken' = TRUE /\ status' \in {"disconnected", "lost"}
           /\ UNCHANGED <<taken, amt_read, cur_pos>>
  BY <1>1, <1>4, InPlaceStays
<1> QED BY <1>3, <1>4 DEF WsConn

\* What is read moves the buffer only.
LEMMA BufferNext ==
  ASSUME BufferInv, Fresh, reading # "idle", stream' = stream,
         NextByte \/ NoByte \/ UNCHANGED bufferVars
  PROVE  BufferInv' /\ Fresh'
<1>1. taken # 0
  BY DEF Fresh
<1>2. CASE NextByte
  BY <1>2, NextByteIs DEF Fresh
<1>3. CASE NoByte
  BY <1>1, <1>3, NoByteIs DEF Fresh
<1>4. CASE UNCHANGED bufferVars
  BY <1>1, <1>4 DEF BufferInv, Fresh, bufferVars
<1> QED BY <1>2, <1>3, <1>4

\* The reader's place is its own.
LEMMA InPlaceKept ==
  ASSUME NEW begin, InPlace(begin), UNCHANGED <<frames, stream, status, bufferVars, readVars>>
  PROVE  InPlace(begin)'
<1>1. UNCHANGED <<frames, stream, status, reading, opcode, frame_length, togo, octets, failed,
                  payload, received>>
  BY DEF readVars
<1>2. Pos' = Pos /\ Stuck' = Stuck
  BY DEF bufferVars, Pos, Stuck, Drained
<1>3. InFrame(begin) => InFrame(begin)'
  <2> SUFFICES ASSUME InFrame(begin) PROVE InFrame(begin)'
    OBVIOUS
  <2>1. PICK k, f, len, e :
          FrameAt(k, f, len, e) /\ InStream(begin[k], f, len, e) /\ ReadTo(begin[k], f, len, e)
    BY DEF InFrame
  <2>2. ReadTo(begin[k], f, len, e)'
    BY <1>1, <1>2, <2>1 DEF ReadTo
  <2> QED BY <1>1, <2>1, <2>2, InFrameStays
<1> QED BY <1>1, <1>2, <1>3, InPlaceStays DEF InPlace

LEMMA WsNextInv == ASSUME WsInv, [WsNext]_wsVars PROVE WsInv'
<1>1. BufferInv /\ Fresh
  BY DEF WsInv
<1>2. PICK begin : Laid(begin) /\ (inStep => InPlace(begin))
  BY DEF WsInv
<1>3. UNCHANGED <<frames, stream>>
  BY DEF WsNext, WsConn, WsClose, RecvBegin, RecvOpcode, RecvLength, RecvOctets, RecvSkip,
         RecvAllocate, RecvPayload, RecvDone, SendPart, SendFails, SendBegin, wsVars
<1>4. Laid(begin)'
  BY <1>2, <1>3, LaidStays
<1> SUFFICES BufferInv' /\ Fresh' /\ (inStep' => InPlace(begin)')
  BY <1>4 DEF WsInv
<1>5. CASE WsConn
  <2>1. inStep' = inStep
    BY <1>5 DEF WsConn, readVars
  <2>2. BufferInv' /\ Fresh'
    BY <1>1, <1>2, <1>5, ConnBuffer
  <2> QED BY <1>1, <1>2, <1>5, <2>1, <2>2, ConnInPlace
<1>6. CASE WsClose
  <2>1. /\ UNCHANGED <<frames, stream, received, inStep, reading, payload>>
        /\ reading = "idle" /\ status = "connected" /\ status' = "disconnected" /\ broken' = TRUE
        /\ UNCHANGED <<taken, amt_read, cur_pos>>
    BY <1>6 DEF WsClose, readVars
  <2>2. BufferInv' /\ Fresh'
    BY <1>1, <2>1 DEF BufferInv, Fresh
  <2>3. inStep => InPlace(begin)'
    BY <1>2, <2>1, InPlaceStays
  <2> QED BY <2>1, <2>2, <2>3
<1>7. CASE RecvBegin
  <2>1. inStep' = inStep /\ status = "connected" /\ stream' = stream /\ UNCHANGED bufferVars
    BY <1>7 DEF RecvBegin
  <2>2. BufferInv' /\ Fresh'
    BY <1>1, <2>1 DEF BufferInv, Fresh, bufferVars
  <2> QED BY <1>2, <1>7, <2>1, <2>2, BeginInPlace
<1>8. CASE RecvOpcode
  <2>1. inStep' => inStep
    BY <1>8 DEF RecvOpcode
  <2>2. /\ reading # "idle" /\ stream' = stream
        /\ NextByte \/ NoByte \/ UNCHANGED bufferVars
    BY <1>8 DEF RecvOpcode
  <2>3. BufferInv' /\ Fresh'
    BY <1>1, <2>2, BufferNext
  <2> QED BY <1>1, <1>2, <1>8, <2>1, <2>3, OpcodeInPlace
<1>9. CASE RecvLength
  <2>1. inStep' => inStep
    BY <1>9 DEF RecvLength
  <2>2. /\ reading # "idle" /\ stream' = stream
        /\ NextByte \/ NoByte \/ UNCHANGED bufferVars
    BY <1>9 DEF RecvLength
  <2>3. BufferInv' /\ Fresh'
    BY <1>1, <2>2, BufferNext
  <2> QED BY <1>1, <1>2, <1>9, <2>1, <2>3, LengthInPlace
<1>10. CASE RecvOctets
  <2>1. inStep' => inStep
    BY <1>10 DEF RecvOctets
  <2>2. /\ reading # "idle" /\ stream' = stream
        /\ NextByte \/ NoByte \/ UNCHANGED bufferVars
    BY <1>10 DEF RecvOctets
  <2>3. BufferInv' /\ Fresh'
    BY <1>1, <2>2, BufferNext
  <2> QED BY <1>1, <1>2, <1>10, <2>1, <2>3, OctetsInPlace
<1>11. CASE RecvSkip
  <2>1. inStep' => inStep
    BY <1>11 DEF RecvSkip
  <2>2. /\ reading # "idle" /\ stream' = stream
        /\ NextByte \/ NoByte \/ UNCHANGED bufferVars
    BY <1>11 DEF RecvSkip
  <2>3. BufferInv' /\ Fresh'
    BY <1>1, <2>2, BufferNext
  <2> QED BY <1>1, <1>2, <1>11, <2>1, <2>3, SkipInPlace
<1>12. CASE RecvAllocate
  <2>1. inStep' => inStep
    BY <1>12 DEF RecvAllocate
  <2>2. /\ reading # "idle" /\ stream' = stream
        /\ NextByte \/ NoByte \/ UNCHANGED bufferVars
    BY <1>12 DEF RecvAllocate
  <2>3. BufferInv' /\ Fresh'
    BY <1>1, <2>2, BufferNext
  <2> QED BY <1>1, <1>2, <1>12, <2>1, <2>3, AllocateInPlace
<1>13. CASE RecvPayload
  <2>1. inStep' => inStep
    BY <1>13 DEF RecvPayload
  <2>2. /\ reading # "idle" /\ stream' = stream
        /\ NextByte \/ NoByte \/ UNCHANGED bufferVars
    BY <1>13 DEF RecvPayload
  <2>3. BufferInv' /\ Fresh'
    BY <1>1, <2>2, BufferNext
  <2> QED BY <1>1, <1>2, <1>13, <2>1, <2>3, PayloadInPlace
<1>14. CASE RecvDone
  <2>1. inStep' => inStep
    BY <1>14 DEF RecvDone
  <2>2. /\ reading # "idle" /\ stream' = stream
        /\ NextByte \/ NoByte \/ UNCHANGED bufferVars
    BY <1>14 DEF RecvDone
  <2>3. BufferInv' /\ Fresh'
    BY <1>1, <2>2, BufferNext
  <2> QED BY <1>1, <1>2, <1>14, <2>1, <2>3, DoneInPlace
<1>15. CASE SendPart \/ SendFails \/ (\E msg \in Messages : SendBegin(msg)) \/ UNCHANGED wsVars
  <2>1. UNCHANGED <<frames, stream, status, bufferVars, readVars>>
    BY <1>15 DEF SendPart, SendFails, SendBegin, wsVars
  <2>2. UNCHANGED <<inStep, received, reading, broken, taken, amt_read, cur_pos>>
    BY <2>1 DEF readVars, bufferVars
  <2>3. BufferInv' /\ Fresh'
    BY <1>1, <2>1, <2>2 DEF BufferInv, Fresh
  <2>4. inStep => InPlace(begin)'
    BY <1>2, <2>1, InPlaceKept
  <2> QED BY <2>2, <2>3, <2>4
<1> QED BY <1>5, <1>6, <1>7, <1>8, <1>9, <1>10, <1>11, <1>12, <1>13, <1>14, <1>15 DEF WsNext

\* The invariant of the connection: the buffer's borders, the layout of the stream, and, as long
\* as the reader is in step, its place in the frame behind those it has answered.
THEOREM WsInvariant == WsSpec => []WsInv
<1>1. WsInit => WsInv
  BY WsInitInv
<1>2. WsInv /\ [WsNext]_wsVars => WsInv'
  BY WsNextInv
<1> QED BY <1>1, <1>2, PTL DEF WsSpec

\* The frames gfc_ws_recv answers are the peer's, in order, in any pieces the stream comes.
THEOREM FramesInOrderCorrect == WsSpec => []FramesInOrder
<1>1. WsInv => FramesInOrder
  <2> SUFFICES ASSUME WsInv, inStep PROVE IsPrefix(received, frames)
    BY DEF FramesInOrder
  <2>1. PICK begin : Laid(begin) /\ InPlace(begin)
    BY DEF WsInv
  <2>2. /\ received \in Seq(WsFrame) /\ frames \in Seq(WsFrame) /\ Len(received) <= Len(frames)
        /\ \A i \in 1..Len(received) : received[i] = frames[i]
    BY <2>1 DEF InPlace, Laid
  <2>3. Len(received) \in Nat /\ Len(frames) \in Nat
    BY <2>2, LenProperties
  <2>4. SubSeq(received, 1, Len(received)) = SubSeq(frames, 1, Len(received))
    BY <2>2, <2>3
  <2> QED BY <2>2, <2>4 DEF IsPrefix
<1> QED BY <1>1, WsInvariant, PTL

-----------------------------------------------------------------------------
\* A masked frame with the message lies behind place start of the octets and ends at place behind.
MessageIn(bytes, start, behind, msg) ==
  LET len == Len(msg)
      e == Extra(len)
  IN  /\ start \in Nat /\ behind = start + 6 + e + len /\ behind <= Len(bytes)
      /\ bytes[start + 2] = Half + Code(len)
      /\ \A n \in 1..e : bytes[start + 2 + n] = (len \div Place[e - n]) % OctetSize
      /\ \A i \in 1..4 : bytes[start + 2 + e + i] = Mask
      /\ \A i \in 1..len : bytes[start + 6 + e + i] = XorOctets(msg[i], Mask)

\* The octets are the frames of the messages, one behind the other.
SentLaid(begin, bytes, msgs) ==
  /\ bytes \in Seq(Nat) /\ Len(msgs) <= Len(bytes)
  /\ begin \in [0..Len(msgs) -> Nat] /\ begin[0] = 0 /\ begin[Len(msgs)] = Len(bytes)
  /\ \A k \in 0..Len(msgs)-1 : MessageIn(bytes, begin[k], begin[k+1], msgs[k+1])

\* What the call under way has still to hand to send.
PartsOf(s) ==
  IF s = <<>> THEN <<>>
  ELSE IF Len(s) = 1 THEN s[1]
  ELSE IF Len(s) = 2 THEN s[1] \o s[2]
  ELSE s[1] \o (s[2] \o s[3])

Ahead == PartsOf(sending)

SentInv ==
  /\ sent \in Seq(Messages) /\ wire \in Seq(Nat)
  /\ sending \in Seq(Seq(Nat)) /\ Len(sending) <= 3
  /\ whole => \E begin : SentLaid(begin, wire \o Ahead, sent)

LEMMA MaskIs == Mask \in Octet /\ Octet \subseteq Nat
BY WsAssumption DEF Mask, Octet

LEMMA MessagesTyped ==
  ASSUME NEW msg \in Messages
  PROVE  /\ msg \in Seq(Octet) /\ Len(msg) \in Nat /\ Len(msg) < Place[8]
         /\ Extra(Len(msg)) \in {0, 2, 8} /\ Code(Len(msg)) \in 0..(Half - 1)
         /\ \A i \in 1..Len(msg) : msg[i] \in Octet
<1>1. msg \in Seq(Octet) /\ Len(msg) < Place[8]
  BY WsTexts
<1>2. Len(msg) \in Nat
  BY <1>1, LenProperties
<1>3. Extra(Len(msg)) \in {0, 2, 8} /\ Code(Len(msg)) \in 0..(Half - 1)
  BY <1>1, <1>2, ExtraIs
<1>4. \A i \in 1..Len(msg) : msg[i] \in Octet
  BY <1>1, ElementOfSeq
<1> QED BY <1>1, <1>2, <1>3, <1>4

\* The three parts gfc_ws_send hands to send make one frame.
LEMMA PartsAre ==
  ASSUME NEW msg \in Messages
  PROVE  LET p == <<FIN + TXT>> \o LengthOctets(Len(msg), Half)
             m == <<Mask, Mask, Mask, Mask>>
             len == Len(msg)
             e == Extra(len)
         IN  /\ p \in Seq(Nat) /\ m \in Seq(Nat) /\ Masked(msg) \in Seq(Nat)
             /\ Len(p) = 2 + e /\ Len(m) = 4 /\ Len(Masked(msg)) = len
             /\ p[2] = Half + Code(len)
             /\ \A n \in 1..e : p[2 + n] = (len \div Place[e - n]) % OctetSize
             /\ \A i \in 1..4 : m[i] = Mask
             /\ \A i \in 1..len : Masked(msg)[i] = XorOctets(msg[i], Mask)
<1> DEFINE len == Len(msg)
           e == Extra(len)
           h == <<FIN + TXT>>
           length == LengthOctets(len, Half)
           m == <<Mask, Mask, Mask, Mask>>
<1>1. len \in Nat /\ len < Place[8] /\ e \in {0, 2, 8} /\ Code(len) \in Nat /\ Half \in Nat
  <2>1. len \in Nat /\ len < Place[8] /\ e \in {0, 2, 8} /\ Code(len) \in 0..(Half - 1)
    BY MessagesTyped
  <2> QED BY <2>1, HalfIs
<1>2. h \in Seq(Nat) /\ Len(h) = 1
  BY DEF FIN, TXT
<1> HIDE DEF len
<1>3. /\ length \in Seq(Nat) /\ Len(length) = 1 + e /\ length[1] = Half + Code(len)
      /\ \A n \in 1..e : length[1 + n] = (len \div Place[e - n]) % OctetSize
  BY <1>1, LengthIs
<1> HIDE DEF h, length, e
<1>4. /\ h \o length \in Seq(Nat) /\ Len(h \o length) = Len(h) + Len(length)
      /\ \A i \in 1..Len(h) + Len(length) :
           (h \o length)[i] = IF i <= Len(h) THEN h[i] ELSE length[i - Len(h)]
  <2>1. \A s, t \in Seq(Nat) :
          /\ s \o t \in Seq(Nat) /\ Len(s \o t) = Len(s) + Len(t)
          /\ \A i \in 1..Len(s) + Len(t) : (s \o t)[i] = IF i <= Len(s) THEN s[i] ELSE t[i - Len(s)]
    BY ConcatIs
  <2>2. h \in Seq(Nat) /\ length \in Seq(Nat)
    BY <1>2, <1>3
  <2> QED BY <2>1, <2>2, Zenon
<1>5. \A n \in 0..e : (h \o length)[2 + n] = length[1 + n]
  <2> TAKE n \in 0..e
  <2>1. 2 + n \in 1..Len(h) + Len(length) /\ ~(2 + n <= Len(h)) /\ (2 + n) - Len(h) = 1 + n
    BY <1>1, <1>2, <1>3
  <2> QED BY <1>4, <2>1
<1>6. (h \o length)[2] = Half + Code(len)
  <2>1. 0 \in 0..e /\ 2 + 0 = 2 /\ 1 + 0 = 1
    BY <1>1
  <2> QED BY <1>3, <1>5, <2>1
<1>7. \A n \in 1..e : (h \o length)[2 + n] = (len \div Place[e - n]) % OctetSize
  <2>1. \A n \in 1..e : n \in 0..e
    BY <1>1
  <2> QED BY <1>3, <1>5, <2>1
<1>8. Len(h \o length) = 2 + e
  BY <1>1, <1>2, <1>3, <1>4
<1>9. m \in Seq(Nat) /\ Len(m) = 4 /\ \A i \in 1..4 : m[i] = Mask
  <2>1. Mask \in Nat
    BY MaskIs
  <2>2. m \in Seq(Nat) /\ Len(m) = 4
    BY <2>1
  <2>3. \A i \in 1..4 : i = 1 \/ i = 2 \/ i = 3 \/ i = 4
    OBVIOUS
  <2>4. m[1] = Mask /\ m[2] = Mask /\ m[3] = Mask /\ m[4] = Mask
    OBVIOUS
  <2> QED BY <2>2, <2>3, <2>4
<1>10. /\ Masked(msg) \in Seq(Nat) /\ Len(Masked(msg)) = len
       /\ \A i \in 1..len : Masked(msg)[i] = XorOctets(msg[i], Mask)
  <2>1. DOMAIN msg = 1..len
    <3>1. msg \in Seq(Octet)
      BY MessagesTyped
    <3> QED BY <3>1, LenProperties DEF len
  <2>2. \A i \in 1..len : XorOctets(msg[i], Mask) \in Nat
    <3> TAKE i \in 1..len
    <3>1. msg[i] \in Octet
      BY MessagesTyped DEF len
    <3>2. XorOctets(msg[i], Mask) \in Octet
      BY <3>1, MaskIs, XorAssumption
    <3> QED BY <3>2, MaskIs
  <2> DEFINE t == [i \in 1..len |-> XorOctets(msg[i], Mask)]
  <2>3. t \in [1..len -> Nat]
    BY <2>2
  <2>4. \A i \in 1..len : t[i] = XorOctets(msg[i], Mask)
    OBVIOUS
  <2>5. Masked(msg) = t
    BY <2>1 DEF Masked
  <2> HIDE DEF t
  <2>6. t \in Seq(Nat) /\ Len(t) = len
    BY <1>1, <2>3
  <2> QED BY <2>4, <2>5, <2>6
<1> QED BY <1>4, <1>6, <1>7, <1>8, <1>9, <1>10, Zenon DEF len, e, h, length

\* More octets do not disturb a frame.
LEMMA MessageStays ==
  ASSUME NEW bytes \in Seq(Nat), NEW more \in Seq(Nat), NEW start, NEW behind, NEW msg \in Messages,
         MessageIn(bytes, start, behind, msg)
  PROVE  MessageIn(bytes \o more, start, behind, msg)
<1> DEFINE all == bytes \o more
           len == Len(msg)
           e == Extra(len)
<1>1. len \in Nat /\ e \in {0, 2, 8}
  BY MessagesTyped
<1>2. Len(bytes) \in Nat /\ Len(more) \in Nat
  BY LenProperties
<1>3. Len(all) = Len(bytes) + Len(more) /\ \A i \in 1..Len(bytes) : all[i] = bytes[i]
  <2>1. /\ Len(all) = Len(bytes) + Len(more)
        /\ \A i \in 1..Len(bytes) + Len(more) :
             all[i] = IF i <= Len(bytes) THEN bytes[i] ELSE more[i - Len(bytes)]
    BY ConcatIs
  <2> HIDE DEF all
  <2>2. ASSUME NEW i \in 1..Len(bytes) PROVE all[i] = bytes[i]
    <3>1. i \in 1..Len(bytes) + Len(more) /\ i <= Len(bytes)
      BY <1>2
    <3> QED BY <2>1, <3>1
  <2> QED BY <2>1, <2>2
<1> HIDE DEF all, len, e
<1>4. /\ start \in Nat /\ behind = start + 6 + e + len /\ behind <= Len(bytes)
      /\ bytes[start + 2] = Half + Code(len)
      /\ \A n \in 1..e : bytes[start + 2 + n] = (len \div Place[e - n]) % OctetSize
      /\ \A i \in 1..4 : bytes[start + 2 + e + i] = Mask
      /\ \A i \in 1..len : bytes[start + 6 + e + i] = XorOctets(msg[i], Mask)
  BY Zenon DEF MessageIn, e, len
<1>5. start \in Nat /\ start + 6 + e + len <= Len(bytes) /\ e \in Nat
  BY <1>1, <1>4
<1>6. /\ start + 2 \in 1..Len(bytes)
      /\ \A n \in 1..e : start + 2 + n \in 1..Len(bytes)
      /\ \A i \in 1..4 : start + 2 + e + i \in 1..Len(bytes)
      /\ \A i \in 1..len : start + 6 + e + i \in 1..Len(bytes)
  BY <1>1, <1>2, <1>5
<1>7. behind <= Len(all)
  <2>1. behind \in Nat
    BY <1>1, <1>4, <1>5
  <2> QED BY <1>2, <1>3, <1>4, <2>1
<1>8. /\ all[start + 2] = Half + Code(len)
      /\ \A n \in 1..e : all[start + 2 + n] = (len \div Place[e - n]) % OctetSize
      /\ \A i \in 1..4 : all[start + 2 + e + i] = Mask
      /\ \A i \in 1..len : all[start + 6 + e + i] = XorOctets(msg[i], Mask)
  BY <1>3, <1>4, <1>6, Zenon
<1>9. MessageIn(all, start, behind, msg)
  BY <1>4, <1>7, <1>8, Zenon DEF MessageIn, e, len
<1> QED BY <1>9 DEF all

\* The frame gfc_ws_send writes lies behind the octets sent before.
LEMMA MessageAdded ==
  ASSUME NEW bytes \in Seq(Nat), NEW msg \in Messages, NEW p, NEW m, NEW x,
         p = <<FIN + TXT>> \o LengthOctets(Len(msg), Half),
         m = <<Mask, Mask, Mask, Mask>>, x = Masked(msg)
  PROVE  LET all == bytes \o (p \o (m \o x))
         IN  /\ all \in Seq(Nat) /\ p \o (m \o x) \in Seq(Nat)
             /\ MessageIn(all, Len(bytes), Len(all), msg)
<1> DEFINE len == Len(msg)
           e == Extra(len)
           mx == m \o x
           part == p \o mx
           all == bytes \o part
<1>1. len \in Nat /\ e \in {0, 2, 8} /\ e \in Nat /\ Len(bytes) \in Nat
  <2>1. len \in Nat /\ e \in {0, 2, 8}
    BY MessagesTyped
  <2>2. Len(bytes) \in Nat
    BY LenProperties
  <2> QED BY <2>1, <2>2
<1>2. /\ p \in Seq(Nat) /\ m \in Seq(Nat) /\ x \in Seq(Nat)
      /\ Len(p) = 2 + e /\ Len(m) = 4 /\ Len(x) = len
      /\ p[2] = Half + Code(len)
      /\ \A n \in 1..e : p[2 + n] = (len \div Place[e - n]) % OctetSize
      /\ \A i \in 1..4 : m[i] = Mask
      /\ \A i \in 1..len : x[i] = XorOctets(msg[i], Mask)
  BY PartsAre, Zenon
<1>3. \A s, t \in Seq(Nat) :
        /\ s \o t \in Seq(Nat) /\ Len(s \o t) = Len(s) + Len(t)
        /\ \A i \in 1..Len(s) + Len(t) : (s \o t)[i] = IF i <= Len(s) THEN s[i] ELSE t[i - Len(s)]
  BY ConcatIs
<1>4. /\ mx \in Seq(Nat) /\ Len(mx) = Len(m) + Len(x)
      /\ \A i \in 1..Len(m) + Len(x) : mx[i] = IF i <= Len(m) THEN m[i] ELSE x[i - Len(m)]
  BY <1>2, <1>3, Zenon
<1> HIDE DEF mx, len, e
<1>5. /\ part \in Seq(Nat) /\ Len(part) = Len(p) + Len(mx)
      /\ \A i \in 1..Len(p) + Len(mx) : part[i] = IF i <= Len(p) THEN p[i] ELSE mx[i - Len(p)]
  BY <1>2, <1>3, <1>4, Zenon
<1> HIDE DEF part
<1>6. /\ all \in Seq(Nat) /\ Len(all) = Len(bytes) + Len(part)
      /\ \A i \in 1..Len(bytes) + Len(part) :
           all[i] = IF i <= Len(bytes) THEN bytes[i] ELSE part[i - Len(bytes)]
  BY <1>3, <1>5, Zenon
<1> HIDE DEF all
<1> DEFINE start == Len(bytes)
<1>7. start \in Nat
  BY <1>1
<1>8. Len(p) = 2 + e /\ Len(m) = 4 /\ Len(x) = len /\ Len(mx) = 4 + len /\ Len(part) = 6 + e + len
  <2>1. Len(mx) = 4 + len /\ Len(p) = 2 + e
    BY <1>2, <1>4
  <2>2. Len(part) = (2 + e) + (4 + len)
    BY <1>5, <2>1
  <2> QED BY <1>1, <1>2, <2>1, <2>2
<1>9. Len(all) = start + 6 + e + len
  BY <1>1, <1>6, <1>8
<1> HIDE DEF start
<1>10. \A i \in 1..6 + e + len : all[start + i] = part[i]
  <2> TAKE i \in 1..6 + e + len
  <2>1. start + i \in 1..start + Len(part) /\ ~(start + i <= start) /\ (start + i) - start = i
    BY <1>1, <1>7, <1>8
  <2> QED BY <1>6, <2>1 DEF start
<1>11. \A i \in 1..2 + e : all[start + i] = p[i]
  <2> TAKE i \in 1..2 + e
  <2>1. i \in 1..6 + e + len /\ i \in 1..Len(p) + Len(mx) /\ i <= Len(p)
    BY <1>1, <1>8
  <2> QED BY <1>5, <1>10, <2>1
<1>12. \A i \in 1..4 + len : all[start + 2 + e + i] = mx[i]
  <2> TAKE i \in 1..4 + len
  <2>1. /\ 2 + e + i \in 1..6 + e + len /\ 2 + e + i \in 1..Len(p) + Len(mx)
        /\ ~(2 + e + i <= Len(p)) /\ (2 + e + i) - Len(p) = i
        /\ start + 2 + e + i = start + (2 + e + i)
    BY <1>1, <1>7, <1>8
  <2>2. all[start + (2 + e + i)] = part[2 + e + i]
    BY <1>10, <2>1
  <2>3. part[2 + e + i] = mx[(2 + e + i) - Len(p)]
    BY <1>5, <2>1
  <2> QED BY <2>1, <2>2, <2>3
<1>13. all[start + 2] = Half + Code(len)
  <2>1. 2 \in 1..2 + e
    BY <1>1
  <2> QED BY <1>2, <1>11, <2>1 DEF len
<1>14. \A n \in 1..e : all[start + 2 + n] = (len \div Place[e - n]) % OctetSize
  <2> TAKE n \in 1..e
  <2>1. 2 + n \in 1..2 + e /\ start + 2 + n = start + (2 + n)
    BY <1>1, <1>7
  <2>2. all[start + (2 + n)] = p[2 + n]
    BY <1>11, <2>1
  <2>3. p[2 + n] = (len \div Place[e - n]) % OctetSize
    BY <1>2 DEF len, e
  <2> QED BY <2>1, <2>2, <2>3
<1>15. \A i \in 1..4 : all[start + 2 + e + i] = Mask
  <2> TAKE i \in 1..4
  <2>1. i \in 1..4 + len /\ i \in 1..Len(m) + Len(x) /\ i <= Len(m)
    BY <1>1, <1>8
  <2>2. all[start + 2 + e + i] = mx[i]
    BY <1>12, <2>1
  <2>3. mx[i] = m[i]
    BY <1>4, <2>1
  <2>4. m[i] = Mask
    BY <1>2
  <2> QED BY <2>2, <2>3, <2>4
<1>16. \A i \in 1..len : all[start + 6 + e + i] = XorOctets(msg[i], Mask)
  <2> TAKE i \in 1..len
  <2>1. /\ 4 + i \in 1..4 + len /\ 4 + i \in 1..Len(m) + Len(x) /\ ~(4 + i <= Len(m))
        /\ (4 + i) - Len(m) = i /\ start + 2 + e + (4 + i) = start + 6 + e + i
    BY <1>1, <1>7, <1>8
  <2>2. all[start + 2 + e + (4 + i)] = mx[4 + i]
    BY <1>12, <2>1
  <2>3. mx[4 + i] = x[(4 + i) - Len(m)]
    BY <1>4, <2>1
  <2>4. x[i] = XorOctets(msg[i], Mask)
    BY <1>2 DEF len
  <2> QED BY <2>1, <2>2, <2>3, <2>4
<1>17. Len(all) <= Len(all)
  BY <1>1, <1>7, <1>9
<1>18. MessageIn(all, start, Len(all), msg)
  BY <1>7, <1>9, <1>13, <1>14, <1>15, <1>16, <1>17, Zenon DEF MessageIn, len, e
<1> QED BY <1>5, <1>6, <1>18, Zenon DEF all, part, mx, start

\* One more message is sent.
LEMMA LaidAdded ==
  ASSUME NEW bytes, NEW msgs \in Seq(Messages), NEW begin, SentLaid(begin, bytes, msgs),
         NEW more \in Seq(Nat), NEW msg \in Messages,
         MessageIn(bytes \o more, Len(bytes), Len(bytes \o more), msg)
  PROVE  \E from : SentLaid(from, bytes \o more, Append(msgs, msg))
<1> DEFINE all == bytes \o more
           N == Len(msgs)
           longer == Append(msgs, msg)
<1>1. /\ bytes \in Seq(Nat) /\ N <= Len(bytes)
      /\ begin \in [0..N -> Nat] /\ begin[0] = 0 /\ begin[N] = Len(bytes)
      /\ \A k \in 0..N-1 : MessageIn(bytes, begin[k], begin[k+1], msgs[k+1])
  BY DEF SentLaid
<1>2. N \in Nat /\ Len(bytes) \in Nat
  BY <1>1, LenProperties
<1>3. all \in Seq(Nat) /\ Len(all) \in Nat
  <2>1. all \in Seq(Nat)
    BY <1>1, ConcatIs
  <2> HIDE DEF all
  <2> QED BY <2>1, LenProperties
<1> HIDE DEF N, all
<1>4. /\ longer \in Seq(Messages) /\ Len(longer) = N + 1
      /\ \A i \in 1..N : longer[i] = msgs[i]
      /\ longer[N + 1] = msg
  <2>1. \A s \in Seq(Messages) : \A x \in Messages :
          /\ Append(s, x) \in Seq(Messages) /\ Len(Append(s, x)) = Len(s) + 1
          /\ \A i \in 1..Len(s) : Append(s, x)[i] = s[i]
          /\ Append(s, x)[Len(s) + 1] = x
    BY AppendProperties
  <2> QED BY <2>1, Zenon DEF N
<1> HIDE DEF longer
<1>5. Len(all) >= Len(bytes) + 6
  <2> DEFINE len == Len(msg)
             e == Extra(len)
  <2>1. Len(all) = Len(bytes) + 6 + e + len
    BY Zenon DEF MessageIn, all
  <2>2. len \in Nat /\ e \in {0, 2, 8}
    BY MessagesTyped
  <2> HIDE DEF len, e
  <2> QED BY <1>2, <2>1, <2>2
<1> DEFINE from == [k \in 0..N+1 |-> IF k <= N THEN begin[k] ELSE Len(all)]
<1>6. from \in [0..N+1 -> Nat] /\ from[N+1] = Len(all) /\ \A k \in 0..N : from[k] = begin[k]
  <2>1. \A k \in 0..N+1 : (k <= N => k \in 0..N) /\ (k \in 0..N => k <= N)
    BY <1>2
  <2>2. \A k \in 0..N : k \in 0..N+1
    BY <1>2
  <2>3. N+1 \in 0..N+1 /\ ~(N+1 <= N)
    BY <1>2
  <2> QED BY <1>1, <1>3, <2>1, <2>2, <2>3
<1> HIDE DEF from
<1>7. ASSUME NEW k \in 0..N PROVE MessageIn(all, from[k], from[k+1], longer[k+1])
  <2>1. CASE k = N
    <3>1. from[k] = Len(bytes) /\ from[k+1] = Len(all) /\ longer[k+1] = msg
      BY <1>1, <1>4, <1>6, <2>1
    <3> QED BY <3>1 DEF all
  <2>2. CASE k # N
    <3>1. k \in 0..N-1 /\ k+1 \in 0..N /\ k+1 \in 1..N
      BY <1>2, <2>2
    <3>2. from[k] = begin[k] /\ from[k+1] = begin[k+1] /\ longer[k+1] = msgs[k+1] /\ msgs[k+1] \in Messages
      BY <1>4, <1>6, <3>1, ElementOfSeq DEF N
    <3>3. MessageIn(bytes, begin[k], begin[k+1], msgs[k+1])
      BY <1>1, <3>1
    <3>4. MessageIn(all, begin[k], begin[k+1], msgs[k+1])
      BY <1>1, <3>2, <3>3, MessageStays DEF all
    <3> QED BY <3>2, <3>4
  <2> QED BY <2>1, <2>2
<1>8. N + 1 <= Len(all) /\ from[0] = 0 /\ (N + 1) - 1 = N
  <2>1. 0 \in 0..N
    BY <1>2
  <2>2. from[0] = 0
    BY <1>1, <1>6, <2>1
  <2> QED BY <1>1, <1>2, <1>3, <1>5, <2>2 DEF N
<1>9. SentLaid(from, all, longer)
  BY <1>3, <1>4, <1>6, <1>7, <1>8, Zenon DEF SentLaid
<1> QED BY <1>9 DEF all, longer

Regroups(s, t, u) == s \o (t \o u) = (s \o t) \o u

LEMMA ConcatRegroups == \A S : \A s, t, u \in Seq(S) : Regroups(s, t, u)
BY ConcatAssociative DEF Regroups

LEMMA TailIs ==
  \A S : \A s \in Seq(S) : s # <<>> =>
    /\ Tail(s) \in Seq(S) /\ Len(Tail(s)) = Len(s) - 1 /\ s[1] \in S /\ Head(s) = s[1]
    /\ \A i \in 1..Len(s)-1 : Tail(s)[i] = s[i+1]
BY HeadTailProperties, ElementOfSeq, EmptySeq, LenProperties

\* The parts are sent one behind the other.
LEMMA PartsStep ==
  ASSUME NEW S, NEW s \in Seq(Seq(S)), NEW w \in Seq(S), s # <<>>, Len(s) <= 3
  PROVE  w \o PartsOf(s) = (w \o s[1]) \o PartsOf(Tail(s))
<1> DEFINE t == Tail(s)
<1>1. /\ t \in Seq(Seq(S)) /\ Len(t) = Len(s) - 1
      /\ \A i \in 1..Len(s)-1 : t[i] = s[i+1]
  BY TailIs
<1>2. \A i \in 1..Len(s) : s[i] \in Seq(S)
  BY ElementOfSeq
<1>3. t = <<>> <=> Len(t) = 0
  BY <1>1, EmptySeq
<1>4. Len(s) = 1 \/ Len(s) = 2 \/ Len(s) = 3
  <2>1. \A n \in Nat : n <= 3 /\ n # 0 => n = 1 \/ n = 2 \/ n = 3
    OBVIOUS
  <2>2. Len(s) \in Nat /\ Len(s) # 0
    BY LenProperties, EmptySeq
  <2> QED BY <2>1, <2>2, Zenon
<1>5. \A x, y \in Seq(S) : x \o y \in Seq(S)
  BY ConcatIs
<1> HIDE DEF t
<1>6. CASE Len(s) = 1
  <2>1. t = <<>> /\ s[1] \in Seq(S)
    BY <1>1, <1>2, <1>3, <1>6
  <2>2. w \o s[1] \in Seq(S)
    BY <1>5, <2>1
  <2>3. (w \o s[1]) \o <<>> = w \o s[1]
    <3>1. \A x \in Seq(S) : x \o <<>> = x
      OBVIOUS
    <3> QED BY <2>2, <3>1, Zenon
  <2>4. PartsOf(s) = s[1] /\ PartsOf(t) = <<>>
    BY <1>6, <2>1, Zenon DEF PartsOf
  <2> QED BY <2>3, <2>4, Zenon DEF t
<1>7. CASE Len(s) = 2
  <2>1. Len(t) = 1 /\ t # <<>> /\ t[1] = s[2] /\ Len(s) # 1
    BY <1>1, <1>3, <1>7
  <2>2. PartsOf(s) = s[1] \o s[2] /\ PartsOf(t) = s[2]
    BY <1>7, <2>1, Zenon DEF PartsOf
  <2>3. s[1] \in Seq(S) /\ s[2] \in Seq(S)
    BY <1>2, <1>7
  <2>4. Regroups(w, s[1], s[2])
    BY <2>3, ConcatRegroups
  <2> QED BY <2>2, <2>4, Zenon DEF t, Regroups
<1>8. CASE Len(s) = 3
  <2>1. Len(t) = 2 /\ Len(t) # 1 /\ t # <<>> /\ t[1] = s[2] /\ t[2] = s[3] /\ Len(s) # 1 /\ Len(s) # 2
    BY <1>1, <1>3, <1>8
  <2>2. PartsOf(s) = s[1] \o (s[2] \o s[3]) /\ PartsOf(t) = s[2] \o s[3]
    BY <2>1, Zenon DEF PartsOf
  <2>3. s[1] \in Seq(S) /\ s[2] \in Seq(S) /\ s[3] \in Seq(S)
    BY <1>2, <1>8
  <2>4. s[2] \o s[3] \in Seq(S)
    BY <1>5, <2>3, Zenon
  <2>5. Regroups(w, s[1], s[2] \o s[3])
    BY <2>3, <2>4, ConcatRegroups
  <2> QED BY <2>2, <2>5, Zenon DEF t, Regroups
<1> QED BY <1>4, <1>6, <1>7, <1>8

LEMMA WsInitSent == WsInit => SentInv
<1> SUFFICES ASSUME WsInit PROVE SentInv
  OBVIOUS
<1>1. sending = <<>> /\ wire = <<>> /\ sent = <<>>
  BY DEF WsInit
<1>2. /\ sent \in Seq(Messages) /\ wire \in Seq(Nat) /\ sending \in Seq(Seq(Nat))
      /\ Len(sending) = 0 /\ Len(sent) = 0
  BY <1>1
<1>3. Ahead = <<>> /\ wire \o Ahead = <<>>
  BY <1>1 DEF Ahead, PartsOf
<1> DEFINE begin == [k \in 0..0 |-> 0]
<1>4. SentLaid(begin, <<>>, sent)
  <2>1. begin \in [0..0 -> Nat] /\ begin[0] = 0
    OBVIOUS
  <2>2. 0..(0-1) = {} /\ <<>> \in Seq(Nat) /\ Len(<<>>) = 0
    OBVIOUS
  <2> HIDE DEF begin
  <2> QED BY <1>1, <1>2, <2>1, <2>2 DEF SentLaid
<1> QED BY <1>2, <1>3, <1>4 DEF SentInv

LEMMA BeginSent ==
  ASSUME SentInv, NEW msg \in Messages, SendBegin(msg) PROVE SentInv'
<1> DEFINE p == <<FIN + TXT>> \o LengthOctets(Len(msg), Half)
           m == <<Mask, Mask, Mask, Mask>>
           x == Masked(msg)
<1>1. /\ sending = <<>> /\ sending' = <<p, m, x>> /\ sent' = Append(sent, msg)
      /\ UNCHANGED <<wire, whole>>
  BY DEF SendBegin
<1>2. /\ sent \in Seq(Messages) /\ wire \in Seq(Nat)
      /\ whole => \E begin : SentLaid(begin, wire \o Ahead, sent)
  BY DEF SentInv
<1>3. p \in Seq(Nat) /\ m \in Seq(Nat) /\ x \in Seq(Nat)
  BY PartsAre, Zenon
<1>4. /\ p \o (m \o x) \in Seq(Nat)
      /\ MessageIn(wire \o (p \o (m \o x)), Len(wire), Len(wire \o (p \o (m \o x))), msg)
  BY <1>2, MessageAdded, Zenon
<1> HIDE DEF p, m, x
<1>5. /\ sending' \in Seq(Seq(Nat)) /\ Len(sending') = 3 /\ sending' # <<>>
      /\ sending'[1] = p /\ sending'[2] = m /\ sending'[3] = x
  BY <1>1, <1>3
<1>6. Ahead' = p \o (m \o x)
  BY <1>5 DEF Ahead, PartsOf
<1>7. wire \o Ahead = wire
  BY <1>1, <1>2 DEF Ahead, PartsOf
<1>8. sent' \in Seq(Messages)
  BY <1>1, <1>2
<1> DEFINE more == p \o (m \o x)
<1>9. whole => \E from : SentLaid(from, wire \o more, sent')
  <2> SUFFICES ASSUME whole PROVE \E from : SentLaid(from, wire \o more, sent')
    OBVIOUS
  <2> HIDE DEF more
  <2>1. PICK begin : SentLaid(begin, wire, sent)
    BY <1>2, <1>7
  <2>2. more \in Seq(Nat) /\ MessageIn(wire \o more, Len(wire), Len(wire \o more), msg)
    BY <1>4 DEF more
  <2>3. \E from : SentLaid(from, wire \o more, Append(sent, msg))
    BY <1>2, <2>1, <2>2, LaidAdded
  <2> QED BY <1>1, <2>3
<1>10. Len(sending') <= 3
  BY <1>5
<1>11. whole' => \E from : SentLaid(from, wire' \o Ahead', sent')
  <2>1. whole' = whole /\ wire' \o Ahead' = wire \o more
    BY <1>1, <1>6
  <2> HIDE DEF more
  <2> QED BY <1>9, <2>1
<1> QED BY <1>1, <1>2, <1>5, <1>8, <1>10, <1>11 DEF SentInv

LEMMA PartSent == ASSUME SentInv, SendPart PROVE SentInv'
<1>1. /\ sent \in Seq(Messages) /\ wire \in Seq(Nat) /\ sending \in Seq(Seq(Nat)) /\ Len(sending) <= 3
      /\ whole => \E begin : SentLaid(begin, wire \o Ahead, sent)
  BY DEF SentInv
<1>2. sending # <<>> /\ sending' = Tail(sending) /\ sent' = sent
  BY DEF SendPart
<1>3. Len(sending) \in Nat /\ Len(sending) # 0 /\ Head(sending) = sending[1] /\ sending[1] \in Seq(Nat)
  <2>1. Len(sending) \in Nat /\ Len(sending) # 0
    BY <1>1, <1>2, LenProperties, EmptySeq
  <2>2. sending[1] \in Seq(Nat)
    BY <1>1, <2>1, ElementOfSeq
  <2> QED BY <1>1, <1>2, <2>1, <2>2
<1> DEFINE x == sending[1]
<1>4. PICK n \in 0..Len(x) : wire' = wire \o SubSeq(x, 1, n) /\ whole' = (whole /\ n = Len(x))
  BY <1>3 DEF SendPart
<1> HIDE DEF x
<1>5. x \in Seq(Nat) /\ Len(x) \in Nat
  BY <1>3, LenProperties DEF x
<1>6. SubSeq(x, 1, n) \in Seq(Nat)
  BY <1>5
<1>7. wire' \in Seq(Nat)
  BY <1>1, <1>4, <1>6, ConcatIs
<1>8. sending' \in Seq(Seq(Nat)) /\ Len(sending') <= 3
  BY <1>1, <1>2, <1>3
<1>9. whole' => \E begin : SentLaid(begin, wire' \o Ahead', sent')
  <2> SUFFICES ASSUME whole' PROVE \E begin : SentLaid(begin, wire' \o Ahead', sent')
    OBVIOUS
  <2>1. whole /\ n = Len(x)
    BY <1>4
  <2>2. SubSeq(x, 1, n) = x
    BY <1>5, <2>1
  <2>3. wire' = wire \o sending[1]
    BY <1>4, <2>2 DEF x
  <2>4. wire' \o Ahead' = wire \o Ahead
    <3>1. wire \o PartsOf(sending) = (wire \o sending[1]) \o PartsOf(Tail(sending))
      BY <1>1, <1>2, PartsStep
    <3> QED BY <1>2, <2>3, <3>1 DEF Ahead
  <2> QED BY <1>1, <1>2, <2>1, <2>4
<1> QED BY <1>1, <1>2, <1>7, <1>8, <1>9 DEF SentInv

LEMMA WsNextSent == ASSUME SentInv, [WsNext]_wsVars PROVE SentInv'
<1>1. CASE SendPart
  BY <1>1, PartSent
<1>2. CASE SendFails
  <2>1. sending' = <<>> /\ whole' = FALSE /\ UNCHANGED <<wire, sent>>
    BY <1>2 DEF SendFails
  <2>2. sending' \in Seq(Seq(Nat)) /\ Len(sending') <= 3
    BY <2>1
  <2> QED BY <2>1, <2>2 DEF SentInv
<1>3. CASE \E msg \in Messages : SendBegin(msg)
  BY <1>3, BeginSent
<1>4. CASE \/ WsConn \/ WsClose \/ RecvBegin \/ RecvOpcode \/ RecvLength \/ RecvOctets \/ RecvSkip
           \/ RecvAllocate \/ RecvPayload \/ RecvDone \/ UNCHANGED wsVars
  <2>1. UNCHANGED <<sending, wire, sent, whole>>
    BY <1>4 DEF WsConn, WsClose, RecvBegin, RecvOpcode, RecvLength, RecvOctets, RecvSkip,
                RecvAllocate, RecvPayload, RecvDone, wsVars, sendVars
  <2> QED BY <2>1 DEF SentInv, Ahead
<1> QED BY <1>1, <1>2, <1>3, <1>4 DEF WsNext

\* A peer reads the message that lies at a place, and finds the place behind it.
LEMMA MessageAtIs ==
  ASSUME NEW bytes \in Seq(Nat), NEW start, NEW behind, NEW msg \in Messages,
         MessageIn(bytes, start, behind, msg)
  PROVE  MessageAt(bytes, start + 1) = [msg |-> msg, behind |-> behind + 1]
<1> DEFINE At(p) == IF p <= Len(bytes) THEN bytes[p] ELSE 0
           i == start + 1
           code == At(i + 1) % Half
           extra == IF code = Octets2 THEN 2 ELSE IF code = Octets8 THEN 8 ELSE 0
           Eq(u) == u = [n \in 0..extra |-> IF n = 0 THEN 0 ELSE u[n-1] * OctetSize + At(i + 1 + n)]
           number == CHOOSE u : Eq(u)
           l == IF extra = 0 THEN code ELSE number[extra]
           masks == i + 2 + extra
<1>1. MessageAt(bytes, start + 1) =
        [msg |-> [j \in 1..l |-> XorOctets(At(masks + 3 + j), At(masks + ((j - 1) % 4)))],
         behind |-> masks + 4 + l]
  BY Zenon DEF MessageAt
<1> DEFINE len == Len(msg)
           e == Extra(len)
<1>2. /\ start \in Nat /\ behind = start + 6 + e + len /\ behind <= Len(bytes)
      /\ bytes[start + 2] = Half + Code(len)
      /\ \A n \in 1..e : bytes[start + 2 + n] = (len \div Place[e - n]) % OctetSize
      /\ \A j \in 1..4 : bytes[start + 2 + e + j] = Mask
      /\ \A j \in 1..len : bytes[start + 6 + e + j] = XorOctets(msg[j], Mask)
  BY Zenon DEF MessageIn
<1>3. len \in Nat /\ e \in {0, 2, 8} /\ e \in Nat /\ Code(len) \in 0..(Half - 1)
  BY MessagesTyped
<1>4. Len(bytes) \in Nat
  BY LenProperties
<1>5. /\ e = 0 => Code(len) = len /\ len < Octets2
      /\ e = 2 => Code(len) = Octets2
      /\ e = 8 => Code(len) = Octets8
      /\ e # 0 => len < Place[e]
  BY <1>3, ExtraIs, MessagesTyped
<1> HIDE DEF At, extra, number, l, masks, len, e, code
<1>6. code = Code(len)
  <2>1. i + 1 = start + 2 /\ start + 2 <= Len(bytes)
    BY <1>2, <1>3, <1>4
  <2>2. At(i + 1) = Half + Code(len)
    BY <1>2, <2>1 DEF At
  <2>3. \A c \in 0..(Half-1) : (Half + c) % Half = c
    BY HalfIs
  <2> QED BY <1>3, <2>2, <2>3 DEF code
<1>7. extra = e
  <2>1. Octets2 # Octets8 /\ Octets2 \in Nat /\ Octets8 \in Nat /\ Octets8 = Octets2 + 1
    BY HalfIs
  <2>2. e = 0 \/ e = 2 \/ e = 8
    BY <1>3
  <2> QED BY <1>3, <1>5, <1>6, <2>1, <2>2 DEF extra
<1>8. \A n \in 1..e : At(i + 1 + n) = (len \div Place[e - n]) % OctetSize
  <2> TAKE n \in 1..e
  <2>1. i + 1 + n = start + 2 + n /\ start + 2 + n <= Len(bytes)
    BY <1>2, <1>3, <1>4
  <2>2. At(i + 1 + n) = bytes[start + 2 + n]
    BY <2>1 DEF At
  <2> QED BY <1>2, <2>2
<1>9. l = len
  <2>1. CASE e = 0
    BY <1>5, <1>6, <1>7, <2>1 DEF l
  <2>2. CASE e # 0
    <3> DEFINE w == [n \in 0..e |-> len \div Place[e - n]]
    <3>1. \A n \in 1..e : (len \div Place[e - (n-1)]) * OctetSize + At(i + 1 + n) = len \div Place[e - n]
      <4> TAKE n \in 1..e
      <4>1. e - (n-1) \in 1..8 /\ (e - (n-1)) - 1 = e - n
        BY <1>3
      <4>2. (len \div Place[e - (n-1)]) * OctetSize + ((len \div Place[(e - (n-1)) - 1]) % OctetSize)
              = len \div Place[(e - (n-1)) - 1]
        BY <1>3, <4>1, NumberStep
      <4> QED BY <1>8, <4>1, <4>2
    <3>2. len \div Place[e] = 0 /\ len \div Place[0] = len
      <4>1. e \in 0..8
        BY <1>3
      <4> QED BY <1>3, <1>5, <2>2, <4>1, NumberEnds
    <3>3. w = [n \in 0..e |-> IF n = 0 THEN 0 ELSE w[n-1] * OctetSize + At(i + 1 + n)]
      <4> SUFFICES ASSUME NEW n \in 0..e
                   PROVE  len \div Place[e - n] = IF n = 0 THEN 0 ELSE w[n-1] * OctetSize + At(i + 1 + n)
        BY Zenon
      <4>1. CASE n = 0
        BY <1>3, <3>2, <4>1
      <4>2. CASE n # 0
        <5>1. n \in 1..e /\ n-1 \in 0..e
          BY <1>3, <4>2
        <5>2. w[n-1] = len \div Place[e - (n-1)]
          BY <5>1
        <5> HIDE DEF w
        <5> QED BY <3>1, <4>2, <5>1, <5>2
      <4> QED BY <4>1, <4>2
    <3>4. Eq(w)
      BY <1>7, <3>3, Zenon
    <3>5. Eq(number)
      <4> HIDE DEF Eq, w
      <4> QED BY <3>4 DEF number
    <3>6. \A n \in 0..e : number[n] = IF n = 0 THEN 0 ELSE number[n-1] * OctetSize + At(i + 1 + n)
      BY <1>7, <3>5, Zenon
    <3> DEFINE Good == {n \in 0..e : number[n] = len \div Place[e - n]}
    <3>7. 0 \in Good
      BY <1>3, <3>2, <3>6
    <3>8. \A n \in 0..e-1 : n \in Good => n+1 \in Good
      <4> SUFFICES ASSUME NEW n \in 0..e-1, n \in Good PROVE n+1 \in Good
        OBVIOUS
      <4>1. n+1 \in 0..e /\ n+1 \in 1..e /\ n+1 # 0 /\ (n+1)-1 = n
        BY <1>3
      <4>2. number[n+1] = number[n] * OctetSize + At(i + 1 + (n+1))
        BY <3>6, <4>1
      <4>3. number[n] = len \div Place[e - n]
        OBVIOUS
      <4>4. (len \div Place[e - n]) * OctetSize + At(i + 1 + (n+1)) = len \div Place[e - (n+1)]
        BY <3>1, <4>1
      <4> QED BY <4>1, <4>2, <4>3, <4>4
    <3>9. e \in Good
      <4> HIDE DEF Good
      <4>1. e \in 0..e
        BY <1>3
      <4> QED BY <1>3, <3>7, <3>8, <4>1, Upwards
    <3>10. number[e] = len
      <4>1. e - e = 0
        BY <1>3
      <4> QED BY <3>2, <3>9, <4>1
    <3> QED BY <1>7, <2>2, <3>10 DEF l
  <2> QED BY <2>1, <2>2
<1>10. masks = start + 3 + e
  BY <1>2, <1>3, <1>7 DEF masks
<1>11. masks + 4 + l = behind + 1
  BY <1>2, <1>3, <1>9, <1>10
<1>12. \A j \in 1..len : XorOctets(At(masks + 3 + j), At(masks + ((j - 1) % 4))) = msg[j]
  <2> TAKE j \in 1..len
  <2>1. (j - 1) % 4 \in 0..3
    BY <1>3
  <2>2. PICK r \in 0..3 : r = (j - 1) % 4
    BY <2>1
  <2>3. /\ masks + 3 + j = start + 6 + e + j /\ start + 6 + e + j <= Len(bytes)
        /\ r + 1 \in 1..4 /\ masks + r = start + 2 + e + (r + 1) /\ masks + r <= Len(bytes)
    <3>1. start \in Nat /\ behind = start + 6 + e + len /\ behind <= Len(bytes)
      BY <1>2
    <3>2. len \in Nat /\ e \in Nat
      BY <1>3
    <3> QED BY <1>4, <1>10, <3>1, <3>2
  <2>4. At(masks + 3 + j) = XorOctets(msg[j], Mask)
    BY <1>2, <2>3 DEF At
  <2>5. At(masks + r) = Mask
    BY <1>2, <2>3 DEF At
  <2>6. msg[j] \in Octet
    BY MessagesTyped DEF len
  <2> QED BY <2>2, <2>4, <2>5, <2>6, MaskIs, XorAssumption
<1>13. [j \in 1..l |-> XorOctets(At(masks + 3 + j), At(masks + ((j - 1) % 4)))] = msg
  <2>1. msg = [j \in 1..len |-> msg[j]]
    <3>1. msg \in Seq(Octet)
      BY MessagesTyped
    <3> QED BY <3>1, LenProperties DEF len
  <2> QED BY <1>9, <1>12, <2>1
<1> QED BY <1>1, <1>11, <1>13

\* Octets that are the frames of the messages are read as those messages.
LEMMA ParsedIs ==
  ASSUME NEW bytes, NEW msgs \in Seq(Messages), NEW begin, SentLaid(begin, bytes, msgs)
  PROVE  Parsed(bytes) = msgs
<1> DEFINE N == Len(msgs)
           L == Len(bytes)
           Eq(u) == u = [n \in 0..L |->
                          IF n = 0 THEN [place |-> 1, msgs |-> <<>>]
                          ELSE IF u[n-1].place > L THEN u[n-1]
                               ELSE [place |-> MessageAt(bytes, u[n-1].place).behind,
                                     msgs |-> Append(u[n-1].msgs, MessageAt(bytes, u[n-1].place).msg)]]
           read == CHOOSE u : Eq(u)
<1>1. Parsed(bytes) = read[L].msgs
  BY Zenon DEF Parsed
<1>2. /\ bytes \in Seq(Nat) /\ N <= L
      /\ begin \in [0..N -> Nat] /\ begin[0] = 0 /\ begin[N] = L
      /\ \A k \in 0..N-1 : MessageIn(bytes, begin[k], begin[k+1], msgs[k+1])
  BY DEF SentLaid
<1>3. N \in Nat /\ L \in Nat
  BY <1>2, LenProperties
<1> HIDE DEF N, L
<1>4. \A k \in 0..N-1 : /\ k \in 0..N /\ k+1 \in 0..N /\ begin[k] + 1 <= L
                        /\ MessageAt(bytes, begin[k] + 1) = [msg |-> msgs[k+1], behind |-> begin[k+1] + 1]
  <2> TAKE k \in 0..N-1
  <2>1. k \in 0..N /\ k+1 \in 0..N /\ k+1 \in 1..N
    BY <1>3
  <2>2. msgs[k+1] \in Messages
    BY <2>1, ElementOfSeq DEF N
  <2>3. MessageIn(bytes, begin[k], begin[k+1], msgs[k+1])
    BY <1>2
  <2>4. MessageAt(bytes, begin[k] + 1) = [msg |-> msgs[k+1], behind |-> begin[k+1] + 1]
    BY <1>2, <2>2, <2>3, MessageAtIs
  <2>5. begin[k] + 1 <= L
    <3> DEFINE len == Len(msgs[k+1])
               e == Extra(len)
    <3>1. begin[k+1] = begin[k] + 6 + e + len /\ begin[k+1] <= L
      BY <2>3, Zenon DEF MessageIn, L
    <3>2. len \in Nat /\ e \in {0, 2, 8} /\ begin[k] \in Nat
      BY <1>2, <2>1, <2>2, MessagesTyped
    <3> HIDE DEF len, e
    <3> QED BY <1>3, <3>1, <3>2
  <2> QED BY <2>1, <2>4, <2>5
\* After n turns n messages are read; when all are read the turns change nothing.
<1> DEFINE turn(n) == IF n <= N THEN n ELSE N
           w == [n \in 0..L |-> [place |-> begin[turn(n)] + 1, msgs |-> SubSeq(msgs, 1, turn(n))]]
<1>5. w[0] = [place |-> 1, msgs |-> <<>>] /\ w[L].msgs = msgs
  <2>1. 0 \in 0..L /\ L \in 0..L /\ turn(0) = 0
    BY <1>3
  <2>2. turn(L) = N
    BY <1>2, <1>3
  <2>3. SubSeq(msgs, 1, 0) = <<>> /\ SubSeq(msgs, 1, N) = msgs
    BY DEF N
  <2> HIDE DEF turn
  <2>4. /\ w[0] = [place |-> begin[0] + 1, msgs |-> SubSeq(msgs, 1, 0)]
        /\ w[L] = [place |-> begin[N] + 1, msgs |-> SubSeq(msgs, 1, N)]
    BY <2>1, <2>2
  <2> HIDE DEF w
  <2>5. begin[0] + 1 = 1
    BY <1>2
  <2>6. w[0] = [place |-> 1, msgs |-> <<>>]
    BY <2>3, <2>4, <2>5, Zenon
  <2>7. w[L].msgs = SubSeq(msgs, 1, N)
    <3>1. \A a, b : [place |-> a, msgs |-> b].msgs = b
      OBVIOUS
    <3> QED BY <2>4, <3>1, Zenon
  <2> QED BY <2>3, <2>6, <2>7, Zenon
<1>6. ASSUME NEW n \in 1..L
      PROVE  w[n] = IF w[n-1].place > L THEN w[n-1]
                    ELSE [place |-> MessageAt(bytes, w[n-1].place).behind,
                          msgs |-> Append(w[n-1].msgs, MessageAt(bytes, w[n-1].place).msg)]
  <2>1. n \in 0..L /\ n-1 \in 0..L
    BY <1>3
  <2>2. /\ w[n] = [place |-> begin[turn(n)] + 1, msgs |-> SubSeq(msgs, 1, turn(n))]
        /\ w[n-1] = [place |-> begin[turn(n-1)] + 1, msgs |-> SubSeq(msgs, 1, turn(n-1))]
    <3> HIDE DEF turn
    <3> QED BY <2>1
  <2> HIDE DEF w
  <2>3. CASE n <= N
    <3>1. turn(n) = n /\ turn(n-1) = n-1 /\ n-1 \in 0..N-1 /\ (n-1)+1 = n /\ n \in 1..N
      BY <1>3, <2>3
    <3> HIDE DEF turn
    <3>2. /\ begin[n-1] + 1 <= L
          /\ MessageAt(bytes, begin[n-1] + 1) = [msg |-> msgs[n], behind |-> begin[n] + 1]
          /\ begin[n-1] \in Nat
      BY <1>2, <1>4, <3>1
    <3>3. w[n-1].place = begin[n-1] + 1 /\ w[n-1].msgs = SubSeq(msgs, 1, n-1)
      BY <2>2, <3>1
    <3>4. ~(w[n-1].place > L)
      BY <1>3, <3>2, <3>3
    <3>5. Append(SubSeq(msgs, 1, n-1), msgs[n]) = SubSeq(msgs, 1, n)
      <4>1. n-1 \in Nat /\ n \in 1..Len(msgs) /\ Len(msgs) \in Nat
        BY <1>3, <3>1 DEF N
      <4> QED BY <4>1
    <3>6. MessageAt(bytes, w[n-1].place) = [msg |-> msgs[n], behind |-> begin[n] + 1]
      BY <3>2, <3>3, Zenon
    <3>7. w[n] = [place |-> begin[n] + 1, msgs |-> Append(w[n-1].msgs, msgs[n])]
      BY <2>2, <3>1, <3>3, <3>5, Zenon
    <3>8. [msg |-> msgs[n], behind |-> begin[n] + 1].behind = begin[n] + 1
      OBVIOUS
    <3>9. [msg |-> msgs[n], behind |-> begin[n] + 1].msg = msgs[n]
      OBVIOUS
    <3> QED BY <3>4, <3>6, <3>7, <3>8, <3>9, Zenon
  <2>4. CASE ~(n <= N)
    <3>1. turn(n) = N /\ turn(n-1) = N
      BY <1>3, <2>4
    <3> HIDE DEF turn
    <3>2. w[n] = w[n-1]
      BY <2>2, <3>1
    <3>3. w[n-1].place = L + 1
      BY <1>2, <2>2, <3>1
    <3> QED BY <1>3, <3>2, <3>3
  <2> QED BY <2>3, <2>4
<1>7. Eq(w)
  <2>1. \A n \in 0..L : n # 0 => n \in 1..L
    BY <1>3
  <2>2. \A n \in 0..L : w[n] = IF n = 0 THEN [place |-> 1, msgs |-> <<>>]
                          ELSE IF w[n-1].place > L THEN w[n-1]
                               ELSE [place |-> MessageAt(bytes, w[n-1].place).behind,
                                     msgs |-> Append(w[n-1].msgs, MessageAt(bytes, w[n-1].place).msg)]
    <3> HIDE DEF w
    <3> QED BY <1>5, <1>6, <2>1, Zenon
  <2>3. w = [n \in 0..L |-> w[n]]
    OBVIOUS
  <2> HIDE DEF w
  <2> QED BY <2>2, <2>3, Zenon
<1>8. Eq(read)
  <2> HIDE DEF w, Eq
  <2> QED BY <1>7
<1>9. \A n \in 0..L : read[n] = IF n = 0 THEN [place |-> 1, msgs |-> <<>>]
                          ELSE IF read[n-1].place > L THEN read[n-1]
                               ELSE [place |-> MessageAt(bytes, read[n-1].place).behind,
                                     msgs |-> Append(read[n-1].msgs, MessageAt(bytes, read[n-1].place).msg)]
  <2> HIDE DEF read
  <2> QED BY <1>8, Zenon
<1> HIDE DEF w, read
<1> DEFINE Good == {n \in 0..L : read[n] = w[n]}
<1>10. 0 \in Good
  <2>1. 0 \in 0..L
    BY <1>3
  <2>2. read[0] = w[0]
    BY <1>5, <1>9, <2>1, Zenon
  <2> QED BY <2>1, <2>2
<1>11. \A n \in 0..L-1 : n \in Good => n+1 \in Good
  <2> SUFFICES ASSUME NEW n \in 0..L-1, n \in Good PROVE n+1 \in Good
    OBVIOUS
  <2>1. n+1 \in 0..L /\ n+1 \in 1..L /\ n+1 # 0 /\ (n+1)-1 = n /\ read[n] = w[n]
    BY <1>3
  <2>2. read[n+1] = IF read[n].place > L THEN read[n]
                    ELSE [place |-> MessageAt(bytes, read[n].place).behind,
                          msgs |-> Append(read[n].msgs, MessageAt(bytes, read[n].place).msg)]
    BY <1>9, <2>1, Zenon
  <2>3. w[n+1] = IF w[n].place > L THEN w[n]
                 ELSE [place |-> MessageAt(bytes, w[n].place).behind,
                       msgs |-> Append(w[n].msgs, MessageAt(bytes, w[n].place).msg)]
    BY <1>6, <2>1, Zenon
  <2> QED BY <2>1, <2>2, <2>3, Zenon
<1>12. L \in Good
  <2> HIDE DEF Good
  <2>1. L \in 0..L
    BY <1>3
  <2> QED BY <1>3, <1>10, <1>11, <2>1, Upwards
<1> QED BY <1>1, <1>5, <1>12

\* What gfc_ws_send writes, when each send takes all it is given, a peer reads as the messages.
THEOREM SentFramesParseCorrect == WsSpec => []SentFramesParse
<1>1. WsInit => SentInv
  BY WsInitSent
<1>2. SentInv /\ [WsNext]_wsVars => SentInv'
  BY WsNextSent
<1>3. SentInv => SentFramesParse
  <2> SUFFICES ASSUME SentInv, whole, sending = <<>> PROVE Parsed(wire) = sent
    BY DEF SentFramesParse
  <2>1. wire \in Seq(Nat) /\ sent \in Seq(Messages) /\ \E begin : SentLaid(begin, wire \o Ahead, sent)
    BY DEF SentInv
  <2>2. wire \o Ahead = wire
    BY <2>1 DEF Ahead, PartsOf
  <2> QED BY <2>1, <2>2, ParsedIs
<1> QED BY <1>1, <1>2, <1>3, PTL DEF WsSpec

-----------------------------------------------------------------------------
\* Trees.
\* Nodes over trees of a set.
NodesOn(S) == [data : TreeData, left : S, right : S, height : Int]

LEMMA TreesOfIs ==
  /\ TreesOf[0] = {Leaf}
  /\ \A n \in 0..MaxLevels-1 : TreesOf[n+1] = {Leaf} \cup NodesOn(TreesOf[n])
<1> DEFINE Body(f, i) == IF i = 0 THEN {Leaf} ELSE {Leaf} \cup NodesOn(f[i-1])
           UpTo(f, n) == f = [i \in 0..n |-> Body(f, i)]
           Levels == {n \in 0..MaxLevels : \E f : UpTo(f, n)}
<1>1. MaxLevels \in Nat
  BY TreeLevels
<1>2. 0 \in Levels
  <2>1. UpTo([i \in 0..0 |-> {Leaf}], 0)
    OBVIOUS
  <2> HIDE DEF UpTo
  <2> QED BY <1>1, <2>1
<1>3. ASSUME NEW n \in 0..MaxLevels-1, n \in Levels PROVE n+1 \in Levels
  <2>1. PICK f : UpTo(f, n)
    BY <1>3
  <2> DEFINE g == [i \in 0..n+1 |-> Body(f, i)]
  <2>2. \A i \in 0..n : g[i] = f[i]
    <3>1. \A i \in 0..n : i \in 0..n+1
      OBVIOUS
    <3>2. \A i \in 0..n : f[i] = Body(f, i)
      BY <2>1, Zenon
    <3> HIDE DEF Body
    <3> QED BY <3>1, <3>2
  <2>3. \A i \in 0..n+1 : Body(f, i) = Body(g, i)
    <3> HIDE DEF g
    <3>1. \A i \in 0..n+1 : i # 0 => i-1 \in 0..n
      OBVIOUS
    <3>2. \A i \in 0..n+1 : i # 0 => f[i-1] = g[i-1]
      BY <2>2, <3>1
    <3> QED BY <3>2
  <2>4. UpTo(g, n+1)
    <3> HIDE DEF Body
    <3> QED BY <2>3
  <2> HIDE DEF g, UpTo
  <2>5. n+1 \in 0..MaxLevels
    BY <1>1
  <2> QED BY <2>4, <2>5
<1> HIDE DEF Levels
<1>4. MaxLevels \in Levels
  BY <1>1, <1>2, <1>3, Upwards
<1>5. PICK f : UpTo(f, MaxLevels)
  <2> HIDE DEF UpTo
  <2> QED BY <1>4 DEF Levels
<1>6. UpTo(TreesOf, MaxLevels)
  <2> HIDE DEF UpTo
  <2>1. TreesOf = CHOOSE h : UpTo(h, MaxLevels)
    BY Zenon DEF TreesOf, UpTo, NodesOn
  <2> QED BY <1>5, <2>1, Zenon
<1>7. \A i \in 0..MaxLevels : TreesOf[i] = Body(TreesOf, i)
  BY <1>6, Zenon
<1>8. 0 \in 0..MaxLevels
  BY <1>1
<1>9. \A n \in 0..MaxLevels-1 : n+1 \in 0..MaxLevels /\ n+1 # 0 /\ (n+1)-1 = n
  BY <1>1
<1> QED BY <1>7, <1>8, <1>9

\* A tree is one of more levels too.
LEMMA TreesGrow ==
  /\ \A m, n \in 0..MaxLevels : m <= n => TreesOf[m] \subseteq TreesOf[n]
  /\ \A n \in 0..MaxLevels : TreesOf[n] \subseteq Trees /\ Leaf \in TreesOf[n]
<1>1. MaxLevels \in Nat
  BY TreeLevels
<1>2. \A n \in 0..MaxLevels : Leaf \in TreesOf[n]
  <2>1. \A n \in 0..MaxLevels : n = 0 \/ (n-1 \in 0..MaxLevels-1 /\ (n-1)+1 = n)
    BY <1>1
  <2> QED BY <2>1, TreesOfIs
<1>3. \A n \in 0..MaxLevels-1 : TreesOf[n] \subseteq TreesOf[n+1]
  <2> DEFINE S == {n \in 0..MaxLevels-1 : TreesOf[n] \subseteq TreesOf[n+1]}
  <2> SUFFICES ASSUME MaxLevels # 0 PROVE \A n \in 0..MaxLevels-1 : n \in S
    BY <1>1
  <2>1. MaxLevels-1 \in Nat /\ 0 \in 0..MaxLevels-1
    BY <1>1
  <2>2. 0 \in S
    BY <2>1, TreesOfIs
  <2>3. ASSUME NEW n \in 0..(MaxLevels-1)-1, n \in S PROVE n+1 \in S
    <3>1. n \in 0..MaxLevels-1 /\ n+1 \in 0..MaxLevels-1
      BY <1>1
    <3>2. NodesOn(TreesOf[n]) \subseteq NodesOn(TreesOf[n+1])
      BY <2>3 DEF NodesOn
    <3> QED BY <3>1, <3>2, TreesOfIs
  <2> HIDE DEF S
  <2> QED BY <2>1, <2>2, <2>3, Upwards
<1>4. ASSUME NEW m \in 0..MaxLevels PROVE \A n \in 0..MaxLevels : m <= n => TreesOf[m] \subseteq TreesOf[n]
  <2> DEFINE S == {k \in 0..MaxLevels-m : TreesOf[m] \subseteq TreesOf[m+k]}
  <2>1. MaxLevels-m \in Nat /\ m+0 = m
    BY <1>1
  <2>2. 0 \in S
    BY <2>1
  <2>3. ASSUME NEW k \in 0..(MaxLevels-m)-1, k \in S PROVE k+1 \in S
    <3>1. m+k \in 0..MaxLevels-1 /\ m+(k+1) = (m+k)+1 /\ k+1 \in 0..MaxLevels-m
      BY <1>1
    <3> QED BY <1>3, <2>3, <3>1
  <2>4. \A k \in 0..MaxLevels-m : k \in S
    <3> HIDE DEF S
    <3> QED BY <2>1, <2>2, <2>3, Upwards
  <2>5. \A n \in 0..MaxLevels : m <= n => n-m \in 0..MaxLevels-m /\ m+(n-m) = n
    BY <1>1
  <2> QED BY <2>4, <2>5
<1>5. MaxLevels \in 0..MaxLevels /\ \A n \in 0..MaxLevels : n <= MaxLevels
  BY <1>1
<1> QED BY <1>2, <1>4, <1>5 DEF Trees

\* What a node has.
LEMMA NodeIs ==
  /\ \A n \in 0..MaxLevels-1 : \A t \in TreesOf[n+1] \ {Leaf} :
       t.left \in TreesOf[n] /\ t.right \in TreesOf[n]
  /\ \A t \in Trees \ {Leaf} :
       /\ t.left \in Trees /\ t.right \in Trees /\ t.data \in TreeData
       /\ t = [data |-> t.data, left |-> t.left, right |-> t.right, height |-> t.height]
<1>1. MaxLevels \in Nat
  BY TreeLevels
<1>2. \A n \in 0..MaxLevels-1 : \A t \in TreesOf[n+1] \ {Leaf} : t \in NodesOn(TreesOf[n])
  BY TreesOfIs
<1>3. \A n \in 0..MaxLevels-1 : \A t \in TreesOf[n+1] \ {Leaf} :
       t.left \in TreesOf[n] /\ t.right \in TreesOf[n]
  BY <1>2 DEF NodesOn
<1>4. ASSUME NEW t \in Trees \ {Leaf}
      PROVE  /\ t.left \in Trees /\ t.right \in Trees /\ t.data \in TreeData
             /\ t = [data |-> t.data, left |-> t.left, right |-> t.right, height |-> t.height]
  <2>1. MaxLevels # 0
    BY TreesOfIs DEF Trees
  <2>2. MaxLevels-1 \in 0..MaxLevels-1 /\ MaxLevels-1 \in 0..MaxLevels /\ (MaxLevels-1)+1 = MaxLevels
    BY <1>1, <2>1
  <2>3. t \in NodesOn(TreesOf[MaxLevels-1])
    BY <1>2, <2>2 DEF Trees
  <2>4. TreesOf[MaxLevels-1] \subseteq Trees
    BY <2>2, TreesGrow
  <2> QED BY <2>3, <2>4 DEF NodesOn
<1> QED BY <1>3, <1>4

\* What one call of the insertion makes of a tree, the calls for its subtrees being f.
InsertedIn(f, t) == [d \in TreeData |->
  IF t = Leaf THEN Node2(Leaf, d, Leaf)
  ELSE IF d < t.data THEN Rebalanced(Node2(f[t.left][d], t.data, t.right), d)
  ELSE IF d > t.data THEN Rebalanced(Node2(t.left, t.data, f[t.right][d]), d)
  ELSE t]

LEMMA InsertedIs == \A t \in Trees : Inserted[t] = InsertedIn(Inserted, t)
<1> DEFINE UpTo(f, n) == f = [t \in TreesOf[n] |-> InsertedIn(f, t)]
           Levels == {n \in 0..MaxLevels : \E f : UpTo(f, n)}
<1>1. MaxLevels \in Nat
  BY TreeLevels
<1>2. 0 \in Levels
  <2>1. \A t \in TreesOf[0] : t = Leaf
    BY TreesOfIs
  <2>2. \A t \in TreesOf[0] : \A f, g : InsertedIn(f, t) = InsertedIn(g, t)
    BY <2>1 DEF InsertedIn
  <2>3. UpTo([t \in TreesOf[0] |-> InsertedIn(<<>>, t)], 0)
    BY <2>2, Zenon
  <2> HIDE DEF UpTo
  <2> QED BY <1>1, <2>3
<1>3. ASSUME NEW n \in 0..MaxLevels-1, n \in Levels PROVE n+1 \in Levels
  <2>1. PICK f : UpTo(f, n)
    BY <1>3
  <2>2. n \in 0..MaxLevels /\ n+1 \in 0..MaxLevels /\ n <= n+1
    BY <1>1
  <2>3. TreesOf[n] \subseteq TreesOf[n+1]
    BY <2>2, TreesGrow
  <2> DEFINE g == [t \in TreesOf[n+1] |-> InsertedIn(f, t)]
  <2>4. \A t \in TreesOf[n] : g[t] = f[t]
    BY <2>1, <2>3, Zenon
  <2> HIDE DEF g
  <2>5. \A t \in TreesOf[n+1] : t # Leaf => g[t.left] = f[t.left] /\ g[t.right] = f[t.right]
    BY <2>4, NodeIs
  <2>6. \A t \in TreesOf[n+1] : InsertedIn(f, t) = InsertedIn(g, t)
    BY <2>5 DEF InsertedIn
  <2>7. UpTo(g, n+1)
    BY <2>6, Zenon DEF g
  <2> HIDE DEF UpTo
  <2> QED BY <2>2, <2>7
<1> HIDE DEF Levels
<1>4. MaxLevels \in Levels
  BY <1>1, <1>2, <1>3, Upwards
<1>5. PICK f : UpTo(f, MaxLevels)
  <2> HIDE DEF UpTo
  <2> QED BY <1>4 DEF Levels
<1>6. UpTo(Inserted, MaxLevels)
  <2>1. Inserted = CHOOSE h : UpTo(h, MaxLevels)
    BY Zenon DEF Inserted, UpTo, InsertedIn, Trees
  <2> HIDE DEF UpTo
  <2> QED BY <1>5, <2>1, Zenon
<1> QED BY <1>6, Zenon DEF Trees

\* And of the traversal.
TransverseIn(f, t) == IF t = Leaf THEN <<>> ELSE f[t.left] \o <<t.data>> \o f[t.right]

LEMMA TransverseIs == \A t \in Trees : Transverse[t] = TransverseIn(Transverse, t)
<1> DEFINE UpTo(f, n) == f = [t \in TreesOf[n] |-> TransverseIn(f, t)]
           Levels == {n \in 0..MaxLevels : \E f : UpTo(f, n)}
<1>1. MaxLevels \in Nat
  BY TreeLevels
<1>2. 0 \in Levels
  <2>1. \A t \in TreesOf[0] : t = Leaf
    BY TreesOfIs
  <2>2. \A t \in TreesOf[0] : \A f, g : TransverseIn(f, t) = TransverseIn(g, t)
    BY <2>1 DEF TransverseIn
  <2>3. UpTo([t \in TreesOf[0] |-> TransverseIn(<<>>, t)], 0)
    BY <2>2, Zenon
  <2> HIDE DEF UpTo
  <2> QED BY <1>1, <2>3
<1>3. ASSUME NEW n \in 0..MaxLevels-1, n \in Levels PROVE n+1 \in Levels
  <2>1. PICK f : UpTo(f, n)
    BY <1>3
  <2>2. n \in 0..MaxLevels /\ n+1 \in 0..MaxLevels /\ n <= n+1
    BY <1>1
  <2>3. TreesOf[n] \subseteq TreesOf[n+1]
    BY <2>2, TreesGrow
  <2> DEFINE g == [t \in TreesOf[n+1] |-> TransverseIn(f, t)]
  <2>4. \A t \in TreesOf[n] : g[t] = f[t]
    BY <2>1, <2>3, Zenon
  <2> HIDE DEF g
  <2>5. \A t \in TreesOf[n+1] : t # Leaf => g[t.left] = f[t.left] /\ g[t.right] = f[t.right]
    BY <2>4, NodeIs
  <2>6. \A t \in TreesOf[n+1] : TransverseIn(f, t) = TransverseIn(g, t)
    BY <2>5 DEF TransverseIn
  <2>7. UpTo(g, n+1)
    BY <2>6, Zenon DEF g
  <2> HIDE DEF UpTo
  <2> QED BY <2>2, <2>7
<1> HIDE DEF Levels
<1>4. MaxLevels \in Levels
  BY <1>1, <1>2, <1>3, Upwards
<1>5. PICK f : UpTo(f, MaxLevels)
  <2> HIDE DEF UpTo
  <2> QED BY <1>4 DEF Levels
<1>6. UpTo(Transverse, MaxLevels)
  <2>1. Transverse = CHOOSE h : UpTo(h, MaxLevels)
    BY Zenon DEF Transverse, UpTo, TransverseIn, Trees
  <2> HIDE DEF UpTo
  <2> QED BY <1>5, <2>1, Zenon
<1> QED BY <1>6, Zenon DEF Trees

\* And of the set of subtrees.
SubtreesIn(f, t) == IF t = Leaf THEN {} ELSE {t} \cup f[t.left] \cup f[t.right]

LEMMA SubtreesIs == \A t \in Trees : Subtrees[t] = SubtreesIn(Subtrees, t)
<1> DEFINE UpTo(f, n) == f = [t \in TreesOf[n] |-> SubtreesIn(f, t)]
           Levels == {n \in 0..MaxLevels : \E f : UpTo(f, n)}
<1>1. MaxLevels \in Nat
  BY TreeLevels
<1>2. 0 \in Levels
  <2>1. \A t \in TreesOf[0] : t = Leaf
    BY TreesOfIs
  <2>2. \A t \in TreesOf[0] : \A f, g : SubtreesIn(f, t) = SubtreesIn(g, t)
    BY <2>1 DEF SubtreesIn
  <2>3. UpTo([t \in TreesOf[0] |-> SubtreesIn(<<>>, t)], 0)
    BY <2>2, Zenon
  <2> HIDE DEF UpTo
  <2> QED BY <1>1, <2>3
<1>3. ASSUME NEW n \in 0..MaxLevels-1, n \in Levels PROVE n+1 \in Levels
  <2>1. PICK f : UpTo(f, n)
    BY <1>3
  <2>2. n \in 0..MaxLevels /\ n+1 \in 0..MaxLevels /\ n <= n+1
    BY <1>1
  <2>3. TreesOf[n] \subseteq TreesOf[n+1]
    BY <2>2, TreesGrow
  <2> DEFINE g == [t \in TreesOf[n+1] |-> SubtreesIn(f, t)]
  <2>4. \A t \in TreesOf[n] : g[t] = f[t]
    BY <2>1, <2>3, Zenon
  <2> HIDE DEF g
  <2>5. \A t \in TreesOf[n+1] : t # Leaf => g[t.left] = f[t.left] /\ g[t.right] = f[t.right]
    BY <2>4, NodeIs
  <2>6. \A t \in TreesOf[n+1] : SubtreesIn(f, t) = SubtreesIn(g, t)
    BY <2>5 DEF SubtreesIn
  <2>7. UpTo(g, n+1)
    BY <2>6, Zenon DEF g
  <2> HIDE DEF UpTo
  <2> QED BY <2>2, <2>7
<1> HIDE DEF Levels
<1>4. MaxLevels \in Levels
  BY <1>1, <1>2, <1>3, Upwards
<1>5. PICK f : UpTo(f, MaxLevels)
  <2> HIDE DEF UpTo
  <2> QED BY <1>4 DEF Levels
<1>6. UpTo(Subtrees, MaxLevels)
  <2>1. Subtrees = CHOOSE h : UpTo(h, MaxLevels)
    BY Zenon DEF Subtrees, UpTo, SubtreesIn, Trees
  <2> HIDE DEF UpTo
  <2> QED BY <1>5, <2>1, Zenon
<1> QED BY <1>6, Zenon DEF Trees

\* What a traversal prints of a node: one subtree, the node, the other.
Around(a, x, b) == a \o <<x>> \o b

\* A tree of the code: its heights are right and no node leans by more than one.
Upright(s) == s.height = 1 + Taller(Height(s.left), Height(s.right)) /\ Balance(s) \in -1..1
Even(t) == t \in Trees /\ \A s \in Subtrees[t] : Upright(s)

\* It consists of a node and two such trees.
LEMMA EvenParts ==
  ASSUME NEW t, Even(t), t # Leaf
  PROVE  /\ Even(t.left) /\ Even(t.right) /\ t.data \in TreeData
         /\ t = Node2(t.left, t.data, t.right)
         /\ Balance(t) \in -1..1
<1>1. t.left \in Trees /\ t.right \in Trees /\ t.data \in TreeData
      /\ t = [data |-> t.data, left |-> t.left, right |-> t.right, height |-> t.height]
  BY NodeIs DEF Even
<1>2. Subtrees[t] = {t} \cup Subtrees[t.left] \cup Subtrees[t.right]
  BY SubtreesIs DEF SubtreesIn, Even
<1>3. Even(t.left) /\ Even(t.right)
  BY <1>1, <1>2 DEF Even
<1>4. Upright(t)
  BY <1>2 DEF Even
<1> QED BY <1>1, <1>3, <1>4 DEF Upright, Node2

\* As many levels as its height says.
LEMMA EvenLevels == \A t : Even(t) => Height(t) \in 0..MaxLevels /\ t \in TreesOf[Height(t)]
<1> DEFINE Sound(t) == Height(t) \in Nat /\ t \in TreesOf[Height(t)]
           S == {n \in 0..MaxLevels : \A t \in TreesOf[n] : Even(t) => Sound(t) /\ Height(t) <= n}
<1>1. MaxLevels \in Nat
  BY TreeLevels
<1>2. 0 \in S
  <2>1. Height(Leaf) = 0 /\ \A t \in TreesOf[0] : t = Leaf
    BY TreesOfIs DEF Height
  <2> QED BY <1>1, <2>1
<1>3. ASSUME NEW n \in 0..MaxLevels-1, n \in S PROVE n+1 \in S
  <2>1. n \in 0..MaxLevels /\ n+1 \in 0..MaxLevels /\ n <= n+1
    BY <1>1
  <2> SUFFICES ASSUME NEW t \in TreesOf[n+1], Even(t) PROVE Sound(t) /\ Height(t) <= n+1
    BY <2>1
  <2>2. CASE t = Leaf
    <3>1. Height(t) = 0
      BY <2>2 DEF Height
    <3> QED BY <2>1, <2>2, <3>1, TreesOfIs
  <2>3. CASE t # Leaf
    <3>1. t.left \in TreesOf[n] /\ t.right \in TreesOf[n]
      BY <2>3, NodeIs
    <3>2. /\ Even(t.left) /\ Even(t.right) /\ t.data \in TreeData
          /\ t = Node2(t.left, t.data, t.right)
      BY <2>3, EvenParts
    <3>3. Sound(t.left) /\ Height(t.left) <= n /\ Sound(t.right) /\ Height(t.right) <= n
      BY <1>3, <3>1, <3>2
    <3> DEFINE m == Taller(Height(t.left), Height(t.right))
    <3>4. m \in 0..n /\ Height(t.left) <= m /\ Height(t.right) <= m
      BY <3>3 DEF Taller
    <3>5. Height(t) = 1 + m
      <4>1. Node2(t.left, t.data, t.right).height = 1 + m
        BY DEF Node2
      <4> QED BY <2>3, <3>2, <4>1 DEF Height
    <3> HIDE DEF m
    <3>6. m \in 0..MaxLevels-1 /\ m \in 0..MaxLevels /\ m+1 = 1+m
      BY <1>1, <3>4
    <3>7. t.left \in TreesOf[m] /\ t.right \in TreesOf[m]
      <4>1. Height(t.left) \in 0..MaxLevels /\ Height(t.right) \in 0..MaxLevels
        <5>1. Height(t.left) \in Nat /\ Height(t.right) \in Nat
          BY <3>3
        <5> QED BY <1>1, <3>4, <3>6, <5>1
      <4> QED BY <3>3, <3>4, <3>6, <4>1, TreesGrow
    <3>8. Node2(t.left, t.data, t.right) \in NodesOn(TreesOf[m])
      <4>1. 1 + Taller(Height(t.left), Height(t.right)) \in Int
        BY <3>3 DEF Taller
      <4> QED BY <3>2, <3>7, <4>1 DEF Node2, NodesOn
    <3>9. t \in TreesOf[m+1]
      BY <3>2, <3>6, <3>8, TreesOfIs
    <3> QED BY <3>4, <3>5, <3>6, <3>9
  <2> QED BY <2>2, <2>3
<1> HIDE DEF S
<1>4. MaxLevels \in S
  BY <1>1, <1>2, <1>3, Upwards
<1> QED BY <1>1, <1>4 DEF S, Even, Trees

\* And makes one where the levels suffice.
LEMMA EvenNode ==
  \A l, r : \A d \in TreeData :
    /\ Even(l) /\ Even(r) /\ Height(l) < MaxLevels /\ Height(r) < MaxLevels
    /\ Height(l) - Height(r) \in -1..1
    => /\ Even(Node2(l, d, r)) /\ Node2(l, d, r) # Leaf
       /\ Height(Node2(l, d, r)) = 1 + Taller(Height(l), Height(r))
       /\ Transverse[Node2(l, d, r)] = Around(Transverse[l], d, Transverse[r])
<1> SUFFICES ASSUME NEW l, NEW r, NEW d \in TreeData, Even(l), Even(r),
                    Height(l) < MaxLevels, Height(r) < MaxLevels, Height(l) - Height(r) \in -1..1
    PROVE  /\ Even(Node2(l, d, r)) /\ Node2(l, d, r) # Leaf
           /\ Height(Node2(l, d, r)) = 1 + Taller(Height(l), Height(r))
           /\ Transverse[Node2(l, d, r)] = Around(Transverse[l], d, Transverse[r])
  BY Zenon
<1> DEFINE t == Node2(l, d, r)
           m == Taller(Height(l), Height(r))
<1>1. t.data = d /\ t.left = l /\ t.right = r /\ t.height = 1 + m
  BY DEF Node2
<1>2. t # Leaf
  <2>1. "data" \in DOMAIN t /\ DOMAIN Leaf = {}
    BY DEF Node2, Leaf
  <2> QED BY <2>1
<1>3. MaxLevels \in Nat /\ Height(l) \in 0..MaxLevels /\ Height(r) \in 0..MaxLevels
      /\ l \in TreesOf[Height(l)] /\ r \in TreesOf[Height(r)]
  BY EvenLevels, TreeLevels
<1>4. m \in 0..MaxLevels-1 /\ m \in 0..MaxLevels /\ m+1 \in 0..MaxLevels
      /\ Height(l) <= m /\ Height(r) <= m
  BY <1>3 DEF Taller
<1>5. l \in TreesOf[m] /\ r \in TreesOf[m]
  BY <1>3, <1>4, TreesGrow
<1>6. t \in NodesOn(TreesOf[m])
  BY <1>4, <1>5 DEF NodesOn, Node2
<1>7. t \in Trees
  BY <1>4, <1>6, TreesOfIs, TreesGrow
<1>8. Height(t) = 1 + m
  BY <1>1, <1>2 DEF Height
<1>9. Upright(t)
  BY <1>1, <1>2 DEF Upright, Balance
<1>10. Subtrees[t] = {t} \cup Subtrees[l] \cup Subtrees[r]
  BY <1>1, <1>2, <1>7, SubtreesIs DEF SubtreesIn
<1>11. Transverse[t] = Around(Transverse[l], d, Transverse[r])
  BY <1>1, <1>2, <1>7, TransverseIs DEF TransverseIn, Around
<1>12. Even(t)
  BY <1>7, <1>9, <1>10 DEF Even
<1> QED BY <1>2, <1>8, <1>11, <1>12

LEMMA EvenLeaf == Even(Leaf) /\ Height(Leaf) = 0 /\ Transverse[Leaf] = <<>>
<1>1. Leaf \in Trees
  BY TreeLevels, TreesGrow
<1>2. Subtrees[Leaf] = {} /\ Transverse[Leaf] = <<>>
  BY <1>1, SubtreesIs, TransverseIs DEF SubtreesIn, TransverseIn
<1> QED BY <1>1, <1>2 DEF Even, Height

LEMMA TransverseTyped == \A t \in Trees : Transverse[t] \in Seq(TreeData)
<1> DEFINE S == {n \in 0..MaxLevels : \A t \in TreesOf[n] : Transverse[t] \in Seq(TreeData)}
<1>1. MaxLevels \in Nat
  BY TreeLevels
<1>2. 0 \in S
  <2>1. Transverse[Leaf] \in Seq(TreeData)
    BY EvenLeaf
  <2> QED BY <1>1, <2>1, TreesOfIs
<1>3. ASSUME NEW n \in 0..MaxLevels-1, n \in S PROVE n+1 \in S
  <2>1. n+1 \in 0..MaxLevels
    BY <1>1
  <2> SUFFICES ASSUME NEW t \in TreesOf[n+1] PROVE Transverse[t] \in Seq(TreeData)
    BY <2>1
  <2>2. t \in Trees
    BY <2>1, TreesGrow
  <2>3. CASE t = Leaf
    BY <2>3, EvenLeaf
  <2>4. CASE t # Leaf
    <3>1. t.left \in TreesOf[n] /\ t.right \in TreesOf[n] /\ t.data \in TreeData
      BY <2>2, <2>4, NodeIs
    <3>2. Transverse[t.left] \in Seq(TreeData) /\ Transverse[t.right] \in Seq(TreeData)
      BY <1>3, <3>1
    <3>3. Transverse[t] = Transverse[t.left] \o <<t.data>> \o Transverse[t.right]
      BY <2>2, <2>4, TransverseIs DEF TransverseIn, Around
    <3> QED BY <3>1, <3>2, <3>3
  <2> QED BY <2>3, <2>4
<1> HIDE DEF S
<1>4. MaxLevels \in S
  BY <1>1, <1>2, <1>3, Upwards
<1> QED BY <1>4 DEF S, Trees

\* What a sequence of numbers has, and that it goes upwards.
Has(s) == {s[i] : i \in DOMAIN s}
Ascends(s) == \A i, j \in DOMAIN s : i < j => s[i] < s[j]

LEMMA AscendsIs ==
  ASSUME NEW a \in Seq(TreeData), NEW b \in Seq(TreeData), NEW x \in TreeData
  PROVE  /\ Has(Around(a, x, b)) = Has(a) \cup {x} \cup Has(b)
         /\ Ascends(Around(a, x, b)) <=>
              Ascends(a) /\ Ascends(b) /\ (\A y \in Has(a) : y < x) /\ (\A y \in Has(b) : x < y)
<1> DEFINE s == a \o <<x>> \o b
           m == Len(a)
           n == Len(b)
<1>1. m \in Nat /\ n \in Nat /\ DOMAIN a = 1..m /\ DOMAIN b = 1..n
  OBVIOUS
<1>2. DOMAIN s = 1..m+1+n
  OBVIOUS
<1>3. (\A i \in 1..m : s[i] = a[i]) /\ s[m+1] = x /\ (\A i \in 1..n : s[m+1+i] = b[i])
  OBVIOUS
<1>4. (\A i \in 1..m : a[i] \in Int) /\ (\A i \in 1..n : b[i] \in Int) /\ x \in Int
  <2>1. (\A i \in DOMAIN a : a[i] \in TreeData) /\ (\A i \in DOMAIN b : b[i] \in TreeData)
    OBVIOUS
  <2> QED BY <1>1, <2>1, TreeNumbers, Zenon
<1> HIDE DEF s, m, n
<1>5. \A i \in 1..m+1+n : i \in 1..m \/ i = m+1 \/ (i-(m+1) \in 1..n /\ i = m+1+(i-(m+1)))
  BY <1>1
<1>6. /\ m+1 \in 1..m+1+n
      /\ \A i \in 1..m : i \in 1..m+1+n /\ i < m+1
      /\ \A i \in 1..n : m+1+i \in 1..m+1+n /\ m+1 < m+1+i
      /\ \A i \in 1..m, j \in 1..n : i < m+1+j
      /\ \A i, j \in 1..n : m+1+i < m+1+j <=> i < j
  BY <1>1
<1>7. Has(s) = Has(a) \cup {x} \cup Has(b)
  <2>1. \A i \in 1..m+1+n : s[i] \in Has(a) \cup {x} \cup Has(b)
    <3>1. (\A i \in 1..m : a[i] \in Has(a)) /\ (\A i \in 1..n : b[i] \in Has(b))
      BY <1>1 DEF Has
    <3> QED BY <1>3, <1>5, <3>1
  <2>2. Has(s) \subseteq Has(a) \cup {x} \cup Has(b)
    BY <1>2, <2>1 DEF Has
  <2>3. \A y \in Has(a) \cup {x} \cup Has(b) : y \in Has(s)
    BY <1>1, <1>2, <1>3, <1>6 DEF Has
  <2> QED BY <2>2, <2>3
<1>8. ASSUME Ascends(s)
      PROVE  Ascends(a) /\ Ascends(b) /\ (\A y \in Has(a) : y < x) /\ (\A y \in Has(b) : x < y)
  <2>1. \A i, j \in 1..m+1+n : i < j => s[i] < s[j]
    BY <1>2, <1>8 DEF Ascends
  <2>2. \A i, j \in 1..m : i < j => a[i] < a[j]
    BY <1>3, <1>6, <2>1
  <2>3. \A i, j \in 1..n : i < j => b[i] < b[j]
    BY <1>3, <1>6, <2>1
  <2>4. (\A i \in 1..m : a[i] < x) /\ (\A i \in 1..n : x < b[i])
    BY <1>3, <1>6, <2>1
  <2> QED BY <1>1, <2>2, <2>3, <2>4 DEF Ascends, Has
<1>9. ASSUME Ascends(a), Ascends(b), \A y \in Has(a) : y < x, \A y \in Has(b) : x < y
      PROVE  Ascends(s)
  <2>1. /\ \A i, j \in 1..m : i < j => a[i] < a[j]
        /\ \A i, j \in 1..n : i < j => b[i] < b[j]
        /\ (\A i \in 1..m : a[i] < x) /\ (\A i \in 1..n : x < b[i])
    BY <1>1, <1>9 DEF Ascends, Has
  <2>2. ASSUME NEW i \in 1..m+1+n, NEW j \in 1..m+1+n, i < j PROVE s[i] < s[j]
    <3>1. CASE i \in 1..m /\ j \in 1..m
      BY <1>3, <2>1, <2>2, <3>1
    <3>2. CASE i \in 1..m /\ j = m+1
      BY <1>3, <2>1, <3>2
    <3>3. CASE i \in 1..m /\ j-(m+1) \in 1..n /\ j = m+1+(j-(m+1))
      <4>1. a[i] < x /\ x < b[j-(m+1)] /\ a[i] \in Int /\ b[j-(m+1)] \in Int
        BY <1>4, <2>1, <3>3
      <4>2. a[i] < b[j-(m+1)]
        BY <1>4, <4>1
      <4> QED BY <1>3, <3>3, <4>2
    <3>4. CASE i = m+1 /\ j-(m+1) \in 1..n /\ j = m+1+(j-(m+1))
      BY <1>3, <2>1, <3>4
    <3>5. CASE i-(m+1) \in 1..n /\ i = m+1+(i-(m+1)) /\ j-(m+1) \in 1..n /\ j = m+1+(j-(m+1))
      <4>1. i-(m+1) < j-(m+1)
        BY <1>1, <2>2
      <4> QED BY <1>3, <2>1, <3>5, <4>1
    <3>6. ~(i = m+1 /\ j = m+1) /\ ~(i = m+1 /\ j \in 1..m)
          /\ ~(i-(m+1) \in 1..n /\ j \in 1..m) /\ ~(i-(m+1) \in 1..n /\ j = m+1)
      BY <1>1, <2>2
    <3> QED BY <1>5, <3>1, <3>2, <3>3, <3>4, <3>5, <3>6
  <2> QED BY <1>2, <2>2 DEF Ascends
<1> QED BY <1>7, <1>8, <1>9 DEF s, Around

\* How a rotation and a double rotation regroup what a traversal prints.
Turned(a, b, c, x, y) == Around(a, x, Around(b, y, c)) = Around(Around(a, x, b), y, c)
TurnedTwice(a, b, c, e, x, y, z) ==
  Around(Around(a, x, b), y, Around(c, z, e)) = Around(Around(a, x, Around(b, y, c)), z, e)
TurnedBack(a, b, c, e, x, y, z) ==
  Around(Around(a, x, b), y, Around(c, z, e)) = Around(a, x, Around(Around(b, y, c), z, e))

LEMMA Regrouped ==
  \A a, b, c \in Seq(TreeData) : \A x, y \in TreeData : Turned(a, b, c, x, y)
BY DEF Turned, Around

LEMMA RegroupedTwice ==
  \A a, b, c, e \in Seq(TreeData) : \A x, y, z \in TreeData :
    TurnedTwice(a, b, c, e, x, y, z) /\ TurnedBack(a, b, c, e, x, y, z)
<1> TAKE a, b, c, e \in Seq(TreeData)
<1> TAKE x, y, z \in TreeData
<1>1. Around(a, x, b) \in Seq(TreeData) /\ Around(c, z, e) \in Seq(TreeData)
  BY DEF Around
<1>2. Turned(Around(a, x, b), c, e, y, z) /\ Turned(a, b, c, x, y)
      /\ Turned(a, b, Around(c, z, e), x, y) /\ Turned(b, c, e, y, z)
  BY <1>1, Regrouped, Zenon
<1> QED BY <1>2, Zenon DEF Turned, TurnedTwice, TurnedBack

\* What the insertion of d promises of u, which it makes of the tree t: the height grows by one at
\* most, and where a tree that had nodes grew, it leans to the side d went to.
Grown(t, d, u) ==
  /\ Even(u) /\ u # Leaf
  /\ Height(u) \in {Height(t), Height(t)+1}
  /\ Height(u) = Height(t)+1 /\ t # Leaf =>
       \/ d < u.data /\ Height(u.left) = Height(u.right)+1
       \/ d > u.data /\ Height(u.right) = Height(u.left)+1

\* The insertion into a left subtree, and the rotations that may follow.
LEMMA LeftGrown ==
  ASSUME NEW l, NEW r, NEW v, NEW x \in TreeData, NEW d \in TreeData,
         Even(l), Even(r), Height(l) - Height(r) \in -1..1,
         Height(l) < MaxLevels-1, Height(r) < MaxLevels-1, d < x, Grown(l, d, v)
  PROVE  /\ Grown(Node2(l, x, r), d, Rebalanced(Node2(v, x, r), d))
         /\ Transverse[Rebalanced(Node2(v, x, r), d)] = Around(Transverse[v], x, Transverse[r])
<1> DEFINE t == Node2(l, x, r)
           w == Node2(v, x, r)
           u == Rebalanced(w, d)
           hl == Height(l)
           hr == Height(r)
           hv == Height(v)
<1>1. MaxLevels \in Nat /\ hl \in 0..MaxLevels /\ hr \in 0..MaxLevels /\ hv \in 0..MaxLevels
  BY EvenLevels, TreeLevels DEF Grown
<1>2. hv \in {hl, hl+1} /\ hl - hr \in -1..1 /\ hl < MaxLevels-1 /\ hr < MaxLevels-1
  BY DEF Grown
<1>3. Even(v) /\ v # Leaf /\ x \in Int /\ d \in Int /\ d < x
  BY TreeNumbers DEF Grown
<1>4. t # Leaf /\ Height(t) = 1 + Taller(hl, hr)
  <2>1. hl < MaxLevels /\ hr < MaxLevels
    BY <1>1, <1>2
  <2> QED BY <1>2, <2>1, EvenNode
<1>5. w.data = x /\ w.left = v /\ w.right = r /\ w # Leaf
  <2>1. "data" \in DOMAIN w /\ DOMAIN Leaf = {}
    BY DEF Node2, Leaf
  <2> QED BY <2>1 DEF Node2
<1>6. Balance(w) = hv - hr
  BY <1>5 DEF Balance
<1>7. hv - hr \in -1..1 \/ hv - hr = 2
  BY <1>1, <1>2
<1>8. CASE hv - hr \in -1..1
  <2>1. ~(Balance(w) > 1) /\ ~(Balance(w) < -1)
    BY <1>6, <1>8
  <2>2. u = w
    <3> HIDE DEF w
    <3> QED BY <2>1 DEF Rebalanced
  <2>3. hv < MaxLevels /\ hr < MaxLevels
    BY <1>1, <1>2
  <2>4. /\ Even(w) /\ w # Leaf
        /\ Height(w) = 1 + Taller(hv, hr)
        /\ Transverse[w] = Around(Transverse[v], x, Transverse[r])
    BY <1>3, <1>8, <2>3, EvenNode
  <2>5. 1 + Taller(hv, hr) \in {1 + Taller(hl, hr), 1 + Taller(hl, hr) + 1}
    BY <1>1, <1>2 DEF Taller
  <2>6. 1 + Taller(hv, hr) = 1 + Taller(hl, hr) + 1 => hv = hr + 1
    BY <1>1, <1>2, <1>8 DEF Taller
  <2> HIDE DEF w, u, t, hl, hr, hv
  <2>7. Height(w) \in {Height(t), Height(t)+1}
    BY <1>4, <2>4, <2>5
  <2>8. Height(w) = Height(t)+1 => d < w.data /\ Height(w.left) = Height(w.right)+1
    BY <1>3, <1>4, <1>5, <2>4, <2>6 DEF hr, hv
  <2>9. Grown(t, d, w)
    BY <2>4, <2>7, <2>8 DEF Grown
  <2> QED BY <2>2, <2>4, <2>9, Zenon DEF u, w, t
<1>9. CASE hv - hr = 2
  <2>1. hv = hl+1 /\ hl = hr+1 /\ hl # 0
    BY <1>1, <1>2, <1>9
  <2>2. l # Leaf
    BY <2>1 DEF Height
  <2>3. Balance(w) > 1 /\ ~(Balance(w) < -1)
    BY <1>6, <1>9
  <2> DEFINE vl == v.left
             vr == v.right
             y == v.data
  <2>4. /\ Even(vl) /\ Even(vr) /\ y \in TreeData /\ y \in Int
        /\ v = Node2(vl, y, vr) /\ Balance(v) \in -1..1
    BY <1>3, EvenParts, TreeNumbers
  <2>5. Height(vl) \in 0..MaxLevels /\ Height(vr) \in 0..MaxLevels
    BY <2>4, EvenLevels
  <2>6. hv = 1 + Taller(Height(vl), Height(vr))
    <3>1. Node2(vl, y, vr).height = 1 + Taller(Height(vl), Height(vr))
      BY DEF Node2
    <3> HIDE DEF vl, vr, y
    <3> QED BY <1>3, <2>4, <3>1 DEF Height
  <2>7. \/ d < y /\ Height(vl) = Height(vr)+1
        \/ d > y /\ Height(vr) = Height(vl)+1
    BY <2>1, <2>2 DEF Grown
  <2>8. Height(t) = hr + 2
    BY <1>1, <1>4, <2>1 DEF Taller
  <2>9. Transverse[v] = Around(Transverse[vl], y, Transverse[vr])
    <3>1. v \in Trees
      BY <1>3 DEF Even
    <3> QED BY <1>3, <3>1, TransverseIs DEF TransverseIn, Around
  <2>10. r \in Trees /\ vl \in Trees /\ vr \in Trees
    BY <2>4 DEF Even
  <2> HIDE DEF w, t, vl, vr, y
  <2>11. CASE d < y /\ Height(vl) = Height(vr)+1
    <3>1. Height(vl) = hr+1 /\ Height(vr) = hr
      BY <1>1, <1>9, <2>5, <2>6, <2>11 DEF Taller
    <3>2. u = Node2(vl, y, Node2(vr, x, r))
      <4>1. u = RightRotate(w)
        BY <1>3, <1>5, <2>3, <2>4, <2>11 DEF Rebalanced, y
      <4> QED BY <1>5, <4>1 DEF RightRotate, vl, vr, y
    <3> DEFINE lower == Node2(vr, x, r)
    <3>3. /\ Even(lower) /\ Height(lower) = 1 + Taller(Height(vr), hr)
          /\ Transverse[lower] = Around(Transverse[vr], x, Transverse[r])
      <4>1. Height(vr) < MaxLevels /\ Height(r) < MaxLevels /\ Height(vr) - Height(r) \in -1..1
        BY <1>1, <1>2, <3>1
      <4> QED BY <2>4, <4>1, EvenNode, Zenon
    <3>4. Height(lower) = hr+1
      BY <1>1, <3>1, <3>3 DEF Taller
    <3> HIDE DEF lower
    <3>5. /\ Even(u) /\ u # Leaf /\ Height(u) = 1 + Taller(Height(vl), Height(lower))
          /\ Transverse[u] = Around(Transverse[vl], y, Transverse[lower])
      <4>1. /\ Height(vl) < MaxLevels /\ Height(lower) < MaxLevels
            /\ Height(vl) - Height(lower) \in -1..1
        BY <1>1, <1>2, <3>1, <3>4
      <4>2. u = Node2(vl, y, lower)
        BY <3>2 DEF lower
      <4> HIDE DEF u
      <4> QED BY <2>4, <3>3, <4>1, <4>2, EvenNode, Zenon
    <3>6. Height(u) = Height(t)
      BY <1>1, <2>8, <3>1, <3>4, <3>5 DEF Taller
    <3> HIDE DEF u
    <3>7. Height(t) # Height(t)+1
      BY <1>1, <2>8
    <3>8. Grown(t, d, u)
      BY <3>5, <3>6, <3>7 DEF Grown
    <3>9. Transverse[u] = Around(Transverse[v], x, Transverse[r])
      <4>1. Transverse[vl] \in Seq(TreeData) /\ Transverse[vr] \in Seq(TreeData)
            /\ Transverse[r] \in Seq(TreeData)
        BY <2>10, TransverseTyped
      <4>2. Transverse[u] = Around(Transverse[vl], y, Around(Transverse[vr], x, Transverse[r]))
        BY <3>3, <3>5, Zenon
      <4>3. Around(Transverse[vl], y, Around(Transverse[vr], x, Transverse[r]))
              = Around(Around(Transverse[vl], y, Transverse[vr]), x, Transverse[r])
        <5>1. Turned(Transverse[vl], Transverse[vr], Transverse[r], y, x)
          BY <2>4, <4>1, Regrouped, Zenon
        <5> QED BY <5>1, Zenon DEF Turned
      <4> QED BY <2>9, <4>2, <4>3, Zenon
    <3> QED BY <3>8, <3>9 DEF u, w, t
  <2>12. CASE d > y /\ Height(vr) = Height(vl)+1
    <3>1. Height(vr) = hr+1 /\ Height(vl) = hr
      BY <1>1, <1>9, <2>5, <2>6, <2>12 DEF Taller
    <3> DEFINE a == vr.left
               b == vr.right
               z == vr.data
    <3>2. vr # Leaf
      BY <1>1, <3>1 DEF Height
    <3>3. /\ Even(a) /\ Even(b) /\ z \in TreeData
          /\ vr = Node2(a, z, b) /\ Balance(vr) \in -1..1
      BY <2>4, <3>2, EvenParts
    <3>4. Height(a) \in 0..MaxLevels /\ Height(b) \in 0..MaxLevels
          /\ Height(a) - Height(b) \in -1..1
      BY <3>2, <3>3, EvenLevels DEF Balance
    <3>5. hr + 1 = 1 + Taller(Height(a), Height(b))
      <4>1. Node2(a, z, b).height = 1 + Taller(Height(a), Height(b))
        BY DEF Node2
      <4> HIDE DEF a, b, z
      <4> QED BY <3>1, <3>2, <3>3, <4>1 DEF Height
    <3>6. Transverse[vr] = Around(Transverse[a], z, Transverse[b])
      BY <2>10, <3>2, TransverseIs DEF TransverseIn, Around
    <3>7. a \in Trees /\ b \in Trees
      BY <3>3 DEF Even
    <3> DEFINE lower == Node2(vl, y, a)
               upper == Node2(b, x, r)
    <3>8. u = Node2(lower, z, upper)
      <4>1. u = RightRotate([w EXCEPT !.left = LeftRotate(v)])
        BY <1>5, <2>3, <2>4, <2>12, TreeNumbers DEF Rebalanced, y
      <4>2. LeftRotate(v) = Node2(lower, z, b)
        BY DEF LeftRotate, vl, vr, y
      <4>3. w = [data |-> x, left |-> v, right |-> r, height |-> w.height]
        BY DEF w, Node2
      <4>4. [w EXCEPT !.left = Node2(lower, z, b)] =
              [data |-> x, left |-> Node2(lower, z, b), right |-> r, height |-> w.height]
        BY <4>3
      <4>5. \A q, h : RightRotate([data |-> x, left |-> q, right |-> r, height |-> h]) =
                        Node2(q.left, q.data, Node2(q.right, x, r))
        BY DEF RightRotate
      <4>6. Node2(lower, z, b).left = lower /\ Node2(lower, z, b).data = z
            /\ Node2(lower, z, b).right = b
        BY DEF Node2
      <4> DEFINE q == Node2(lower, z, b)
      <4> HIDE DEF lower, q
      <4>7. u = RightRotate([data |-> x, left |-> q, right |-> r, height |-> w.height])
        BY <4>1, <4>2, <4>4, Zenon DEF q
      <4>8. u = Node2(q.left, q.data, Node2(q.right, x, r))
        BY <4>5, <4>7, Zenon
      <4> QED BY <4>6, <4>8, Zenon DEF q
    <3> HIDE DEF a, b, z
    <3>9. Height(a) \in {hr-1, hr} /\ Height(b) \in {hr-1, hr}
      BY <1>1, <3>4, <3>5 DEF Taller
    <3>10. /\ Even(lower) /\ Height(lower) = 1 + Taller(Height(vl), Height(a))
           /\ Transverse[lower] = Around(Transverse[vl], y, Transverse[a])
      <4>1. Height(vl) < MaxLevels /\ Height(a) < MaxLevels /\ Height(vl) - Height(a) \in -1..1
        BY <1>1, <1>2, <3>1, <3>9
      <4> HIDE DEF lower
      <4>2. lower = Node2(vl, y, a)
        BY DEF lower
      <4> QED BY <2>4, <3>3, <4>1, <4>2, EvenNode, Zenon
    <3>11. /\ Even(upper) /\ Height(upper) = 1 + Taller(Height(b), hr)
           /\ Transverse[upper] = Around(Transverse[b], x, Transverse[r])
      <4>1. Height(b) < MaxLevels /\ Height(r) < MaxLevels /\ Height(b) - Height(r) \in -1..1
        BY <1>1, <1>2, <3>1, <3>9
      <4> QED BY <3>3, <4>1, EvenNode
    <3>12. Height(lower) = hr+1 /\ Height(upper) = hr+1
      BY <1>1, <3>1, <3>9, <3>10, <3>11 DEF Taller
    <3> HIDE DEF lower, upper
    <3>13. /\ Even(u) /\ u # Leaf /\ Height(u) = 1 + Taller(Height(lower), Height(upper))
           /\ Transverse[u] = Around(Transverse[lower], z, Transverse[upper])
      <4>1. /\ Height(lower) < MaxLevels /\ Height(upper) < MaxLevels
            /\ Height(lower) - Height(upper) \in -1..1
        BY <1>1, <1>2, <3>12
      <4> HIDE DEF u
      <4> QED BY <3>3, <3>8, <3>10, <3>11, <4>1, EvenNode, Zenon
    <3>14. Height(u) = Height(t)
      BY <1>1, <2>8, <3>12, <3>13 DEF Taller
    <3> HIDE DEF u
    <3>15. Height(t) # Height(t)+1
      BY <1>1, <2>8
    <3>16. Grown(t, d, u)
      BY <3>13, <3>14, <3>15 DEF Grown
    <3>17. Transverse[u] = Around(Transverse[v], x, Transverse[r])
      <4>1. Transverse[vl] \in Seq(TreeData) /\ Transverse[a] \in Seq(TreeData)
            /\ Transverse[b] \in Seq(TreeData) /\ Transverse[r] \in Seq(TreeData)
        BY <2>10, <3>7, TransverseTyped
      <4>2. Transverse[u] = Around(Around(Transverse[vl], y, Transverse[a]), z,
                                     Around(Transverse[b], x, Transverse[r]))
        BY <3>10, <3>11, <3>13, Zenon
      <4>3. Around(Around(Transverse[vl], y, Transverse[a]), z, Around(Transverse[b], x, Transverse[r]))
              = Around(Around(Transverse[vl], y, Around(Transverse[a], z, Transverse[b])), x,
                       Transverse[r])
        <5>1. TurnedTwice(Transverse[vl], Transverse[a], Transverse[b], Transverse[r], y, z, x)
          BY <2>4, <3>3, <4>1, RegroupedTwice, Zenon
        <5> QED BY <5>1, Zenon DEF TurnedTwice
      <4> QED BY <2>9, <3>6, <4>2, <4>3, Zenon
    <3> QED BY <3>16, <3>17 DEF u, w, t
  <2> QED BY <2>7, <2>11, <2>12
<1> QED BY <1>7, <1>8, <1>9, Zenon

\* Into a right subtree.
LEMMA RightGrown ==
  ASSUME NEW l, NEW r, NEW v, NEW x \in TreeData, NEW d \in TreeData,
         Even(l), Even(r), Height(l) - Height(r) \in -1..1,
         Height(r) < MaxLevels-1, Height(l) < MaxLevels-1, d > x, Grown(r, d, v)
  PROVE  /\ Grown(Node2(l, x, r), d, Rebalanced(Node2(l, x, v), d))
         /\ Transverse[Rebalanced(Node2(l, x, v), d)] = Around(Transverse[l], x, Transverse[v])
<1> DEFINE t == Node2(l, x, r)
           w == Node2(l, x, v)
           u == Rebalanced(w, d)
           hr == Height(r)
           hl == Height(l)
           hv == Height(v)
<1>1. MaxLevels \in Nat /\ hr \in 0..MaxLevels /\ hl \in 0..MaxLevels /\ hv \in 0..MaxLevels
  BY EvenLevels, TreeLevels DEF Grown
<1>2. hv \in {hr, hr+1} /\ hl - hr \in -1..1 /\ hr < MaxLevels-1 /\ hl < MaxLevels-1
  BY DEF Grown
<1>3. Even(v) /\ v # Leaf /\ x \in Int /\ d \in Int /\ d > x
  BY TreeNumbers DEF Grown
<1>4. t # Leaf /\ Height(t) = 1 + Taller(hl, hr)
  <2>1. hr < MaxLevels /\ hl < MaxLevels
    BY <1>1, <1>2
  <2> QED BY <1>2, <2>1, EvenNode
<1>5. w.data = x /\ w.right = v /\ w.left = l /\ w # Leaf
  <2>1. "data" \in DOMAIN w /\ DOMAIN Leaf = {}
    BY DEF Node2, Leaf
  <2> QED BY <2>1 DEF Node2
<1>6. Balance(w) = hl - hv
  BY <1>5 DEF Balance
<1>7. hv - hl \in -1..1 \/ hv - hl = 2
  BY <1>1, <1>2
<1>8. CASE hv - hl \in -1..1
  <2>1. ~(Balance(w) > 1) /\ ~(Balance(w) < -1)
    BY <1>1, <1>6, <1>8
  <2>2. u = w
    <3> HIDE DEF w
    <3> QED BY <2>1 DEF Rebalanced
  <2>3. hv < MaxLevels /\ hl < MaxLevels
    BY <1>1, <1>2
  <2>4. /\ Even(w) /\ w # Leaf
        /\ Height(w) = 1 + Taller(hl, hv)
        /\ Transverse[w] = Around(Transverse[l], x, Transverse[v])
    <3>1. hl - hv \in -1..1
      BY <1>1, <1>8
    <3> QED BY <1>3, <2>3, <3>1, EvenNode, Zenon
  <2>5. 1 + Taller(hl, hv) \in {1 + Taller(hl, hr), 1 + Taller(hl, hr) + 1}
    BY <1>1, <1>2 DEF Taller
  <2>6. 1 + Taller(hl, hv) = 1 + Taller(hl, hr) + 1 => hv = hl + 1
    BY <1>1, <1>2, <1>8 DEF Taller
  <2> HIDE DEF w, u, t, hr, hl, hv
  <2>7. Height(w) \in {Height(t), Height(t)+1}
    BY <1>4, <2>4, <2>5
  <2>8. Height(w) = Height(t)+1 => d > w.data /\ Height(w.right) = Height(w.left)+1
    BY <1>3, <1>4, <1>5, <2>4, <2>6 DEF hl, hv
  <2>9. Grown(t, d, w)
    BY <2>4, <2>7, <2>8 DEF Grown
  <2> QED BY <2>2, <2>4, <2>9, Zenon DEF u, w, t
<1>9. CASE hv - hl = 2
  <2>1. hv = hr+1 /\ hr = hl+1 /\ hr # 0
    BY <1>1, <1>2, <1>9
  <2>2. r # Leaf
    BY <2>1 DEF Height
  <2>3. Balance(w) < -1 /\ ~(Balance(w) > 1)
    BY <1>1, <1>6, <1>9
  <2> DEFINE vr == v.right
             vl == v.left
             y == v.data
  <2>4. /\ Even(vr) /\ Even(vl) /\ y \in TreeData /\ y \in Int
        /\ v = Node2(vl, y, vr) /\ Balance(v) \in -1..1
    BY <1>3, EvenParts, TreeNumbers
  <2>5. Height(vr) \in 0..MaxLevels /\ Height(vl) \in 0..MaxLevels
    BY <2>4, EvenLevels
  <2>6. hv = 1 + Taller(Height(vl), Height(vr))
    <3>1. Node2(vl, y, vr).height = 1 + Taller(Height(vl), Height(vr))
      BY DEF Node2
    <3> HIDE DEF vr, vl, y
    <3> QED BY <1>3, <2>4, <3>1 DEF Height
  <2>7. \/ d > y /\ Height(vr) = Height(vl)+1
        \/ d < y /\ Height(vl) = Height(vr)+1
    BY <2>1, <2>2 DEF Grown
  <2>8. Height(t) = hl + 2
    BY <1>1, <1>4, <2>1 DEF Taller
  <2>9. Transverse[v] = Around(Transverse[vl], y, Transverse[vr])
    <3>1. v \in Trees
      BY <1>3 DEF Even
    <3> QED BY <1>3, <3>1, TransverseIs DEF TransverseIn, Around
  <2>10. l \in Trees /\ vr \in Trees /\ vl \in Trees
    BY <2>4 DEF Even
  <2> HIDE DEF w, t, vr, vl, y
  <2>11. CASE d > y /\ Height(vr) = Height(vl)+1
    <3>1. Height(vr) = hl+1 /\ Height(vl) = hl
      BY <1>1, <1>9, <2>5, <2>6, <2>11 DEF Taller
    <3>2. u = Node2(Node2(l, x, vl), y, vr)
      <4>1. u = LeftRotate(w)
        BY <1>3, <1>5, <2>3, <2>4, <2>11 DEF Rebalanced, y
      <4> QED BY <1>5, <4>1 DEF LeftRotate, vr, vl, y
    <3> DEFINE lower == Node2(l, x, vl)
    <3>3. /\ Even(lower) /\ Height(lower) = 1 + Taller(hl, Height(vl))
          /\ Transverse[lower] = Around(Transverse[l], x, Transverse[vl])
      <4>1. Height(vl) < MaxLevels /\ Height(l) < MaxLevels /\ Height(l) - Height(vl) \in -1..1
        BY <1>1, <1>2, <3>1
      <4> QED BY <2>4, <4>1, EvenNode, Zenon
    <3>4. Height(lower) = hl+1
      BY <1>1, <3>1, <3>3 DEF Taller
    <3> HIDE DEF lower
    <3>5. /\ Even(u) /\ u # Leaf /\ Height(u) = 1 + Taller(Height(lower), Height(vr))
          /\ Transverse[u] = Around(Transverse[lower], y, Transverse[vr])
      <4>1. /\ Height(vr) < MaxLevels /\ Height(lower) < MaxLevels
            /\ Height(lower) - Height(vr) \in -1..1
        BY <1>1, <1>2, <3>1, <3>4
      <4>2. u = Node2(lower, y, vr)
        BY <3>2 DEF lower
      <4> HIDE DEF u
      <4> QED BY <2>4, <3>3, <4>1, <4>2, EvenNode, Zenon
    <3>6. Height(u) = Height(t)
      BY <1>1, <2>8, <3>1, <3>4, <3>5 DEF Taller
    <3> HIDE DEF u
    <3>7. Height(t) # Height(t)+1
      BY <1>1, <2>8
    <3>8. Grown(t, d, u)
      BY <3>5, <3>6, <3>7 DEF Grown
    <3>9. Transverse[u] = Around(Transverse[l], x, Transverse[v])
      <4>1. Transverse[vr] \in Seq(TreeData) /\ Transverse[vl] \in Seq(TreeData)
            /\ Transverse[l] \in Seq(TreeData)
        BY <2>10, TransverseTyped
      <4>2. Transverse[u] = Around(Around(Transverse[l], x, Transverse[vl]), y, Transverse[vr])
        BY <3>3, <3>5, Zenon
      <4>3. Around(Around(Transverse[l], x, Transverse[vl]), y, Transverse[vr])
              = Around(Transverse[l], x, Around(Transverse[vl], y, Transverse[vr]))
        <5>1. Turned(Transverse[l], Transverse[vl], Transverse[vr], x, y)
          BY <2>4, <4>1, Regrouped, Zenon
        <5> QED BY <5>1, Zenon DEF Turned
      <4> QED BY <2>9, <4>2, <4>3, Zenon
    <3> QED BY <3>8, <3>9 DEF u, w, t
  <2>12. CASE d < y /\ Height(vl) = Height(vr)+1
    <3>1. Height(vl) = hl+1 /\ Height(vr) = hl
      BY <1>1, <1>9, <2>5, <2>6, <2>12 DEF Taller
    <3> DEFINE b == vl.right
               a == vl.left
               z == vl.data
    <3>2. vl # Leaf
      BY <1>1, <3>1 DEF Height
    <3>3. /\ Even(b) /\ Even(a) /\ z \in TreeData
          /\ vl = Node2(a, z, b) /\ Balance(vl) \in -1..1
      BY <2>4, <3>2, EvenParts
    <3>4. Height(b) \in 0..MaxLevels /\ Height(a) \in 0..MaxLevels
          /\ Height(a) - Height(b) \in -1..1
      BY <3>2, <3>3, EvenLevels DEF Balance
    <3>5. hl + 1 = 1 + Taller(Height(a), Height(b))
      <4>1. Node2(a, z, b).height = 1 + Taller(Height(a), Height(b))
        BY DEF Node2
      <4> HIDE DEF b, a, z
      <4> QED BY <3>1, <3>2, <3>3, <4>1 DEF Height
    <3>6. Transverse[vl] = Around(Transverse[a], z, Transverse[b])
      BY <2>10, <3>2, TransverseIs DEF TransverseIn, Around
    <3>7. b \in Trees /\ a \in Trees
      BY <3>3 DEF Even
    <3> DEFINE lower == Node2(b, y, vr)
               upper == Node2(l, x, a)
    <3>8. u = Node2(upper, z, lower)
      <4>1. u = LeftRotate([w EXCEPT !.right = RightRotate(v)])
        BY <1>5, <2>3, <2>4, <2>12, TreeNumbers DEF Rebalanced, y
      <4>2. RightRotate(v) = Node2(a, z, lower)
        BY DEF RightRotate, vr, vl, y
      <4>3. w = [data |-> x, right |-> v, left |-> l, height |-> w.height]
        BY DEF w, Node2
      <4>4. [w EXCEPT !.right = Node2(a, z, lower)] =
              [data |-> x, right |-> Node2(a, z, lower), left |-> l, height |-> w.height]
        BY <4>3
      <4>5. \A q, h : LeftRotate([data |-> x, right |-> q, left |-> l, height |-> h]) =
                        Node2(Node2(l, x, q.left), q.data, q.right)
        BY DEF LeftRotate
      <4>6. Node2(a, z, lower).right = lower /\ Node2(a, z, lower).data = z
            /\ Node2(a, z, lower).left = a
        BY DEF Node2
      <4> DEFINE q == Node2(a, z, lower)
      <4> HIDE DEF lower, q
      <4>7. u = LeftRotate([data |-> x, right |-> q, left |-> l, height |-> w.height])
        BY <4>1, <4>2, <4>4, Zenon DEF q
      <4>8. u = Node2(Node2(l, x, q.left), q.data, q.right)
        BY <4>5, <4>7, Zenon
      <4> QED BY <4>6, <4>8, Zenon DEF q
    <3> HIDE DEF b, a, z
    <3>9. Height(b) \in {hl-1, hl} /\ Height(a) \in {hl-1, hl}
      BY <1>1, <3>4, <3>5 DEF Taller
    <3>10. /\ Even(lower) /\ Height(lower) = 1 + Taller(Height(b), Height(vr))
           /\ Transverse[lower] = Around(Transverse[b], y, Transverse[vr])
      <4>1. Height(vr) < MaxLevels /\ Height(b) < MaxLevels /\ Height(b) - Height(vr) \in -1..1
        BY <1>1, <1>2, <3>1, <3>9
      <4> HIDE DEF lower
      <4>2. lower = Node2(b, y, vr)
        BY DEF lower
      <4> QED BY <2>4, <3>3, <4>1, <4>2, EvenNode, Zenon
    <3>11. /\ Even(upper) /\ Height(upper) = 1 + Taller(hl, Height(a))
           /\ Transverse[upper] = Around(Transverse[l], x, Transverse[a])
      <4>1. Height(a) < MaxLevels /\ Height(l) < MaxLevels /\ Height(l) - Height(a) \in -1..1
        BY <1>1, <1>2, <3>1, <3>9
      <4> QED BY <3>3, <4>1, EvenNode
    <3>12. Height(lower) = hl+1 /\ Height(upper) = hl+1
      BY <1>1, <3>1, <3>9, <3>10, <3>11 DEF Taller
    <3> HIDE DEF lower, upper
    <3>13. /\ Even(u) /\ u # Leaf /\ Height(u) = 1 + Taller(Height(upper), Height(lower))
           /\ Transverse[u] = Around(Transverse[upper], z, Transverse[lower])
      <4>1. /\ Height(lower) < MaxLevels /\ Height(upper) < MaxLevels
            /\ Height(upper) - Height(lower) \in -1..1
        BY <1>1, <1>2, <3>12
      <4> HIDE DEF u
      <4> QED BY <3>3, <3>8, <3>10, <3>11, <4>1, EvenNode, Zenon
    <3>14. Height(u) = Height(t)
      BY <1>1, <2>8, <3>12, <3>13 DEF Taller
    <3> HIDE DEF u
    <3>15. Height(t) # Height(t)+1
      BY <1>1, <2>8
    <3>16. Grown(t, d, u)
      BY <3>13, <3>14, <3>15 DEF Grown
    <3>17. Transverse[u] = Around(Transverse[l], x, Transverse[v])
      <4>1. Transverse[vr] \in Seq(TreeData) /\ Transverse[b] \in Seq(TreeData)
            /\ Transverse[a] \in Seq(TreeData) /\ Transverse[l] \in Seq(TreeData)
        BY <2>10, <3>7, TransverseTyped
      <4>2. Transverse[u] = Around(Around(Transverse[l], x, Transverse[a]), z,
                                     Around(Transverse[b], y, Transverse[vr]))
        BY <3>10, <3>11, <3>13, Zenon
      <4>3. Around(Around(Transverse[l], x, Transverse[a]), z, Around(Transverse[b], y, Transverse[vr]))
              = Around(Transverse[l], x,
                       Around(Around(Transverse[a], z, Transverse[b]), y, Transverse[vr]))
        <5>1. TurnedBack(Transverse[l], Transverse[a], Transverse[b], Transverse[vr], x, z, y)
          BY <2>4, <3>3, <4>1, RegroupedTwice, Zenon
        <5> QED BY <5>1, Zenon DEF TurnedBack
      <4> QED BY <2>9, <3>6, <4>2, <4>3, Zenon
    <3> QED BY <3>16, <3>17 DEF u, w, t
  <2> QED BY <2>7, <2>11, <2>12
<1> QED BY <1>7, <1>8, <1>9, Zenon

\* The sequence of u is that of t with d in its place.
Adds(s, d, q) == Ascends(q) /\ Has(q) = Has(s) \cup {d}
Inserts(t) ==
  \A d \in TreeData :
    Grown(t, d, Inserted[t][d]) /\ Adds(Transverse[t], d, Transverse[Inserted[t][d]])

LEMMA InsertsInLeaf == ASSUME MaxLevels # 0 PROVE Inserts(Leaf)
<1> SUFFICES ASSUME NEW d \in TreeData
             PROVE  /\ Grown(Leaf, d, Inserted[Leaf][d])
                    /\ Adds(Transverse[Leaf], d, Transverse[Inserted[Leaf][d]])
  BY DEF Inserts
<1> DEFINE u == Node2(Leaf, d, Leaf)
<1>1. Inserted[Leaf][d] = u
  BY EvenLeaf, InsertedIs DEF InsertedIn, Even
<1>2. /\ Even(u) /\ u # Leaf /\ Height(u) = 1 + Taller(0, 0)
      /\ Transverse[u] = Around(<<>>, d, <<>>)
  <2>1. 0 < MaxLevels /\ 0 - 0 \in -1..1
    BY TreeLevels
  <2> QED BY <2>1, EvenLeaf, EvenNode
<1>3. Grown(Leaf, d, u)
  <2>1. 1 + Taller(0, 0) = 1
    BY DEF Taller
  <2> HIDE DEF u
  <2> QED BY <1>2, <2>1, EvenLeaf DEF Grown
<1>4. Has(<<>>) = {} /\ Ascends(<<>>) /\ <<>> \in Seq(TreeData)
  BY DEF Has, Ascends
<1>5. Has(Around(<<>>, d, <<>>)) = {d} /\ Ascends(Around(<<>>, d, <<>>))
  <2> DEFINE e == <<>>
  <2>1. Has(e) = {} /\ Ascends(e) /\ e \in Seq(TreeData)
    BY <1>4
  <2> HIDE DEF e
  <2>2. Has(Around(e, d, e)) = {d} /\ Ascends(Around(e, d, e))
    BY <2>1, AscendsIs
  <2> QED BY <2>2 DEF e
<1> HIDE DEF u
<1>6. Adds(Transverse[Leaf], d, Transverse[u])
  BY <1>2, <1>4, <1>5, EvenLeaf DEF Adds
<1> QED BY <1>1, <1>3, <1>6

LEMMA InsertsInNode ==
  ASSUME NEW t, Even(t), t # Leaf, Height(t) < MaxLevels, Ascends(Transverse[t]),
         Ascends(Transverse[t.left]) => Inserts(t.left),
         Ascends(Transverse[t.right]) => Inserts(t.right)
  PROVE  Inserts(t)
<1> SUFFICES ASSUME NEW d \in TreeData
             PROVE  Grown(t, d, Inserted[t][d]) /\ Adds(Transverse[t], d, Transverse[Inserted[t][d]])
  BY DEF Inserts
<1> DEFINE l == t.left
           r == t.right
           x == t.data
<1>1. Even(l) /\ Even(r) /\ x \in TreeData /\ t = Node2(l, x, r) /\ Balance(t) \in -1..1
  BY EvenParts
<1>2. t \in Trees /\ l \in Trees /\ r \in Trees
  BY <1>1 DEF Even
<1>3. Transverse[t] = Around(Transverse[l], x, Transverse[r])
  BY <1>2, TransverseIs DEF TransverseIn, Around
<1>4. Transverse[l] \in Seq(TreeData) /\ Transverse[r] \in Seq(TreeData)
  BY <1>2, TransverseTyped
<1>5. /\ Ascends(Transverse[l]) /\ Ascends(Transverse[r])
      /\ \A y \in Has(Transverse[l]) : y < x
      /\ \A y \in Has(Transverse[r]) : x < y
  BY <1>1, <1>3, <1>4, AscendsIs
<1>6. Has(Transverse[t]) = Has(Transverse[l]) \cup {x} \cup Has(Transverse[r])
  BY <1>1, <1>3, <1>4, AscendsIs
<1>7. MaxLevels \in Nat /\ Height(l) \in 0..MaxLevels /\ Height(r) \in 0..MaxLevels
  BY <1>1, EvenLevels, TreeLevels
<1>8. Height(t) = 1 + Taller(Height(l), Height(r))
  <2>1. Node2(l, x, r).height = 1 + Taller(Height(l), Height(r))
    BY DEF Node2
  <2> HIDE DEF l, r, x
  <2> QED BY <1>1, <2>1 DEF Height
<1>9. /\ Height(l) - Height(r) \in -1..1
      /\ Height(l) < MaxLevels-1 /\ Height(r) < MaxLevels-1
  <2>1. Balance(t) = Height(l) - Height(r)
    BY DEF Balance
  <2>2. 1 + Taller(Height(l), Height(r)) < MaxLevels
    BY <1>8
  <2> HIDE DEF l, r
  <2> QED BY <1>1, <1>7, <2>1, <2>2 DEF Taller
<1>10. x \in Int /\ d \in Int
  BY <1>1, TreeNumbers
<1>11. Inserted[t][d] = IF d < x THEN Rebalanced(Node2(Inserted[l][d], x, r), d)
                        ELSE IF d > x THEN Rebalanced(Node2(l, x, Inserted[r][d]), d) ELSE t
  <2>1. Inserted[t] = InsertedIn(Inserted, t)
    BY <1>2, InsertedIs
  <2>2. InsertedIn(Inserted, t)[d]
          = IF t = Leaf THEN Node2(Leaf, d, Leaf)
            ELSE IF d < x THEN Rebalanced(Node2(Inserted[l][d], x, r), d)
            ELSE IF d > x THEN Rebalanced(Node2(l, x, Inserted[r][d]), d)
            ELSE t
    BY Zenon DEF InsertedIn
  <2> QED BY <2>1, <2>2, Zenon
<1>12. Inserts(l) /\ Inserts(r)
  BY <1>5
<1>13. \A v \in Trees : Transverse[v] \in Seq(TreeData)
  BY TransverseTyped
<1> DEFINE u == Inserted[t][d]
<1> HIDE DEF l, r, x, u
<1>14. CASE d < x
  <2> DEFINE v == Inserted[l][d]
  <2>1. Grown(l, d, v) /\ Adds(Transverse[l], d, Transverse[v])
    BY <1>12 DEF Inserts
  <2>2. u = Rebalanced(Node2(v, x, r), d)
    BY <1>11, <1>14 DEF u
  <2> HIDE DEF v
  <2>3. Grown(t, d, u) /\ Transverse[u] = Around(Transverse[v], x, Transverse[r])
    BY <1>1, <1>9, <1>14, <2>1, <2>2, LeftGrown
  <2>4. Transverse[v] \in Seq(TreeData)
    BY <1>13, <2>1 DEF Grown, Even
  <2>5. \A y \in Has(Transverse[v]) : y < x
    BY <1>5, <1>14, <2>1 DEF Adds
  <2>6. Ascends(Transverse[u])
    BY <1>1, <1>4, <1>5, <2>1, <2>3, <2>4, <2>5, AscendsIs DEF Adds
  <2>7. Has(Transverse[u]) = Has(Transverse[v]) \cup {x} \cup Has(Transverse[r])
    BY <1>1, <1>4, <2>3, <2>4, AscendsIs
  <2>8. Has(Transverse[u]) = Has(Transverse[t]) \cup {d}
    BY <1>6, <2>1, <2>7 DEF Adds
  <2> QED BY <2>3, <2>6, <2>8 DEF Adds, u
<1>15. CASE d > x
  <2> DEFINE v == Inserted[r][d]
  <2>1. Grown(r, d, v) /\ Adds(Transverse[r], d, Transverse[v])
    BY <1>12 DEF Inserts
  <2>2. u = Rebalanced(Node2(l, x, v), d)
    BY <1>10, <1>11, <1>15 DEF u
  <2> HIDE DEF v
  <2>3. Grown(t, d, u) /\ Transverse[u] = Around(Transverse[l], x, Transverse[v])
    BY <1>1, <1>9, <1>15, <2>1, <2>2, RightGrown
  <2>4. Transverse[v] \in Seq(TreeData)
    BY <1>13, <2>1 DEF Grown, Even
  <2>5. \A y \in Has(Transverse[v]) : x < y
    BY <1>5, <1>10, <1>15, <2>1 DEF Adds
  <2>6. Ascends(Transverse[u])
    BY <1>1, <1>4, <1>5, <2>1, <2>3, <2>4, <2>5, AscendsIs DEF Adds
  <2>7. Has(Transverse[u]) = Has(Transverse[l]) \cup {x} \cup Has(Transverse[v])
    BY <1>1, <1>4, <2>3, <2>4, AscendsIs
  <2>8. Has(Transverse[u]) = Has(Transverse[t]) \cup {d}
    BY <1>6, <2>1, <2>7 DEF Adds
  <2> QED BY <2>3, <2>6, <2>8 DEF Adds, u
<1>16. CASE d = x
  <2>1. u = t
    BY <1>10, <1>11, <1>16 DEF u
  <2>2. Height(t) \in Int
    BY <1>7, <1>8 DEF Taller
  <2>3. Height(t) # Height(t)+1
    BY <2>2
  <2>4. Grown(t, d, t)
    BY <2>3 DEF Grown
  <2>5. Has(Transverse[t]) = Has(Transverse[t]) \cup {d}
    BY <1>6, <1>16
  <2> QED BY <2>1, <2>4, <2>5 DEF Adds, u
<1> QED BY <1>10, <1>14, <1>15, <1>16

\* What the insertion promises, for every tree of the code that has room.
LEMMA InsertsInTree ==
  \A t : Even(t) /\ Height(t) < MaxLevels /\ Ascends(Transverse[t]) => Inserts(t)
<1> DEFINE Good(t) == Even(t) /\ Height(t) < MaxLevels /\ Ascends(Transverse[t])
           S == {n \in 0..MaxLevels : \A t \in TreesOf[n] : Good(t) => Inserts(t)}
<1>1. MaxLevels \in Nat
  BY TreeLevels
<1>2. 0 \in S
  <2>1. \A t \in TreesOf[0] : t = Leaf
    BY TreesOfIs
  <2>2. Good(Leaf) => MaxLevels # 0
    BY EvenLeaf
  <2> QED BY <1>1, <2>1, <2>2, InsertsInLeaf
<1>3. ASSUME NEW n \in 0..MaxLevels-1, n \in S PROVE n+1 \in S
  <2>1. n+1 \in 0..MaxLevels
    BY <1>1
  <2> SUFFICES ASSUME NEW t \in TreesOf[n+1], Good(t) PROVE Inserts(t)
    BY <2>1
  <2>2. CASE t = Leaf
    BY <1>1, <2>2, InsertsInLeaf
  <2>3. CASE t # Leaf
    <3>1. t.left \in TreesOf[n] /\ t.right \in TreesOf[n]
      BY <2>3, NodeIs
    <3>2. Even(t.left) /\ Even(t.right)
      BY <2>3, EvenParts
    <3>3. Height(t.left) < MaxLevels /\ Height(t.right) < MaxLevels
      <4>1. t = Node2(t.left, t.data, t.right)
        BY <2>3, EvenParts
      <4>2. Node2(t.left, t.data, t.right).height = 1 + Taller(Height(t.left), Height(t.right))
        BY DEF Node2
      <4>3. Height(t) = 1 + Taller(Height(t.left), Height(t.right))
        BY <2>3, <4>1, <4>2 DEF Height
      <4>4. Height(t.left) \in 0..MaxLevels /\ Height(t.right) \in 0..MaxLevels
        BY <3>2, EvenLevels
      <4>5. 1 + Taller(Height(t.left), Height(t.right)) < MaxLevels
        BY <4>3
      <4> QED BY <1>1, <4>4, <4>5 DEF Taller
    <3>4. /\ Ascends(Transverse[t.left]) => Inserts(t.left)
          /\ Ascends(Transverse[t.right]) => Inserts(t.right)
      BY <1>3, <3>1, <3>2, <3>3
    <3> QED BY <2>3, <3>4, InsertsInNode
  <2> QED BY <2>2, <2>3
<1> HIDE DEF S
<1>4. MaxLevels \in S
  BY <1>1, <1>2, <1>3, Upwards
<1> QED BY <1>4 DEF S, Even, Trees

\* The tree of the code, whose traversal prints what was appended, in order.
TreeInv ==
  /\ Even(root)
  /\ Ascends(Transverse[root]) /\ Has(Transverse[root]) = appended

LEMMA TreeInitInv == TreeInit => TreeInv
<1>1. Has(<<>>) = {} /\ Ascends(<<>>)
  BY DEF Has, Ascends
<1> QED BY <1>1, EvenLeaf DEF TreeInit, TreeInv

LEMMA BtreeAppendInv == ASSUME TreeInv, NEW d \in TreeData, BtreeAppend(d) PROVE TreeInv'
<1>1. Inserts(root)
  BY InsertsInTree DEF TreeInv, BtreeAppend
<1>2. Grown(root, d, root') /\ Adds(Transverse[root], d, Transverse[root'])
  BY <1>1 DEF Inserts, BtreeAppend
<1> QED BY <1>2 DEF TreeInv, BtreeAppend, Grown, Adds

\* Every tree gfc_btree_append can build is one of AVL's, with the data appended in their order.
THEOREM TreeInvariant == TreeSpec => []TreeInv
<1>1. TreeInv /\ [TreeNext]_treeVars => TreeInv'
  BY BtreeAppendInv DEF TreeNext, treeVars, TreeInv
<1> QED BY <1>1, TreeInitInv, PTL DEF TreeSpec

\* For any data and any number of levels a traversal prints each element appended once, in
\* ascending order, the heights in the nodes are right, and no node leans by more than one.
THEOREM TreeSortedBalancedCorrect == TreeSpec => []TreeSortedBalanced
<1>1. TreeInv => TreeSortedBalanced
  BY DEF TreeInv, TreeSortedBalanced, Has, Ascends, Even, Upright
<1> QED BY <1>1, TreeInvariant, PTL

-----------------------------------------------------------------------------
\* Ids.
\* The newest id a node can have returned: the one of its last time and sequence
\* number, or the last of that time while it waits.
Newest(n) == Id(n, last[n], IF pc[n] = "wait" THEN SeqSize - 1 ELSE seq[n])

Typed ==
  /\ clock \in [Node -> Nat] /\ last \in [Node -> Nat]
  /\ seq \in [Node -> 0..SeqSize-1]
  /\ pc \in [Node -> {"idle", "wait"}]
  /\ issued \in [Node -> SUBSET Int]
  /\ calls \in [Node -> Nat]
  /\ setBack \in [Node -> BOOLEAN]
  /\ \A n \in Node : pc[n] = "wait" => seq[n] = 0

\* Every id was packed from fields that fit.
Packed ==
  \A n \in Node : \A x \in issued[n] :
    \E t \in Nat, s \in 0..SeqSize-1 : x = Id(n, t, s)

Counted ==
  \A n \in Node :
    /\ IsFiniteSet(issued[n])
    /\ ~setBack[n] => /\ last[n] <= clock[n]
                      /\ \A x \in issued[n] : x <= Newest(n)
                      /\ Cardinality(issued[n]) = calls[n]

IdInv == Typed /\ Packed /\ Counted

USE IdSizes, IdFields, IdNodes

-----------------------------------------------------------------------------
\* Two numbers written with a last digit below b are equal, or one is less,
\* as their leading parts are.
LEMMA DigitUnique ==
  ASSUME NEW a \in Nat, NEW c \in Nat, NEW b \in Nat \ {0},
         NEW x \in 0..b-1, NEW y \in 0..b-1, a * b + x = c * b + y
  PROVE  a = c /\ x = y
<1>1. ASSUME NEW p \in Nat, NEW q \in Nat, p < q PROVE (q - p) * b >= b
  <2>1. PICK e \in Nat : q - p = 1 + e
    BY <1>1
  <2>2. (1 + e) * b = b + e * b /\ e * b >= 0
    OBVIOUS
  <2> QED BY <2>1, <2>2
<1>2. \A p, q \in Nat : (q - p) * b = q * b - p * b
  OBVIOUS
<1>3. ~(a < c)
  <2> SUFFICES ASSUME a < c PROVE FALSE
    OBVIOUS
  <2>1. c * b - a * b >= b
    BY <1>1, <1>2
  <2> QED BY <2>1
<1>4. ~(c < a)
  <2> SUFFICES ASSUME c < a PROVE FALSE
    OBVIOUS
  <2>1. a * b - c * b >= b
    BY <1>1, <1>2
  <2> QED BY <2>1
<1> QED BY <1>3, <1>4

LEMMA DigitOrder ==
  ASSUME NEW a \in Nat, NEW c \in Nat, NEW b \in Nat \ {0},
         NEW x \in 0..b-1, NEW y \in 0..b-1, a < c
  PROVE  a * b + x < c * b + y
<1>1. PICK e \in Nat : c = a + 1 + e
  <2>1. c - a - 1 \in Nat /\ c = a + 1 + (c - a - 1)
    OBVIOUS
  <2> QED BY <2>1
<1>2. (a + 1 + e) * b = a * b + b + e * b /\ e * b >= 0
  OBVIOUS
<1> QED BY <1>1, <1>2

LEMMA IdOrder ==
  ASSUME NEW n \in Node, NEW t \in Nat, NEW u \in Nat,
         NEW s \in 0..SeqSize-1, NEW r \in 0..SeqSize-1
  PROVE  /\ Id(n, t, s) \in Nat
         /\ t < u => Id(n, t, s) < Id(n, u, r)
         /\ s < r => Id(n, t, s) < Id(n, t, r)
         /\ s <= r => Id(n, t, s) <= Id(n, t, r)
<1> DEFINE D(x) == x * DatacenterSize + Datacenter[n]
           M(x) == D(x) * MachineSize + Machine[n]
<1>1. /\ Datacenter[n] \in 0..DatacenterSize-1 /\ DatacenterSize \in Nat \ {0}
      /\ Machine[n] \in 0..MachineSize-1 /\ MachineSize \in Nat \ {0}
      /\ SeqSize \in Nat \ {0}
  OBVIOUS
<1>2. \A x \in Nat : D(x) \in Nat
  BY <1>1
<1>3. \A x, y \in Nat : x < y => D(x) < D(y)
  BY <1>1, DigitOrder
<1> HIDE DEF D
<1>4. \A x \in Nat : M(x) \in Nat
  BY <1>1, <1>2
<1>5. \A x, y \in Nat : x < y => M(x) < M(y)
  BY <1>1, <1>2, <1>3, DigitOrder
<1>6. \A x, y : Id(n, x, y) = M(x) * SeqSize + y
  BY DEF Id, D
<1> HIDE DEF M
<1>7. M(t) * SeqSize \in Nat
  BY <1>1, <1>4
<1>8. Id(n, t, s) \in Nat
  BY <1>6, <1>7
<1>9. ASSUME t < u PROVE Id(n, t, s) < Id(n, u, r)
  <2>1. M(t) \in Nat /\ M(u) \in Nat /\ M(t) < M(u)
    BY <1>4, <1>5, <1>9
  <2>2. M(t) * SeqSize + s < M(u) * SeqSize + r
    BY <1>1, <2>1, DigitOrder
  <2> QED BY <1>6, <2>2
<1> QED BY <1>6, <1>7, <1>8, <1>9

LEMMA IdUnique ==
  ASSUME NEW n \in Node, NEW m \in Node, NEW t \in Nat, NEW u \in Nat,
         NEW s \in 0..SeqSize-1, NEW r \in 0..SeqSize-1,
         Id(n, t, s) = Id(m, u, r)
  PROVE  n = m
<1> DEFINE a == t * DatacenterSize + Datacenter[n]
           c == u * DatacenterSize + Datacenter[m]
           e == a * MachineSize + Machine[n]
           f == c * MachineSize + Machine[m]
<1>1. /\ Datacenter[n] \in 0..DatacenterSize-1 /\ Datacenter[m] \in 0..DatacenterSize-1
      /\ Machine[n] \in 0..MachineSize-1 /\ Machine[m] \in 0..MachineSize-1
      /\ DatacenterSize \in Nat \ {0} /\ MachineSize \in Nat \ {0}
      /\ SeqSize \in Nat \ {0}
  OBVIOUS
<1>2. a \in Nat /\ c \in Nat
  BY <1>1
<1>3. a = c => Datacenter[n] = Datacenter[m]
  BY <1>1, DigitUnique
<1> HIDE DEF a, c
<1>4. e \in Nat /\ f \in Nat
  BY <1>1, <1>2
<1>5. e = f => a = c /\ Machine[n] = Machine[m]
  BY <1>1, <1>2, DigitUnique
<1>6. e * SeqSize + s = f * SeqSize + r
  BY DEF Id, a, c
<1> HIDE DEF e, f
<1>7. e = f
  BY <1>1, <1>4, <1>6, DigitUnique
<1> QED BY <1>3, <1>5, <1>7

LEMMA NewestNat ==
  ASSUME Typed, NEW n \in Node
  PROVE  Newest(n) \in Nat
<1>1. last[n] \in Nat /\ seq[n] \in 0..SeqSize-1 /\ SeqSize-1 \in 0..SeqSize-1
  BY DEF Typed
<1>2. Id(n, last[n], seq[n]) \in Nat /\ Id(n, last[n], SeqSize-1) \in Nat
  BY <1>1, IdOrder
<1> QED BY <1>2 DEF Newest

LEMMA ReturnTyped ==
  ASSUME Typed, NEW n \in Node, NEW t \in Nat, NEW s \in 0..SeqSize-1,
         Return(n, t, s)
  PROVE  /\ clock' \in [Node -> Nat] /\ last' \in [Node -> Nat]
         /\ issued' \in [Node -> SUBSET Int] /\ calls' \in [Node -> Nat]
         /\ setBack' \in [Node -> BOOLEAN]
<1>1. Id(n, t, s) \in Int
  BY IdOrder
<1> HIDE IdSizes, IdFields, IdNodes
<1>2. issued[n] \cup {Id(n, t, s)} \in SUBSET Int
  BY <1>1 DEF Typed
<1> QED BY <1>2 DEF Return, Typed

-----------------------------------------------------------------------------
LEMMA InitInv == Init => IdInv
<1> SUFFICES ASSUME Init PROVE IdInv
  OBVIOUS
<1>1. Typed
  <2>1. \A n \in Node : clock[n] \in Nat /\ seq[n] \in 0..SeqSize-1
    <3>1. /\ clock \in [Node -> 1..MaxTime] /\ seq \in [Node -> InitialSeq]
          /\ 1..MaxTime \subseteq Nat /\ InitialSeq \subseteq 0..SeqSize-1
      BY DEF Init
    <3> HIDE IdSizes, IdFields, IdNodes
    <3> QED BY <3>1
  <2> HIDE IdSizes, IdFields, IdNodes
  <2>2. clock \in [Node -> Nat]
    BY <2>1 DEF Init
  <2>3. seq \in [Node -> 0..SeqSize-1]
    BY <2>1 DEF Init
  <2>4. \A n \in Node : pc[n] # "wait"
    BY DEF Init
  <2>5. /\ last \in [Node -> Nat] /\ issued \in [Node -> SUBSET Int]
        /\ calls \in [Node -> Nat] /\ setBack \in [Node -> BOOLEAN]
        /\ pc \in [Node -> {"idle", "wait"}]
    BY DEF Init
  <2> QED BY <2>2, <2>3, <2>4, <2>5 DEF Typed
<1>2. Packed
  BY DEF Init, Packed
<1>3. IsFiniteSet({}) /\ Cardinality({}) = 0
  BY FS_EmptySet
<1>4. Counted
  BY <1>1, <1>3 DEF Init, Counted, Typed
<1> QED BY <1>1, <1>2, <1>4 DEF IdInv

\* What a call adds: an id for a time t and a sequence number s, above all
\* others if it is above what could be returned before.
LEMMA ReturnKeeps ==
  ASSUME IdInv, NEW n \in Node, NEW t \in Nat, NEW s \in 0..SeqSize-1,
         Return(n, t, s), Typed', t <= clock[n],
         pc'[n] = "idle", seq'[n] = s,
         \A m \in Node : m # n => pc'[m] = pc[m] /\ seq'[m] = seq[m],
         ~setBack[n] => Newest(n) < Id(n, t, s)
  PROVE  /\ Packed' /\ Counted'
         /\ \A m \in Node : ~setBack'[m] =>
              \A x \in issued'[m] \ issued[m] : \A y \in issued[m] : y < x
<1>t. Typed
  BY DEF IdInv
<1>1. /\ issued'[n] = issued[n] \cup {Id(n, t, s)} /\ calls'[n] = calls[n] + 1
      /\ last'[n] = t /\ clock' = clock /\ setBack' = setBack
  BY <1>t DEF Return, Typed
<1>2. \A m \in Node : m # n => /\ issued'[m] = issued[m] /\ calls'[m] = calls[m]
                               /\ last'[m] = last[m]
  BY <1>t DEF Return, Typed
<1>3. Id(n, t, s) \in Nat
  BY IdOrder
<1>4. Packed'
  <2> SUFFICES ASSUME NEW m \in Node, NEW x \in issued'[m]
               PROVE  \E u \in Nat, r \in 0..SeqSize-1 : x = Id(m, u, r)
    BY DEF Packed, Id
  <2>1. CASE x \in issued[m]
    BY <2>1 DEF IdInv, Packed
  <2>2. CASE x \notin issued[m]
    BY <1>1, <1>2, <2>2
  <2> QED BY <2>1, <2>2
<1>5. \A m \in Node : m # n => Newest(m)' = Newest(m)
  BY <1>2 DEF Newest, Id
<1>6. Newest(n)' = Id(n, t, s)
  BY <1>1 DEF Newest, Id
<1>7. ASSUME ~setBack[n], NEW x \in issued[n] PROVE x < Id(n, t, s) /\ x \in Int
  <2>1. x \in Int /\ x <= Newest(n)
    BY <1>t, <1>7 DEF Typed, IdInv, Counted
  <2>2. Newest(n) \in Nat
    BY <1>t, NewestNat
  <2> QED BY <1>3, <2>1, <2>2, <1>7
<1>8. IsFiniteSet(issued[n])
  BY DEF IdInv, Counted
<1>9. /\ IsFiniteSet(issued'[n])
      /\ ~setBack[n] => Cardinality(issued'[n]) = Cardinality(issued[n]) + 1
  <2>1. ~setBack[n] => Id(n, t, s) \notin issued[n]
    BY <1>3, <1>7
  <2>2. /\ IsFiniteSet(issued[n] \cup {Id(n, t, s)})
        /\ Cardinality(issued[n] \cup {Id(n, t, s)}) =
             IF Id(n, t, s) \in issued[n] THEN Cardinality(issued[n])
             ELSE Cardinality(issued[n]) + 1
    BY <1>8, FS_AddElement, Zenon
  <2> QED BY <1>1, <2>1, <2>2
<1>10. Counted'
  <2> SUFFICES ASSUME NEW m \in Node
               PROVE  /\ IsFiniteSet(issued'[m])
                      /\ ~setBack'[m] => /\ last'[m] <= clock'[m]
                                         /\ \A x \in issued'[m] : x <= Newest(m)'
                                         /\ Cardinality(issued'[m]) = calls'[m]
    BY DEF Counted
  <2>1. CASE m # n
    BY <1>1, <1>2, <1>5, <2>1 DEF IdInv, Counted
  <2>2. CASE m = n
    <3>1. ~setBack[n] => \A x \in issued'[n] : x <= Newest(n)'
      BY <1>1, <1>3, <1>6, <1>7
    <3>2. ~setBack[n] => Cardinality(issued'[n]) = calls'[n]
      BY <1>1, <1>9 DEF IdInv, Counted
    <3> QED BY <1>1, <1>9, <2>2, <3>1, <3>2
  <2> QED BY <2>1, <2>2
<1>11. ASSUME NEW m \in Node, ~setBack'[m],
              NEW x \in issued'[m] \ issued[m], NEW y \in issued[m]
       PROVE  y < x
  <2>1. m = n /\ x = Id(n, t, s)
    BY <1>1, <1>2
  <2> QED BY <1>1, <1>7, <1>11, <2>1
<1> QED BY <1>4, <1>10, <1>11

\* One step of the system, for every action.
LEMMA NextInv ==
  ASSUME IdInv, [Next]_idVars
  PROVE  /\ IdInv'
         /\ \A m \in Node : ~setBack'[m] =>
              \A x \in issued'[m] \ issued[m] : \A y \in issued[m] : y < x
<1>t. Typed
  BY DEF IdInv
<1> DEFINE Larger == \A m \in Node : ~setBack'[m] =>
                      \A x \in issued'[m] \ issued[m] : \A y \in issued[m] : y < x
<1>n. \A n \in Node : Newest(n) \in Nat
  BY <1>t, NewestNat
<1>1. ASSUME NEW n \in Node, Tick(n) PROVE IdInv' /\ Larger
  <2>1. Typed'
    BY <1>t, <1>1 DEF Tick, Typed
  <2>2. \A m \in Node : Newest(m)' = Newest(m)
    BY <1>1 DEF Tick, Newest, Id
  <2>3. \A m \in Node : clock[m] <= clock'[m] /\ clock[m] \in Nat
                        /\ clock'[m] \in Nat /\ last[m] \in Nat
    BY <1>t, <1>1 DEF Tick, Typed
  <2>4. Packed'
    BY <1>1 DEF Tick, IdInv, Packed, Id
  <2>5. Counted'
    BY <1>1, <2>2, <2>3 DEF Tick, IdInv, Counted
  <2> QED BY <1>1, <2>1, <2>4, <2>5 DEF Tick, IdInv
<1>2. ASSUME NEW n \in Node, SetBack(n) PROVE IdInv' /\ Larger
  <2>1. Typed'
    <3>1. PICK u \in 1..clock[n]-1 : clock' = [clock EXCEPT ![n] = u]
      BY <1>2 DEF SetBack
    <3>2. u \in Nat
      OBVIOUS
    <3> QED BY <1>t, <1>2, <3>1, <3>2 DEF SetBack, Typed
  <2>2. \A m \in Node : Newest(m)' = Newest(m)
    BY <1>2 DEF SetBack, Newest, Id
  <2>3. setBack'[n] /\ \A m \in Node : m # n => clock'[m] = clock[m]
                                               /\ setBack'[m] = setBack[m]
    BY <1>t, <1>2 DEF SetBack, Typed
  <2>4. Packed'
    BY <1>2 DEF SetBack, IdInv, Packed, Id
  <2>5. Counted'
    BY <1>2, <2>2, <2>3 DEF SetBack, IdInv, Counted
  <2> QED BY <1>2, <2>1, <2>4, <2>5 DEF SetBack, IdInv
<1>3. ASSUME NEW n \in Node, SameTime(n) PROVE IdInv' /\ Larger
  <2>2. /\ clock[n] \in Nat /\ clock[n] = last[n] /\ pc[n] = "idle"
        /\ seq[n] \in 0..SeqSize-1 /\ seq[n] + 1 \in 0..SeqSize-1
    BY <1>t, <1>3 DEF SameTime, Typed
  <2>3. Newest(n) < Id(n, clock[n], seq[n] + 1)
    BY <2>2, IdOrder DEF Newest
  <2>4. pc'[n] = "idle" /\ seq'[n] = seq[n] + 1
        /\ \A m \in Node : m # n => pc'[m] = pc[m] /\ seq'[m] = seq[m]
    BY <1>t, <1>3 DEF SameTime, Typed
  <2>5. Return(n, clock[n], seq[n] + 1)
    BY <1>3 DEF SameTime
  <2>1. Typed'
    <3>1. pc' = pc /\ seq' = [seq EXCEPT ![n] = seq[n] + 1]
      BY <1>3 DEF SameTime
    <3> HIDE IdSizes, IdFields, IdNodes
    <3>2. seq' \in [Node -> 0..SeqSize-1]
      BY <1>t, <2>2, <3>1 DEF Typed
    <3>3. \A m \in Node : pc'[m] = "wait" => seq'[m] = 0
      BY <1>t, <2>2, <2>4 DEF Typed
    <3> QED BY <1>t, <2>2, <2>5, <3>1, <3>2, <3>3, ReturnTyped DEF Typed
  <2> QED BY <2>1, <2>2, <2>3, <2>4, <2>5, ReturnKeeps DEF IdInv
<1>4. ASSUME NEW n \in Node, Exhausted(n) PROVE IdInv' /\ Larger
  <2>1. Typed'
    BY <1>t, <1>4 DEF Exhausted, Typed
  <2>2. \A m \in Node : Newest(m)' = Newest(m)
    <3>1. /\ pc[n] = "idle" /\ seq[n] = SeqSize - 1
          /\ pc'[n] = "wait" /\ last' = last
          /\ \A m \in Node : m # n => pc'[m] = pc[m] /\ seq'[m] = seq[m]
      BY <1>t, <1>4 DEF Exhausted, Typed
    <3> QED BY <3>1 DEF Newest, Id
  <2>3. Packed'
    BY <1>4 DEF Exhausted, IdInv, Packed, Id
  <2>4. Counted'
    BY <1>4, <2>2 DEF Exhausted, IdInv, Counted
  <2> QED BY <1>4, <2>1, <2>3, <2>4 DEF Exhausted, IdInv
<1>5. ASSUME NEW n \in Node, NextTime(n) PROVE IdInv' /\ Larger
  <2>2. /\ clock[n] \in Nat /\ last[n] \in Nat /\ last[n] < clock[n]
        /\ pc[n] = "wait" /\ seq[n] \in 0..SeqSize-1 /\ SeqSize-1 \in 0..SeqSize-1
    BY <1>t, <1>5 DEF NextTime, Typed
  <2>3. Newest(n) < Id(n, clock[n], seq[n])
    BY <2>2, IdOrder DEF Newest
  <2>4. pc'[n] = "idle" /\ seq' = seq /\ \A m \in Node : m # n => pc'[m] = pc[m]
    BY <1>t, <1>5 DEF NextTime, Typed
  <2>5. Return(n, clock[n], seq[n])
    BY <1>5 DEF NextTime
  <2>1. Typed'
    <3>1. pc' = [pc EXCEPT ![n] = "idle"]
      BY <1>5 DEF NextTime
    <3> HIDE IdSizes, IdFields, IdNodes
    <3>2. pc' \in [Node -> {"idle", "wait"}]
      BY <1>t, <3>1 DEF Typed
    <3>3. \A m \in Node : pc'[m] = "wait" => seq'[m] = 0
      BY <1>t, <2>4 DEF Typed
    <3> QED BY <1>t, <2>2, <2>4, <2>5, <3>2, <3>3, ReturnTyped DEF Typed
  <2> QED BY <2>1, <2>2, <2>3, <2>4, <2>5, ReturnKeeps DEF IdInv
<1>6. ASSUME NEW n \in Node, OtherTime(n) PROVE IdInv' /\ Larger
  <2>2. /\ clock[n] \in Nat /\ last[n] \in Nat /\ last[n] # clock[n]
        /\ pc[n] = "idle" /\ seq[n] \in 0..SeqSize-1 /\ 0 \in 0..SeqSize-1
    BY <1>t, <1>6 DEF OtherTime, Typed
  <2>3. ~setBack[n] => last[n] < clock[n]
    BY <2>2 DEF IdInv, Counted
  <2>4. ~setBack[n] => Newest(n) < Id(n, clock[n], 0)
    BY <2>2, <2>3, IdOrder DEF Newest
  <2>5. /\ pc'[n] = "idle" /\ seq'[n] = 0
        /\ \A m \in Node : m # n => pc'[m] = pc[m] /\ seq'[m] = seq[m]
    BY <1>t, <1>6 DEF OtherTime, Typed
  <2>6. Return(n, clock[n], 0)
    BY <1>6 DEF OtherTime
  <2>1. Typed'
    <3>1. pc' = pc /\ seq' = [seq EXCEPT ![n] = 0]
      BY <1>6 DEF OtherTime
    <3> HIDE IdSizes, IdFields, IdNodes
    <3>2. seq' \in [Node -> 0..SeqSize-1]
      BY <1>t, <2>2, <3>1 DEF Typed
    <3>3. \A m \in Node : pc'[m] = "wait" => seq'[m] = 0
      BY <1>t, <2>5 DEF Typed
    <3> QED BY <1>t, <2>2, <2>6, <3>1, <3>2, <3>3, ReturnTyped DEF Typed
  <2> QED BY <2>1, <2>2, <2>4, <2>5, <2>6, ReturnKeeps DEF IdInv
<1>7. CASE UNCHANGED idVars
  <2>1. \A m \in Node : Newest(m)' = Newest(m)
    BY <1>7 DEF idVars, Newest, Id
  <2>2. Typed' /\ Packed'
    BY <1>7 DEF idVars, IdInv, Typed, Packed, Id
  <2>3. Counted'
    BY <1>7, <2>1 DEF idVars, IdInv, Counted
  <2> QED BY <1>7, <2>2, <2>3 DEF idVars, IdInv
<1> QED BY <1>1, <1>2, <1>3, <1>4, <1>5, <1>6, <1>7 DEF Next

LEMMA InvDuplicates == IdInv => NoDuplicates
BY DEF IdInv, Counted, NoDuplicates

LEMMA InvDisjoint == IdInv => NodesDisjoint
<1> SUFFICES ASSUME IdInv, NEW n \in Node, NEW m \in Node, n # m,
                    NEW x \in issued[n], x \in issued[m]
             PROVE  FALSE
  BY DEF NodesDisjoint
<1>1. PICK t \in Nat, s \in 0..SeqSize-1 : x = Id(n, t, s)
  BY DEF IdInv, Packed
<1>2. PICK u \in Nat, r \in 0..SeqSize-1 : x = Id(m, u, r)
  BY DEF IdInv, Packed
<1> QED BY <1>1, <1>2, IdUnique

(***************************************************************************)
(* A node whose clock is never set back returns a new id from every call.  *)
(***************************************************************************)
THEOREM NoDuplicatesCorrect == Spec => []NoDuplicates
<1>1. IdInv /\ [Next]_idVars => IdInv'
  BY NextInv
<1> QED BY InitInv, <1>1, InvDuplicates, PTL DEF Spec

(***************************************************************************)
(* Nodes with different datacenter or machine fields never share an id.    *)
(***************************************************************************)
THEOREM NodesDisjointCorrect == Spec => []NodesDisjoint
<1>1. IdInv /\ [Next]_idVars => IdInv'
  BY NextInv
<1> QED BY InitInv, <1>1, InvDisjoint, PTL DEF Spec

(***************************************************************************)
(* While its clock is not set back, each new id of a node exceeds all its  *)
(* earlier ones.                                                           *)
(***************************************************************************)
THEOREM IdsIncreaseCorrect == Spec => IdsIncrease
<1>1. IdInv /\ [Next]_idVars => IdInv'
  BY NextInv
<1>2. IdInv /\ [Next]_idVars =>
        [\A n \in Node : ~setBack'[n] =>
           \A x \in issued'[n] \ issued[n] : \A y \in issued[n] : y < x]_idVars
  BY NextInv
<1> QED BY InitInv, <1>1, <1>2, PTL DEF Spec, IdsIncrease

-----------------------------------------------------------------------------
(***************************************************************************)
(* Threads on one context (GfcIdThreads), for any number of threads, calls *)
(* and sequence numbers.  While a time T is not in raced at most one call  *)
(* is under way in T or has read T, and what such a call leaves in the     *)
(* context is what a sequential program would: that is Alone.              *)
(***************************************************************************)
Busy == {t \in IdThread : at[t] # "idle"}

SeqNumber == 0..SeqNumbers-1

Places == {"idle", "compare", "count", "store", "test", "wait", "restart", "leave", "answer"}

ThreadsTyped ==
  /\ now \in Nat /\ lastTime \in Nat /\ seqField \in SeqNumber
  /\ at \in [IdThread -> Places]
  /\ current \in [IdThread -> Nat] /\ until \in [IdThread -> Nat]
  /\ register \in [IdThread -> SeqNumber]
  /\ IsFiniteSet(Busy)
  /\ \A t \in IdThread : at[t] = "wait" => register[t] = 0

\* Nothing was answered for a time still to come, and no call has read one.
Timely ==
  /\ \A T \in Nat, s \in SeqNumber : <<T, s>> \in given => T <= now
  /\ \A t \in Busy : current[t] <= now

\* Calls that overlap have marked the time and what they have read.
Met == \A t, u \in Busy : t # u => now \in raced /\ current[t] \in raced

\* The numbers answered for time T are below m; there are none; at most m.
Below(T, m) == \A s \in SeqNumber : <<T, s>> \in given => s < m
Unused(T) == \A s \in SeqNumber : <<T, s>> \notin given
AtMost(T, m) == \A s \in SeqNumber : <<T, s>> \in given => s <= m

\* What a call that meets no other finds and leaves in the context.
AloneCall(t) ==
  LET T == current[t] IN
  /\ at[t] = "compare" => Unused(T) \/ (lastTime = T /\ AtMost(T, seqField))
  /\ at[t] = "restart" => Unused(T)
  /\ at[t] \in {"count", "store", "test", "answer"} => lastTime = T
  /\ at[t] = "count" => AtMost(T, seqField)
  /\ at[t] \in {"store", "test"} => register[t] = 0 \/ Below(T, register[t])
  /\ at[t] = "test" => register[t] = seqField
  /\ at[t] = "wait" => until[t] = T
  /\ at[t] \in {"leave", "answer"} => Below(T, register[t]) /\ register[t] <= seqField

\* The present time: it is unused, or it is the last one and the numbers go up to seqField.
AloneNow ==
  \/ Unused(now)
  \/ /\ lastTime = now
     /\ \A t \in Busy : current[t] = now
     /\ Busy = {} => AtMost(now, seqField)

Alone ==
  /\ now \notin raced => AloneNow
  /\ \A t \in Busy : current[t] \notin raced => AloneCall(t)

IdThreadsInv == ThreadsTyped /\ Timely /\ Met /\ Alone /\ RepeatsInRacedTimes

USE IdThreadsAssumption

\* A finite set with two members has more than one.
LEMMA TwoMembers ==
  ASSUME NEW S, IsFiniteSet(S), NEW x \in S, NEW y \in S, x # y
  PROVE  ~(Cardinality(S) < 2)
<1> HIDE IdSizes, IdFields, IdNodes
<1>1. IsFiniteSet({x}) /\ Cardinality({x}) = 1
  BY FS_Singleton
<1>2. Cardinality({x} \cup {y}) = 2
  BY <1>1, FS_AddElement
<1>3. {x} \cup {y} \in SUBSET S
  OBVIOUS
<1>4. Cardinality({x} \cup {y}) <= Cardinality(S) /\ Cardinality(S) \in Nat
  BY <1>3, FS_Subset, FS_CardinalityType
<1> QED BY <1>2, <1>4

\* What Watched sees to in every step.
LEMMA WatchedMeets ==
  ASSUME IsFiniteSet(Busy'), Watched
  PROVE  raced \subseteq raced' /\ Met'
<1>1. raced \subseteq raced'
  BY DEF Watched
<1>2. ASSUME NEW t \in Busy', NEW u \in Busy', t # u
      PROVE  now' \in raced' /\ current'[t] \in raced'
  <2>1. ~(Cardinality(Busy') < 2)
    BY <1>2, TwoMembers
  <2> QED BY <1>2, <2>1 DEF Watched, Busy
<1> QED BY <1>1, <1>2 DEF Met

\* What the step of thread t leaves alone: the calls of the others are not alone.
LEMMA OthersMet ==
  ASSUME ThreadsTyped, Met, Met', raced \subseteq raced', NEW t \in IdThread, NEW p, GoTo(t, p),
         NEW u \in Busy', u # t, current'[u] = current[u], at[t] # "idle" \/ p # "idle"
  PROVE  current'[u] \in raced'
<1>1. u \in Busy
  BY DEF Busy, GoTo, ThreadsTyped
<1>2. CASE at[t] # "idle"
  BY <1>1, <1>2 DEF Met, Busy
<1>3. CASE p # "idle"
  <2>1. t \in Busy'
    BY <1>3 DEF Busy, GoTo, ThreadsTyped
  <2> QED BY <2>1 DEF Met
<1> QED BY <1>2, <1>3

\* A step of thread t within its call.
CallStep(t) ==
  \/ CompareLast(t) \/ CountUp(t) \/ StoreSeq(t) \/ TestSeq(t)
  \/ WaitForTime(t) \/ RestartSeq(t) \/ StoreLast(t)

LEMMA CallStepTyped ==
  ASSUME ThreadsTyped, Timely, NEW t \in IdThread, CallStep(t)
  PROVE  /\ ThreadsTyped' /\ Timely' /\ Busy' = Busy /\ t \in Busy
         /\ \A u \in IdThread : u # t => current'[u] = current[u]
         /\ \E p \in Places : p # "idle" /\ GoTo(t, p)
         /\ now' = now /\ given' = given /\ repeated' = repeated
<1> USE DEF ThreadsTyped, Busy, SeqNumber, Places
<1>1. \E p \in Places : p # "idle" /\ GoTo(t, p)
  BY DEF CallStep, CompareLast, CountUp, StoreSeq, TestSeq, WaitForTime, RestartSeq, StoreLast
<1>2. at[t] # "idle"
  BY DEF CallStep, CompareLast, CountUp, StoreSeq, TestSeq, WaitForTime, RestartSeq, StoreLast
<1>3. Busy' = Busy /\ t \in Busy /\ at' \in [IdThread -> Places]
  BY <1>1, <1>2 DEF GoTo
<1>4. now' = now /\ given' = given /\ repeated' = repeated
  BY DEF CallStep, CompareLast, CountUp, StoreSeq, TestSeq, WaitForTime, RestartSeq, StoreLast
<1>5. current' = current \/ current' = [current EXCEPT ![t] = now]
  BY DEF CallStep, CompareLast, CountUp, StoreSeq, TestSeq, WaitForTime, RestartSeq, StoreLast
<1>6. /\ lastTime' \in Nat /\ seqField' \in SeqNumber
      /\ until' \in [IdThread -> Nat] /\ register' \in [IdThread -> SeqNumber]
  <2>1. (seqField + 1) % SeqNumbers \in SeqNumber
    OBVIOUS
  <2> QED BY <2>1 DEF CallStep, CompareLast, CountUp, StoreSeq, TestSeq, WaitForTime, RestartSeq, StoreLast
<1>7. \A u \in IdThread : at'[u] = "wait" => register'[u] = 0
  BY <1>6 DEF CallStep, CompareLast, CountUp, StoreSeq, TestSeq, WaitForTime, RestartSeq, StoreLast, GoTo
<1>8. ThreadsTyped'
  BY <1>3, <1>4, <1>5, <1>6, <1>7
<1>9. Timely'
  BY <1>3, <1>4, <1>5 DEF Timely
<1> QED BY <1>1, <1>3, <1>4, <1>5, <1>8, <1>9

\* Within a call: what the thread leaves behind if it met nobody.
LEMMA CallStepAlone ==
  ASSUME IdThreadsInv, ThreadsTyped', NEW t \in IdThread, CallStep(t), Met', raced \subseteq raced',
         current'[t] \notin raced'
  PROVE  AloneCall(t)'
<1>1. t \in Busy
  BY CallStepTyped DEF IdThreadsInv
<1>2. ThreadsTyped /\ Timely
  BY DEF IdThreadsInv
<1> USE DEF AloneCall, GoTo, AtMost, Below, Unused
<1>3. current'[t] = current[t] => AloneCall(t)
  BY <1>1 DEF IdThreadsInv, Alone
<1>4. CASE CompareLast(t)
  BY <1>2, <1>3, <1>4 DEF CompareLast, ThreadsTyped
<1>5. CASE CountUp(t)
  <2>1. (seqField + 1) % SeqNumbers = 0 \/ (seqField + 1) % SeqNumbers = seqField + 1
    BY <1>2 DEF ThreadsTyped, SeqNumber
  <2> QED BY <1>2, <1>3, <1>5, <2>1 DEF CountUp, ThreadsTyped, SeqNumber
<1>6. CASE StoreSeq(t)
  BY <1>2, <1>3, <1>6 DEF StoreSeq, ThreadsTyped, SeqNumber
<1>7. CASE TestSeq(t)
  BY <1>2, <1>3, <1>7 DEF TestSeq, ThreadsTyped, SeqNumber
<1>8. CASE WaitForTime(t)
  <2>1. current'[t] = now /\ now > until[t]
    BY <1>2, <1>8 DEF WaitForTime, Later, ThreadsTyped
  <2>2. current[t] # now
    BY <1>1, <1>2, <1>8, <2>1 DEF WaitForTime, IdThreadsInv, Alone, ThreadsTyped
  <2>3. Unused(now)
    BY <1>1, <2>1, <2>2 DEF IdThreadsInv, Alone, AloneNow
  <2> QED BY <1>2, <1>8, <2>1, <2>3 DEF WaitForTime, ThreadsTyped, SeqNumber
<1>9. CASE RestartSeq(t)
  BY <1>2, <1>3, <1>9 DEF RestartSeq, ThreadsTyped, SeqNumber
<1>10. CASE StoreLast(t)
  BY <1>2, <1>3, <1>10 DEF StoreLast, ThreadsTyped, SeqNumber
<1> QED BY <1>4, <1>5, <1>6, <1>7, <1>8, <1>9, <1>10 DEF CallStep

LEMMA CallStepKeeps ==
  ASSUME IdThreadsInv, NEW t \in IdThread, CallStep(t), Watched
  PROVE  IdThreadsInv'
<1>1. /\ ThreadsTyped' /\ Timely' /\ Busy' = Busy /\ t \in Busy
      /\ \A u \in IdThread : u # t => current'[u] = current[u]
      /\ now' = now /\ given' = given /\ repeated' = repeated
  BY CallStepTyped DEF IdThreadsInv
<1>2. PICK p \in Places : p # "idle" /\ GoTo(t, p)
  BY CallStepTyped DEF IdThreadsInv
<1>3. raced \subseteq raced' /\ Met'
  BY <1>1, WatchedMeets DEF ThreadsTyped
<1>4. RepeatsInRacedTimes'
  BY <1>1, <1>3 DEF IdThreadsInv, RepeatsInRacedTimes
<1>5. ASSUME NEW u \in Busy', current'[u] \notin raced'
      PROVE  AloneCall(u)'
  <2>1. u = t
    BY <1>1, <1>2, <1>3, <1>5, OthersMet DEF IdThreadsInv, Busy
  <2> QED BY <1>1, <1>3, <1>5, <2>1, CallStepAlone
<1>6. now' \notin raced' => AloneNow'
  <2> SUFFICES ASSUME now' \notin raced' PROVE AloneNow'
    OBVIOUS
  <2>1. AloneNow
    BY <1>1, <1>3 DEF IdThreadsInv, Alone
  <2>2. CASE Unused(now)
    BY <1>1, <2>2 DEF AloneNow, Unused
  <2>3. CASE lastTime = now /\ \A u \in Busy : current[u] = now
    <3>1. current[t] = now
      BY <1>1, <2>3
    <3>2. current'[t] = now /\ lastTime' = now
      BY <1>1, <2>3, <3>1 DEF CallStep, CompareLast, CountUp, StoreSeq, TestSeq, WaitForTime,
         RestartSeq, StoreLast, IdThreadsInv, ThreadsTyped, Busy
    <3>3. \A u \in Busy' : current'[u] = now'
      BY <1>1, <2>3, <3>2 DEF Busy
    <3> QED BY <1>1, <3>2, <3>3 DEF AloneNow
  <2> QED BY <2>1, <2>2, <2>3 DEF AloneNow
<1> QED BY <1>1, <1>3, <1>4, <1>5, <1>6 DEF IdThreadsInv, Alone

LEMMA ReadClockKeeps ==
  ASSUME IdThreadsInv, NEW t \in IdThread, ReadClock(t), Watched
  PROVE  IdThreadsInv'
<1> USE DEF GoTo
<1>1. /\ at[t] = "idle" /\ GoTo(t, "compare") /\ current' = [current EXCEPT ![t] = now]
      /\ now' = now /\ given' = given /\ repeated' = repeated
      /\ lastTime' = lastTime /\ seqField' = seqField /\ register' = register /\ until' = until
  BY DEF ReadClock
<1>2. Busy' = Busy \cup {t} /\ t \notin Busy /\ at' \in [IdThread -> Places]
  BY <1>1 DEF Busy, IdThreadsInv, ThreadsTyped, Places
<1>3. IsFiniteSet(Busy')
  BY <1>2, FS_AddElement DEF IdThreadsInv, ThreadsTyped
<1>4. ThreadsTyped'
  BY <1>1, <1>2, <1>3 DEF IdThreadsInv, ThreadsTyped
<1>5. Timely'
  BY <1>1, <1>2 DEF IdThreadsInv, ThreadsTyped, Timely, Busy
<1>6. raced \subseteq raced' /\ Met'
  BY <1>3, WatchedMeets
<1>7. RepeatsInRacedTimes'
  BY <1>1, <1>6 DEF IdThreadsInv, RepeatsInRacedTimes
<1>8. t \in Busy' /\ current'[t] = now
  BY <1>1, <1>2 DEF IdThreadsInv, ThreadsTyped
\* If the time is not marked nobody else is busy.
<1>9. ASSUME now' \notin raced'
      PROVE  Busy' = {t} /\ AloneNow' /\ AloneCall(t)'
  <2>1. Busy' = {t} /\ Busy = {}
    BY <1>2, <1>6, <1>8, <1>9 DEF Met
  <2>2. Unused(now) \/ (lastTime = now /\ AtMost(now, seqField))
    BY <1>1, <1>6, <1>9, <2>1 DEF IdThreadsInv, Alone, AloneNow
  <2>3. AloneNow'
    BY <1>1, <1>8, <2>1, <2>2 DEF AloneNow, Unused
  <2>4. AloneCall(t)'
    BY <1>1, <1>8, <2>2, <1>4 DEF AloneCall, Unused, AtMost, IdThreadsInv, ThreadsTyped
  <2> QED BY <2>1, <2>3, <2>4
<1>10. ASSUME NEW u \in Busy', current'[u] \notin raced'
       PROVE  AloneCall(u)'
  <2>1. u = t
    BY <1>1, <1>2, <1>6, <1>8, <1>10 DEF Met
  <2> QED BY <1>1, <1>8, <1>9, <1>10, <2>1
<1> QED BY <1>4, <1>5, <1>6, <1>7, <1>9, <1>10 DEF IdThreadsInv, Alone

LEMMA AnswerIdKeeps ==
  ASSUME IdThreadsInv, NEW t \in IdThread, AnswerId(t), Watched
  PROVE  IdThreadsInv'
<1> USE DEF GoTo
<1>1. /\ at[t] = "answer" /\ at' = [at EXCEPT ![t] = "idle"]
      /\ now' = now /\ lastTime' = lastTime /\ seqField' = seqField
      /\ current' = current /\ until' = until /\ register' = register
  BY DEF AnswerId
<1>2. PICK s \in {register[t], seqField} :
        /\ given' = given \cup {<<current[t], s>>}
        /\ repeated' = IF <<current[t], s>> \in given THEN repeated \cup {current[t]} ELSE repeated
  BY DEF AnswerId
<1>3. Busy' = Busy \ {t} /\ t \in Busy /\ at' \in [IdThread -> Places]
  BY <1>1 DEF Busy, IdThreadsInv, ThreadsTyped, Places
<1>4. IsFiniteSet(Busy')
  BY <1>3, FS_RemoveElement DEF IdThreadsInv, ThreadsTyped
<1>5. ThreadsTyped' /\ s \in SeqNumber
  BY <1>1, <1>2, <1>3, <1>4 DEF IdThreadsInv, ThreadsTyped
<1>6. Timely'
  BY <1>1, <1>2, <1>3 DEF IdThreadsInv, ThreadsTyped, Timely, Busy
<1>7. raced \subseteq raced' /\ Met'
  BY <1>4, WatchedMeets
<1>8. ASSUME current[t] \notin raced
      PROVE  /\ lastTime = current[t] /\ s <= seqField
             /\ <<current[t], s>> \notin given /\ AtMost(current[t], seqField)
  <2>1. AloneCall(t)
    BY <1>3, <1>8 DEF IdThreadsInv, Alone
  <2>2. lastTime = current[t] /\ Below(current[t], register[t]) /\ register[t] <= seqField
    BY <1>1, <2>1 DEF AloneCall
  <2>3. register[t] \in SeqNumber /\ seqField \in SeqNumber
    BY <1>5, <1>1, <1>3 DEF ThreadsTyped, Busy
  <2>4. register[t] <= s /\ s <= seqField
    BY <1>2, <2>2, <2>3 DEF SeqNumber
  <2> QED BY <1>5, <2>2, <2>3, <2>4 DEF Below, AtMost, SeqNumber
<1>9. RepeatsInRacedTimes'
  BY <1>2, <1>7, <1>8 DEF IdThreadsInv, RepeatsInRacedTimes
<1>10. ASSUME NEW u \in Busy', current'[u] \notin raced'
       PROVE  AloneCall(u)'
  BY <1>1, <1>3, <1>7, <1>10 DEF IdThreadsInv, Met
<1>11. ASSUME now' \notin raced'
       PROVE  AloneNow'
  <2>1. now \notin raced /\ Busy = {t} /\ Busy' = {}
    BY <1>1, <1>3, <1>7, <1>11 DEF IdThreadsInv, Met
  <2>2. CASE current[t] = now
    <3>1. lastTime = now /\ s <= seqField /\ AtMost(now, seqField)
      BY <1>8, <2>1, <2>2
    <3>2. AtMost(now, seqField)'
      BY <1>1, <1>2, <2>2, <3>1 DEF AtMost
    <3> QED BY <1>1, <2>1, <3>1, <3>2 DEF AloneNow
  <2>3. CASE current[t] # now
    <3>1. Unused(now)
      BY <1>3, <2>1, <2>3 DEF IdThreadsInv, Alone, AloneNow
    <3> QED BY <1>1, <1>2, <2>3, <3>1 DEF Unused, AloneNow
  <2> QED BY <2>2, <2>3
<1> QED BY <1>5, <1>6, <1>7, <1>9, <1>10, <1>11 DEF IdThreadsInv, Alone

\* The clock goes on: the new time is unused.
LEMMA MillisecondKeeps ==
  ASSUME IdThreadsInv, Millisecond, Watched
  PROVE  IdThreadsInv'
<1>1. /\ now' = now + 1 /\ at' = at /\ given' = given /\ repeated' = repeated /\ current' = current
      /\ lastTime' = lastTime /\ seqField' = seqField /\ register' = register /\ until' = until
  BY DEF Millisecond
<1>2. Busy' = Busy
  BY <1>1 DEF Busy
<1>3. ThreadsTyped'
  BY <1>1, <1>2 DEF IdThreadsInv, ThreadsTyped
<1>4. Timely'
  BY <1>1, <1>2 DEF IdThreadsInv, ThreadsTyped, Timely, Busy
<1>5. raced \subseteq raced' /\ Met'
  BY <1>3, WatchedMeets DEF ThreadsTyped
<1>6. Unused(now)'
  BY <1>1 DEF IdThreadsInv, ThreadsTyped, Timely, Unused
<1>7. ASSUME NEW u \in Busy', current'[u] \notin raced'
      PROVE  AloneCall(u)'
  <2>1. u \in Busy /\ current[u] \notin raced
    BY <1>1, <1>2, <1>5, <1>7
  <2>2. AloneCall(u)
    BY <2>1 DEF IdThreadsInv, Alone
  <2> QED BY <1>1, <2>2 DEF AloneCall, Unused, AtMost, Below
<1>8. RepeatsInRacedTimes'
  BY <1>1, <1>5 DEF IdThreadsInv, RepeatsInRacedTimes
<1> QED BY <1>3, <1>4, <1>5, <1>6, <1>7, <1>8 DEF IdThreadsInv, Alone, AloneNow

LEMMA IdThreadsInitInv == IdThreadsInit => IdThreadsInv
<1> SUFFICES ASSUME IdThreadsInit PROVE IdThreadsInv
  OBVIOUS
<1>1. Busy = {} /\ IsFiniteSet(Busy)
  <2>1. Busy = {}
    BY DEF IdThreadsInit, Busy
  <2> QED BY <2>1, FS_EmptySet
<1> QED BY <1>1 DEF IdThreadsInit, IdThreadsInv, ThreadsTyped, SeqNumber, Places, Timely, Met, Alone,
          AloneNow, Unused, RepeatsInRacedTimes

LEMMA IdThreadsStep == IdThreadsInv /\ [IdThreadsNext]_idThreadVars => IdThreadsInv'
<1> SUFFICES ASSUME IdThreadsInv, [IdThreadsNext]_idThreadVars PROVE IdThreadsInv'
  OBVIOUS
<1>1. CASE UNCHANGED idThreadVars
  BY <1>1 DEF idThreadVars, IdThreadsInv, ThreadsTyped, Busy, Timely, Met, Alone, AloneNow, AloneCall,
     Unused, AtMost, Below, RepeatsInRacedTimes
<1>2. CASE IdThreadsNext
  <2>1. Watched
    BY <1>2 DEF IdThreadsNext
  <2>2. CASE Millisecond
    BY <2>1, <2>2, MillisecondKeeps
  <2>3. ASSUME NEW t \in IdThread, ReadClock(t) PROVE IdThreadsInv'
    BY <2>1, <2>3, ReadClockKeeps
  <2>4. ASSUME NEW t \in IdThread, CallStep(t) PROVE IdThreadsInv'
    BY <2>1, <2>4, CallStepKeeps
  <2>5. ASSUME NEW t \in IdThread, AnswerId(t) PROVE IdThreadsInv'
    BY <2>1, <2>5, AnswerIdKeeps
  <2> QED BY <1>2, <2>2, <2>3, <2>4, <2>5 DEF IdThreadsNext, CallStep
<1> QED BY <1>1, <1>2

(***************************************************************************)
(* An id is repeated only in a millisecond in which calls overlapped or    *)
(* that an overlapping call had read, for any number of threads, calls and *)
(* sequence numbers.                                                       *)
(***************************************************************************)
THEOREM RepeatsCorrect == IdThreadsSpec => []RepeatsInRacedTimes
<1>1. IdThreadsInv => RepeatsInRacedTimes
  BY DEF IdThreadsInv
<1> QED BY IdThreadsInitInv, IdThreadsStep, <1>1, PTL DEF IdThreadsSpec
=============================================================================
