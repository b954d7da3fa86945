---------------------------- MODULE GfcLru_proofs ----------------------------
(***************************************************************************)
(* The cache for any number of keys, chains and items, and any capacity.   *)
(*                                                                         *)
(* Of a careful client's cache the chains are laid out (Laid): there is a  *)
(* function from chains and places to items that the next pointers follow, *)
(* that puts no item in two places, and that leaves out one item at most,  *)
(* the free one.  Removing an item and appending one give such a function  *)
(* again; all that is said of walks follows from it.  That no second item  *)
(* becomes free needs values of one length: an eviction makes room for the *)
(* whole value.  The memory follows from sums over finite sets, which this *)
(* module has to build from their recursive definition.                    *)
(* The view as an LRU cache needs that the items alive have keys of their  *)
(* own and ranks without a gap (RankInv): then an item used again moves to *)
(* the end of the order, and the one the loop finds is the first of it.    *)
(***************************************************************************)
EXTENDS GfcLru, FiniteSetTheorems, SequenceTheorems, WellFoundedInduction, TLAPS

LEMMA LeastOf ==
  ASSUME NEW S, S \subseteq Nat, S # {}
  PROVE  /\ \E m \in S : \A n \in S : m <= n
         /\ Min(S) \in S /\ \A n \in S : Min(S) <= n
<1> DEFINE R == {ss \in Nat \X Nat : ss[1] < ss[2]}
<1>1. IsWellFoundedOn(R, Nat)
  BY NatLessThanWellFounded DEF OpToRel
<1>2. \A k, m \in S : <<k, m>> \in R <=> k < m
  OBVIOUS
<1> HIDE DEF R
<1>3. \E m \in S : \A k \in S : ~(<<k, m>> \in R)
  BY <1>1, WFMin, Zenon
<1>4. PICK m \in S : \A k \in S : ~(<<k, m>> \in R)
  BY <1>3
<1>5. \A k \in S : ~(k < m)
  BY <1>2, <1>4, Zenon
<1>6. \A k \in S : m <= k
  BY <1>4, <1>5
<1>7. \E d \in S : \A e \in S : d <= e
  BY <1>4, <1>6, Zenon
<1> QED BY <1>7, Zenon DEF Min

-----------------------------------------------------------------------------
\* w is the walk from i in the items it, of at most m steps.
WalkOf(it, i, w, m) ==
  w = [n \in 0..m |-> IF n = 0 THEN i
                      ELSE IF w[n-1] \in DOMAIN it THEN it[w[n-1]].next ELSE w[n-1]]

LEMMA WalkUnique ==
  ASSUME NEW it, NEW i, NEW m \in Nat, NEW v, NEW w, WalkOf(it, i, v, m), WalkOf(it, i, w, m)
  PROVE  v = w
<1> DEFINE Bad == {n \in 0..m : v[n] # w[n]}
<1>1. /\ v = [n \in 0..m |-> IF n = 0 THEN i
                      ELSE IF v[n-1] \in DOMAIN it THEN it[v[n-1]].next ELSE v[n-1]]
      /\ w = [n \in 0..m |-> IF n = 0 THEN i
                      ELSE IF w[n-1] \in DOMAIN it THEN it[w[n-1]].next ELSE w[n-1]]
  BY DEF WalkOf
<1>2. v = [n \in 0..m |-> v[n]] /\ w = [n \in 0..m |-> w[n]]
  BY <1>1
<1>3. ASSUME Bad # {} PROVE FALSE
  <2>1. Bad \subseteq Nat
    OBVIOUS
  <2> HIDE DEF Bad
  <2>2. PICK n \in Bad : \A k \in Bad : n <= k
    BY <1>3, <2>1, LeastOf
  <2> USE DEF Bad
  <2>3. CASE n = 0
    BY <1>1, <2>2, <2>3
  <2>4. CASE n # 0
    <3>1. n-1 \in 0..m /\ ~(n <= n-1) /\ n \in 0..m
      BY <2>2, <2>4
    <3>2. v[n-1] = w[n-1]
      BY <2>2, <3>1
    <3>3. v[n] = IF v[n-1] \in DOMAIN it THEN it[v[n-1]].next ELSE v[n-1]
      BY <1>1, <2>4, <3>1
    <3>4. w[n] = IF w[n-1] \in DOMAIN it THEN it[w[n-1]].next ELSE w[n-1]
      BY <1>1, <2>4, <3>1
    <3> QED BY <2>2, <3>2, <3>3, <3>4
  <2> QED BY <2>3, <2>4
<1>4. \A n \in 0..m : v[n] = w[n]
  BY <1>3
<1> QED BY <1>2, <1>4

LEMMA WalkExists ==
  ASSUME NEW it, NEW i, NEW m \in Nat
  PROVE  \E w : WalkOf(it, i, w, m)
<1> DEFINE Bad == {n \in Nat : ~\E w : WalkOf(it, i, w, n)}
<1> SUFFICES ASSUME Bad # {} PROVE FALSE
  OBVIOUS
<1>1. PICK n \in Bad : \A k \in Bad : n <= k
  BY LeastOf
<1>2. CASE n = 0
  <2>1. WalkOf(it, i, [k \in 0..0 |-> i], 0)
    BY DEF WalkOf
  <2> QED BY <1>1, <1>2, <2>1
<1>3. CASE n # 0
  <2>1. n-1 \in Nat /\ ~(n <= n-1)
    BY <1>1, <1>3
  <2>2. PICK w : WalkOf(it, i, w, n-1)
    BY <1>1, <2>1
  <2>3. w = [k \in 0..n-1 |-> IF k = 0 THEN i
                      ELSE IF w[k-1] \in DOMAIN it THEN it[w[k-1]].next ELSE w[k-1]]
    BY <2>2 DEF WalkOf
  <2> DEFINE v == [k \in 0..n |-> IF k = 0 THEN i
                      ELSE IF w[k-1] \in DOMAIN it THEN it[w[k-1]].next ELSE w[k-1]]
  <2>4. ASSUME NEW k \in 0..n-1 PROVE v[k] = w[k]
    <3>1. w[k] = IF k = 0 THEN i ELSE IF w[k-1] \in DOMAIN it THEN it[w[k-1]].next ELSE w[k-1]
      BY <2>3
    <3>2. k \in 0..n
      BY <1>1
    <3> QED BY <3>1, <3>2
  <2>5. \A k \in 0..n : v[k] = IF k = 0 THEN i
                      ELSE IF v[k-1] \in DOMAIN it THEN it[v[k-1]].next ELSE v[k-1]
    <3> SUFFICES ASSUME NEW k \in 0..n, k # 0
                 PROVE  v[k] = IF v[k-1] \in DOMAIN it THEN it[v[k-1]].next ELSE v[k-1]
      BY <1>1
    <3>1. k-1 \in 0..n-1
      OBVIOUS
    <3>2. v[k-1] = w[k-1]
      BY <2>4, <3>1
    <3> QED BY <3>2
  <2>6. v = [k \in 0..n |-> v[k]]
    OBVIOUS
  <2> HIDE DEF v
  <2>7. v = [k \in 0..n |-> IF k = 0 THEN i
                      ELSE IF v[k-1] \in DOMAIN it THEN it[v[k-1]].next ELSE v[k-1]]
    BY <2>5, <2>6
  <2>8. WalkOf(it, i, v, n)
    BY <2>7, Zenon DEF WalkOf
  <2> QED BY <1>1, <2>8
<1> QED BY <1>2, <1>3

LEMMA WalkIs ==
  ASSUME NEW i, NEW w, WalkOf(item, i, w, MaxItems)
  PROVE  Walk(i) = w
<1>1. Walk(i) = CHOOSE v : WalkOf(item, i, v, MaxItems)
  BY Zenon DEF Walk, WalkOf, Born
<1>2. WalkOf(item, i, Walk(i), MaxItems)
  BY <1>1
<1>3. MaxItems \in Nat
  BY LruSizes
<1> QED BY <1>2, <1>3, WalkUnique

-----------------------------------------------------------------------------
Chains == 0..HashSize-1

ItemOver(B) ==
  [key : Key \cup {Null}, value : Value \cup {Null}, len : 0..Word-1,
   rank : Nat, next : B \cup {Null}]

Nodes == 1..MaxItems

\* Where pointers lead: to items, or anywhere if malloc leaves pointers behind.
Ptrs == IF Zeroed THEN Born ELSE Nodes

\* What every client leaves: items and pointers.
TypeInv ==
  /\ client \in Clients
  /\ fresh \in Memories /\ (Careful => Zeroed)
  /\ pc \in {"idle", "fit", "stuck", "freed", "aborted"}
  /\ Born \subseteq Nodes
  /\ item \in [Born -> ItemOver(Ptrs)]
  /\ items \in [Chains -> Ptrs \cup {Null}]
  /\ free_items \in Ptrs \cup {Null}
  /\ free_memory \in Nat /\ required \in 0..Word-1

LEMMA BornFinite ==
  ASSUME TypeInv
  PROVE  /\ IsFiniteSet(Born) /\ Born \subseteq Ptrs /\ Ptrs \subseteq Nodes /\ Born \subseteq Nodes
         /\ Null \notin Born /\ Null \notin Ptrs /\ Null \notin Nodes
         /\ MaxItems \in Nat /\ Word \in Nat /\ HashSize \in Nat \ {0}
<1>1. MaxItems \in Nat /\ Word \in Nat
  BY LruSizes
<1>2. IsFiniteSet(Nodes)
  BY <1>1, FS_Interval DEF Nodes
<1>3. Born \subseteq Nodes
  BY DEF TypeInv
<1>4. IsFiniteSet(Born)
  BY <1>2, <1>3, FS_Subset
<1>5. Null \notin Nodes
  BY LruNull DEF Nodes
<1>6. Born \subseteq Ptrs /\ Ptrs \subseteq Nodes
  BY <1>3 DEF Ptrs
<1> QED BY <1>1, <1>3, <1>4, <1>5, <1>6, LruHash

\* A careful client's pointers lead to items.
LEMMA CarefulType ==
  ASSUME TypeInv, Careful
  PROVE  /\ Zeroed /\ Ptrs = Born
         /\ item \in [Born -> ItemOver(Born)]
         /\ items \in [Chains -> Born \cup {Null}]
         /\ free_items \in Born \cup {Null}
  BY DEF TypeInv, Ptrs

LEMMA AnyWalk ==
  ASSUME TypeInv, NEW i \in Ptrs \cup {Null}
  PROVE  /\ Walk(i) \in [0..MaxItems -> Ptrs \cup {Null}]
         /\ Walk(i)[0] = i
         /\ \A n \in 0..MaxItems-1 :
              Walk(i)[n+1] = IF Walk(i)[n] \in Born THEN item[Walk(i)[n]].next ELSE Walk(i)[n]
<1>1. MaxItems \in Nat
  BY LruSizes
<1>2. PICK w : WalkOf(item, i, w, MaxItems)
  BY <1>1, WalkExists
<1>3. Walk(i) = w
  BY <1>2, WalkIs
<1>4. w = [n \in 0..MaxItems |-> IF n = 0 THEN i
                      ELSE IF w[n-1] \in Born THEN item[w[n-1]].next ELSE w[n-1]]
  BY <1>2 DEF WalkOf, Born
<1>5. w[0] = i /\ DOMAIN w = 0..MaxItems
  BY <1>1, <1>4
<1>6. \A n \in 0..MaxItems-1 :
        w[n+1] = IF w[n] \in Born THEN item[w[n]].next ELSE w[n]
  <2> SUFFICES ASSUME NEW n \in 0..MaxItems-1
               PROVE  w[n+1] = IF w[n] \in Born THEN item[w[n]].next ELSE w[n]
    OBVIOUS
  <2>1. n+1 \in 0..MaxItems /\ n+1 # 0 /\ (n+1)-1 = n
    BY <1>1
  <2> QED BY <1>4, <2>1
<1> DEFINE Bad == {n \in 0..MaxItems : w[n] \notin Ptrs \cup {Null}}
<1>7. Bad \subseteq Nat
  OBVIOUS
<1>8. ASSUME Bad # {} PROVE FALSE
  <2> HIDE DEF Bad
  <2>1. PICK n \in Bad : \A k \in Bad : n <= k
    BY <1>7, <1>8, LeastOf
  <2> USE DEF Bad
  <2>2. n # 0
    BY <1>5, <2>1
  <2>3. n-1 \in 0..MaxItems-1 /\ ~(n <= n-1) /\ (n-1)+1 = n
    BY <1>1, <2>1, <2>2
  <2>4. w[n-1] \in Ptrs \cup {Null}
    BY <1>1, <2>1, <2>3
  <2>5. w[n] = IF w[n-1] \in Born THEN item[w[n-1]].next ELSE w[n-1]
    BY <1>6, <2>3
  <2>6. w[n-1] \in Born => item[w[n-1]].next \in Ptrs \cup {Null}
    BY DEF TypeInv, ItemOver
  <2> QED BY <2>1, <2>4, <2>5, <2>6
<1>9. w = [n \in 0..MaxItems |-> w[n]]
  BY <1>4
<1> QED BY <1>3, <1>5, <1>6, <1>8, <1>9

LEMMA WalkSteps ==
  ASSUME TypeInv, Careful, NEW i \in Born \cup {Null}
  PROVE  /\ Walk(i) \in [0..MaxItems -> Born \cup {Null}]
         /\ Walk(i)[0] = i
         /\ \A n \in 0..MaxItems-1 :
              Walk(i)[n+1] = IF Walk(i)[n] = Null THEN Null ELSE item[Walk(i)[n]].next
<1> DEFINE w == Walk(i)
<1>1. Ptrs = Born /\ Null \notin Born /\ MaxItems \in Nat
  BY CarefulType, BornFinite
<1>2. /\ w \in [0..MaxItems -> Born \cup {Null}]
      /\ w[0] = i
      /\ \A n \in 0..MaxItems-1 :
           w[n+1] = IF w[n] \in Born THEN item[w[n]].next ELSE w[n]
  BY <1>1, AnyWalk
<1> HIDE DEF w
<1>3. ASSUME NEW n \in 0..MaxItems-1 PROVE w[n] \in Born \cup {Null}
  <2>1. n \in 0..MaxItems
    BY <1>1
  <2> QED BY <1>2, <2>1
<1>4. \A n \in 0..MaxItems-1 : w[n+1] = IF w[n] = Null THEN Null ELSE item[w[n]].next
  BY <1>1, <1>2, <1>3
<1> QED BY <1>2, <1>4 DEF w

\* Where no item is the walk stays.
LEMMA WalkStays ==
  ASSUME TypeInv, NEW i \in Ptrs \cup {Null}, NEW a \in 0..MaxItems, Walk(i)[a] \notin Born
  PROVE  Walk(i)[MaxItems] = Walk(i)[a]
<1> DEFINE w == Walk(i)
           Bad == {n \in a..MaxItems : w[n] # w[a]}
<1>1. MaxItems \in Nat
  BY LruSizes
<1>2. \A n \in 0..MaxItems-1 : w[n+1] = IF w[n] \in Born THEN item[w[n]].next ELSE w[n]
  BY AnyWalk
<1> HIDE DEF w
<1>3. ASSUME Bad # {} PROVE FALSE
  <2>1. Bad \subseteq Nat
    BY <1>1
  <2> HIDE DEF Bad
  <2>2. PICK n \in Bad : \A k \in Bad : n <= k
    BY <1>3, <2>1, LeastOf
  <2> USE DEF Bad
  <2>3. n # a
    BY <2>2
  <2>4. n-1 \in 0..MaxItems-1 /\ n-1 \in a..MaxItems /\ ~(n <= n-1) /\ (n-1)+1 = n
    BY <1>1, <2>2, <2>3
  <2>5. w[n-1] = w[a]
    BY <2>2, <2>4
  <2>6. w[n] = IF w[n-1] \in Born THEN item[w[n-1]].next ELSE w[n-1]
    BY <1>2, <2>4
  <2> QED BY <2>2, <2>5, <2>6 DEF w
<1> QED BY <1>1, <1>3 DEF w

\* Where the search for k stops, and what it passes.
LEMMA StopPlace ==
  ASSUME TypeInv, NEW k \in Key, Stops(k) # {}
  PROVE  /\ Hash[k] \in Chains
         /\ Min(Stops(k)) \in 0..MaxItems
         /\ StopAt(k) = Walk(items[Hash[k]])[Min(Stops(k))]
         /\ StopAt(k) \in Born \cup {Null} /\ PrevOf(k) \in Born \cup {Null}
         /\ StopAt(k) # Null => item[StopAt(k)].key = k
         /\ \A n \in 0..MaxItems : n < Min(Stops(k)) =>
              /\ Walk(items[Hash[k]])[n] # Null
              /\ Walk(items[Hash[k]])[n] \in Born => item[Walk(items[Hash[k]])[n]].key # k
<1> DEFINE w == Walk(items[Hash[k]])
           x == Min(Stops(k))
<1>1. Hash[k] \in Chains
  BY LruHash DEF Chains
<1>2. items[Hash[k]] \in Ptrs \cup {Null}
  BY <1>1 DEF TypeInv
<1>3. /\ w \in [0..MaxItems -> Ptrs \cup {Null}]
      /\ \A n \in 0..MaxItems-1 : w[n+1] = IF w[n] \in Born THEN item[w[n]].next ELSE w[n]
  BY <1>2, AnyWalk
<1>4. Stops(k) = {n \in 0..MaxItems : w[n] = Null \/ (w[n] \in Born /\ item[w[n]].key = k)}
  BY DEF Stops
<1>5. Stops(k) \subseteq Nat
  BY <1>4
<1>6. x \in Stops(k) /\ \A e \in Stops(k) : x <= e
  BY <1>5, LeastOf
<1>7. StopAt(k) = w[x]
  BY DEF StopAt
<1>8. PrevOf(k) = IF x = 0 THEN Null ELSE w[x - 1]
  BY DEF PrevOf
<1>9. x \in 0..MaxItems
  BY <1>4, <1>6
<1> HIDE DEF w, x
<1>10. \A n \in 0..MaxItems : n < x => n \notin Stops(k)
  BY <1>6, <1>9
<1>11. \A n \in 0..MaxItems : n < x => w[n] # Null /\ (w[n] \in Born => item[w[n]].key # k)
  BY <1>4, <1>10
<1>12. StopAt(k) = Null \/ (StopAt(k) \in Born /\ item[StopAt(k)].key = k)
  BY <1>4, <1>6, <1>7
<1>13. ASSUME x # 0 PROVE w[x-1] \in Born
  <2>1. x-1 \in 0..MaxItems-1 /\ x-1 \in 0..MaxItems /\ x-1 < x /\ (x-1)+1 = x
    BY <1>9, <1>13, LruSizes
  <2>2. w[x] = IF w[x-1] \in Born THEN item[w[x-1]].next ELSE w[x-1]
    BY <1>3, <2>1
  <2>3. w[x-1] # Null
    BY <1>11, <2>1
  <2> QED BY <1>7, <1>12, <2>2, <2>3
<1>14. StopAt(k) \in Born \cup {Null} /\ PrevOf(k) \in Born \cup {Null}
  BY <1>8, <1>12, <1>13
<1> QED BY <1>1, <1>7, <1>9, <1>11, <1>12, <1>14, BornFinite DEF w, x

\* Only the rank is another.
Alike(a, b) == a.key = b.key /\ a.value = b.value /\ a.len = b.len /\ a.next = b.next

LEMMA TouchKeeps ==
  ASSUME NEW D, IsFiniteSet(D), NEW B, NEW f \in [D -> ItemOver(B)], NEW i \in D
  PROVE  /\ Touch(f, i) \in [D -> ItemOver(B)]
         /\ \A j \in D : Alike(Touch(f, i)[j], f[j])
<1> DEFINE used == {j \in DOMAIN f : f[j].rank > 0} \cup {i}
           top == Cardinality(used)
<1>1. used \subseteq D
  OBVIOUS
<1>2. top \in Nat
  <2> HIDE DEF used
  <2> QED BY <1>1, FS_Subset, FS_CardinalityType
<1>3. Touch(f, i) = [j \in D |->
         IF j = i THEN [f[j] EXCEPT !.rank = top]
         ELSE IF f[i].rank > 0 /\ f[j].rank > f[i].rank
              THEN [f[j] EXCEPT !.rank = @ - 1]
         ELSE f[j]]
  BY DEF Touch
<1> HIDE DEF top
<1> SUFFICES ASSUME NEW j \in D
             PROVE  Touch(f, i)[j] \in ItemOver(B) /\ Alike(Touch(f, i)[j], f[j])
  BY <1>3
<1>4. f[j] \in ItemOver(B) /\ f[i] \in ItemOver(B)
  OBVIOUS
<1>5. f[i].rank > 0 /\ f[j].rank > f[i].rank => f[j].rank - 1 \in Nat
  BY <1>4 DEF ItemOver
<1> QED BY <1>2, <1>3, <1>4, <1>5 DEF ItemOver, Alike

-----------------------------------------------------------------------------
\* What the items are after each call.
LEMMA Updated ==
  ASSUME TypeInv, NEW k \in Key, NEW v \in Value, NEW n \in Lengths, SetUpdate(k, v, n)
  PROVE  /\ StopAt(k) \in Born
         /\ item' \in [Born -> ItemOver(Ptrs)]
         /\ \A j \in Born : /\ item'[j].key = item[j].key /\ item'[j].next = item[j].next
                            /\ j # StopAt(k) => item'[j].len = item[j].len
         /\ item'[StopAt(k)].len = n
<1> DEFINE i == StopAt(k)
           f == [item EXCEPT ![i].value = v, ![i].len = n]
<1>1. i \in Born
  BY StopPlace DEF SetUpdate
<1>2. item' = Touch(f, i)
  BY DEF SetUpdate
<1>3. item \in [Born -> ItemOver(Ptrs)] /\ n \in 0..Word-1
  BY LruSizes DEF TypeInv
<1> HIDE DEF i
<1>4. f \in [Born -> ItemOver(Ptrs)]
  BY <1>1, <1>3 DEF ItemOver
<1>5. \A j \in Born : /\ f[j].key = item[j].key /\ f[j].next = item[j].next
                      /\ j # i => f[j].len = item[j].len
  BY <1>1, <1>3 DEF ItemOver
<1>6. f[i].len = n
  BY <1>1, <1>3 DEF ItemOver
<1> HIDE DEF f
<1>7. /\ Touch(f, i) \in [Born -> ItemOver(Ptrs)]
      /\ \A j \in Born : Alike(Touch(f, i)[j], f[j])
  BY <1>1, <1>4, BornFinite, TouchKeeps
<1>8. \A j \in Born : Alike(item'[j], f[j])
  BY <1>2, <1>7
<1>9. \A j \in Born : /\ item'[j].key = f[j].key /\ item'[j].next = f[j].next
                      /\ item'[j].len = f[j].len
  BY <1>8 DEF Alike
<1> QED BY <1>1, <1>2, <1>5, <1>6, <1>7, <1>9 DEF i

LEMMA PoppedIs ==
  ASSUME TypeInv, NEW k \in Key, NEW v \in Value, NEW n \in Lengths, SetInsert(k, v, n)
  PROVE  /\ Popped \in Nodes /\ Null # Popped
         /\ free_items = Null => Popped \notin Born
         /\ free_items # Null => Popped = free_items
<1>1. free_items \in Ptrs \cup {Null} /\ Ptrs \subseteq Nodes /\ Null \notin Nodes
  BY BornFinite DEF TypeInv
<1>2. CASE free_items # Null
  BY <1>1, <1>2 DEF Popped
<1>3. CASE free_items = Null
  <2>1. Born # Nodes
    BY <1>3 DEF SetInsert, Nodes
  <2>2. \E i \in Nodes : i \notin Born
    BY <2>1, BornFinite
  <2>3. Popped = CHOOSE i \in Nodes : i \notin Born
    BY <1>3 DEF Popped, Nodes
  <2> QED BY <1>1, <1>3, <2>2, <2>3
<1> QED BY <1>2, <1>3

\* Where pointers lead once i is an item.
PtrsWith(i) == IF Zeroed THEN Born \cup {i} ELSE Nodes

LEMMA Inserted ==
  ASSUME TypeInv, NEW k \in Key, NEW v \in Value, NEW n \in Lengths, SetInsert(k, v, n)
  PROVE  LET i == Popped
         IN  /\ i \in Nodes
             /\ free_items = Null => i \notin Born
             /\ free_items # Null => i = free_items
             /\ item' \in [Born \cup {i} -> ItemOver(PtrsWith(i))]
             /\ free_items' \in PtrsWith(i) \cup {Null}
             /\ Zeroed => free_items' = IF free_items # Null THEN item[free_items].next ELSE Null
             /\ item'[i].key = k /\ item'[i].len = n
             /\ Zeroed => item'[i].next = IF PrevOf(k) = i THEN i
                                          ELSE IF i \in Born THEN item[i].next ELSE Null
             /\ \A j \in Born \ {i} :
                  /\ item'[j].key = item[j].key /\ item'[j].len = item[j].len
                  /\ item'[j].next = IF j = PrevOf(k) THEN i ELSE item[j].next
<1> PICK left \in fresh :
      /\ item' = Touch(Link(Filled(Popped, k, v, n, left), PrevOf(k), Popped), Popped)
      /\ free_items' = IF free_items # Null THEN NextOf(free_items, left) ELSE Null
  BY DEF SetInsert
<1> DEFINE i == Popped
           p == PrevOf(k)
           B == Born \cup {i}
           A == PtrsWith(i)
           f == Filled(i, k, v, n, left)
           g == Link(f, p, i)
<1>1. /\ i \in Nodes /\ i # Null /\ p \in Born \cup {Null}
      /\ free_items = Null => i \notin Born
      /\ free_items # Null => i = free_items
  BY PoppedIs, StopPlace DEF SetInsert
<1>2. item' = Touch(g, i)
  OBVIOUS
<1>3. item \in [Born -> ItemOver(Ptrs)] /\ n \in 0..Word-1 /\ Null \notin B
  BY <1>1, LruSizes, BornFinite DEF TypeInv
<1>4. i \in B /\ IsFiniteSet(B) /\ p \in B \cup {Null}
  BY <1>1, BornFinite, FS_AddElement
<1>5. f = [j \in B |->
     IF j = i THEN [key |-> k, value |-> v, len |-> n, rank |-> 0,
                    next |-> IF i \in Born THEN item[i].next ELSE left]
     ELSE item[j]]
  BY DEF Filled, NextOf
<1>5a. Ptrs \subseteq A /\ i \in A
  BY <1>1, BornFinite DEF PtrsWith, Ptrs
<1>5b. left \in A \cup {Null} /\ (Zeroed => left = Null)
  <2>1. fresh \subseteq Nodes \cup {Null}
    BY LruMemories DEF TypeInv, Nodes
  <2> QED BY <2>1 DEF PtrsWith, Zeroed
<1> HIDE DEF i, p, f, A
<1>5c. free_items' \in A \cup {Null}
  <2>1. free_items \in Born => item[free_items].next \in Ptrs \cup {Null}
    BY DEF TypeInv, ItemOver
  <2> QED BY <1>5a, <1>5b, <2>1 DEF NextOf
<1>5d. Zeroed => free_items' = IF free_items # Null THEN item[free_items].next ELSE Null
  <2>1. Zeroed => free_items \in Born \cup {Null}
    BY DEF TypeInv, Ptrs
  <2> QED BY <2>1 DEF NextOf
<1>6. \A j \in Born : item[j] \in ItemOver(A)
  BY <1>3, <1>5a DEF ItemOver
<1>7. (IF i \in Born THEN item[i].next ELSE left) \in A \cup {Null}
  BY <1>5b, <1>6 DEF ItemOver
<1>8. f \in [B -> ItemOver(A)]
  <2> HIDE DEF B
  <2> SUFFICES ASSUME NEW j \in B PROVE f[j] \in ItemOver(A)
    BY <1>5
  <2>1. CASE j = i
    BY <1>3, <1>5, <1>7, <2>1 DEF ItemOver
  <2>2. CASE j # i
    BY <1>5, <1>6, <2>2 DEF B
  <2> QED BY <2>1, <2>2
<1>9. g \in [B -> ItemOver(A)]
  <2> HIDE DEF B
  <2> QED BY <1>4, <1>5a, <1>8 DEF Link, ItemOver
<1>10. \A j \in B : /\ g[j].key = f[j].key /\ g[j].len = f[j].len
                    /\ g[j].next = IF j = p THEN i ELSE f[j].next
  <2> HIDE DEF B
  <2> QED BY <1>3, <1>4, <1>8 DEF Link, ItemOver
<1> HIDE DEF g
<1>11. /\ Touch(g, i) \in [B -> ItemOver(A)]
       /\ \A j \in B : Alike(Touch(g, i)[j], g[j])
  <2> HIDE DEF B
  <2> QED BY <1>4, <1>9, TouchKeeps
<1>12. \A j \in B : /\ item'[j].key = g[j].key /\ item'[j].next = g[j].next
                    /\ item'[j].len = g[j].len
  BY <1>2, <1>11 DEF Alike
<1>13. /\ item'[i].key = k /\ item'[i].len = n
       /\ item'[i].next = IF p = i THEN i ELSE IF i \in Born THEN item[i].next ELSE left
  BY <1>4, <1>5, <1>10, <1>12
<1>14. \A j \in Born \ {i} :
                  /\ item'[j].key = item[j].key /\ item'[j].len = item[j].len
                  /\ item'[j].next = IF j = p THEN i ELSE item[j].next
  BY <1>5, <1>10, <1>12
<1>15. item' \in [B -> ItemOver(A)]
  BY <1>2, <1>11
<1> QED BY <1>1, <1>5b, <1>5c, <1>5d, <1>13, <1>14, <1>15 DEF i, p, A

\* A careful client's insert.
CarefullyInserted(k, n) ==
  LET i == Popped
  IN  /\ i \in Nodes /\ (free_items = Null => i \notin Born)
      /\ (free_items # Null => i = free_items)
      /\ free_items' = IF free_items # Null THEN item[free_items].next ELSE Null
      /\ item' \in [Born \cup {i} -> ItemOver(Born \cup {i})]
      /\ item'[i].key = k /\ item'[i].len = n
      /\ item'[i].next = IF PrevOf(k) = i THEN i ELSE IF i \in Born THEN item[i].next ELSE Null
      /\ \A j \in Born \ {i} :
           /\ item'[j].key = item[j].key /\ item'[j].len = item[j].len
           /\ item'[j].next = IF j = PrevOf(k) THEN i ELSE item[j].next

LEMMA CarefulInserted ==
  ASSUME TypeInv, Careful,
         NEW k \in Key, NEW v \in Value, NEW n \in Lengths, SetInsert(k, v, n)
  PROVE  CarefullyInserted(k, n)
<1>1. Zeroed
  BY CarefulType
<1>2. PtrsWith(Popped) = Born \cup {Popped}
  BY <1>1 DEF PtrsWith
<1> QED BY <1>1, <1>2, Inserted DEF CarefullyInserted

LEMMA Removed ==
  ASSUME TypeInv, NEW h \in Chains, NEW p \in Born \cup {Null}, NEW i \in Born,
         ItemRemove(h, p, i)
  PROVE  /\ item' \in [Born -> ItemOver(Ptrs)]
         /\ item'[i].len = 0 /\ item'[i].next = free_items
         /\ \A j \in Born \ {i} :
              /\ item'[j].key = item[j].key /\ item'[j].len = item[j].len
              /\ item'[j].next = IF j = p THEN item[i].next ELSE item[j].next
         /\ items' \in [Chains -> Ptrs \cup {Null}]
         /\ free_memory' \in Nat /\ free_memory' = free_memory + item[i].len
<1> DEFINE f == Link(item, p, item[i].next)
<1>1. item \in [Born -> ItemOver(Ptrs)] /\ Null \notin Born /\ Word \in Nat
  BY BornFinite DEF TypeInv
<1>2. /\ item[i].next \in Ptrs \cup {Null} /\ item[i].len \in 0..Word-1
      /\ free_items \in Ptrs \cup {Null} /\ Born \subseteq Ptrs
  BY <1>1, BornFinite DEF TypeInv, ItemOver
<1>3. item' = [j \in Born |->
                    IF j = i THEN [NoItem EXCEPT !.next = free_items]
                    ELSE IF item[i].rank > 0 /\ item[j].rank > item[i].rank
                         THEN [f[j] EXCEPT !.rank = @ - 1]
                    ELSE f[j]]
  BY DEF ItemRemove
<1>4. /\ f \in [Born -> ItemOver(Ptrs)]
      /\ \A j \in Born : /\ f[j].key = item[j].key /\ f[j].len = item[j].len
                         /\ f[j].rank = item[j].rank
                         /\ f[j].next = IF j = p THEN item[i].next ELSE item[j].next
  BY <1>1, <1>2 DEF Link, ItemOver
<1> HIDE DEF f
<1>5. [NoItem EXCEPT !.next = free_items] \in ItemOver(Ptrs)
  <2>1. NoItem.len \in 0..Word-1
    BY <1>1, <1>2 DEF NoItem
  <2> QED BY <1>2, <2>1 DEF NoItem, ItemOver
<1>6. ASSUME NEW j \in Born, j # i
      PROVE  /\ item'[j] \in ItemOver(Ptrs) 
             /\ item'[j].key = f[j].key /\ item'[j].len = f[j].len
             /\ item'[j].next = f[j].next
  <2>1. f[j] \in ItemOver(Ptrs) /\ f[j].rank = item[j].rank /\ item[i] \in ItemOver(Ptrs)
    BY <1>1, <1>4
  <2>2. CASE item[i].rank > 0 /\ item[j].rank > item[i].rank
    <3>1. item'[j] = [f[j] EXCEPT !.rank = @ - 1]
      BY <1>3, <1>6, <2>2
    <3>2. f[j].rank - 1 \in Nat
      BY <2>1, <2>2 DEF ItemOver
    <3> QED BY <2>1, <3>1, <3>2 DEF ItemOver
  <2>3. CASE ~(item[i].rank > 0 /\ item[j].rank > item[i].rank)
    BY <1>3, <1>6, <2>1, <2>3
  <2> QED BY <2>2, <2>3
<1>7. item' \in [Born -> ItemOver(Ptrs)]
  BY <1>3, <1>5, <1>6
<1>8. item'[i].len = 0 /\ item'[i].next = free_items
  BY <1>3 DEF NoItem
<1>9. items' \in [Chains -> Ptrs \cup {Null}]
  BY <1>2 DEF ItemRemove, TypeInv
<1>10. free_memory' \in Nat /\ free_memory' = free_memory + item[i].len
  BY <1>1, <1>2 DEF ItemRemove, TypeInv
<1> QED BY <1>4, <1>6, <1>7, <1>8, <1>9, <1>10

LEMMA OldestPlace ==
  ASSUME TypeInv, \A h \in 0..HashSize-1 : ~Endless(items[h]), NEW pl \in Oldest
  PROVE  /\ pl[1] \in Chains /\ pl[2] \in 0..MaxItems /\ pl = <<pl[1], pl[2]>>
         /\ At(pl) \in Born /\ Before(pl) \in Born \cup {Null}
<1> DEFINE w == Walk(items[pl[1]])
<1>1. pl \in Places
  BY DEF Oldest
<1>2. pl[1] \in Chains /\ pl[2] \in 0..MaxItems /\ pl = <<pl[1], pl[2]>> /\ At(pl) # Null
  BY <1>1 DEF Places, Chains
<1>3. items[pl[1]] \in Ptrs \cup {Null}
  BY <1>2 DEF TypeInv
<1>4. w[MaxItems] = Null
  BY <1>2 DEF Endless, Chains
<1>5. \A n \in 0..MaxItems : w[n] \in Born \cup {Null}
  BY <1>3, <1>4, WalkStays
<1>6. pl[2] # 0 => pl[2] - 1 \in 0..MaxItems
  BY <1>2, LruSizes
<1> HIDE DEF w
<1> QED BY <1>2, <1>5, <1>6 DEF At, Before, w

-----------------------------------------------------------------------------
LEMMA TypeInit == Init => TypeInv
<1> SUFFICES ASSUME Init PROVE TypeInv
  OBVIOUS
<1>1. Born = {} /\ item \in [Born -> ItemOver(Ptrs)]
  BY DEF Init, Born
<1>2. 0 \in 0..Word-1
  BY LruSizes
<1>3. fresh \subseteq Ptrs \cup {Null}
  BY LruMemories DEF Init, Ptrs, Nodes, Zeroed
<1>4. items \in [Chains -> Ptrs \cup {Null}]
  BY <1>3 DEF Init, Chains
<1> QED BY <1>1, <1>2, <1>4, LruSizes DEF Init, TypeInv

LEMMA TypeKept ==
  ASSUME TypeInv, [Next]_vars
  PROVE  TypeInv'
<1> USE DEF Ptrs, Zeroed, Careful
<1>1. ASSUME NEW k \in Key, NEW v \in Value, NEW n \in Lengths, SetUpdate(k, v, n)
      PROVE  TypeInv'
  <2>1. item' \in [Born -> ItemOver(Ptrs)]
    BY <1>1, Updated
  <2>2. Born' = Born
    BY <2>1 DEF Born
  <2>3. required' \in 0..Word-1
    <3>1. StopAt(k) \in Born
      BY <1>1, Updated
    <3>2. item[StopAt(k)].len \in 0..Word-1 /\ n \in 0..Word-1 /\ Word \in Nat
      BY <3>1, LruSizes DEF TypeInv, ItemOver
    <3>3. required' = (n - item[StopAt(k)].len + Word) % Word
      BY <1>1 DEF SetUpdate
    <3> HIDE DEF StopAt
    <3> QED BY <3>2, <3>3
  <2> QED BY <1>1, <2>1, <2>2, <2>3 DEF SetUpdate, TypeInv
<1>2. ASSUME NEW k \in Key, NEW v \in Value, NEW n \in Lengths, SetInsert(k, v, n)
      PROVE  TypeInv'
  <2> DEFINE i == Popped
  <2>1. i \in Nodes /\ item' \in [Born \cup {i} -> ItemOver(PtrsWith(i))]
    BY <1>2, Inserted
  <2>2. /\ items' = IF PrevOf(k) = Null THEN [items EXCEPT ![Hash[k]] = i] ELSE items
        /\ required' = n /\ pc' = "fit" /\ UNCHANGED <<client, fresh, free_memory>>
    BY <1>2 DEF SetInsert
  <2>2a. free_items' \in PtrsWith(i) \cup {Null}
    BY <1>2, Inserted
  <2> HIDE DEF i
  <2>3. Born' = Born \cup {i}
    BY <2>1 DEF Born
  <2>4. Ptrs' = PtrsWith(i) /\ Ptrs \subseteq PtrsWith(i) /\ i \in PtrsWith(i)
    BY <2>1, <2>2, <2>3, BornFinite DEF PtrsWith, Nodes
  <2>5. items' \in [Chains -> Ptrs' \cup {Null}]
    BY <2>2, <2>4 DEF TypeInv
  <2>6. free_items' \in Ptrs' \cup {Null}
    BY <2>2a, <2>4
  <2>7. required' \in 0..Word-1
    BY <2>2, LruSizes
  <2> QED BY <2>1, <2>2, <2>3, <2>4, <2>5, <2>6, <2>7, BornFinite DEF TypeInv, Nodes
<1>3. ASSUME NEW h \in Chains, NEW p \in Born \cup {Null}, NEW i \in Born,
             ItemRemove(h, p, i), UNCHANGED <<client, fresh, pc, required>>
      PROVE  TypeInv'
  <2>1. /\ item' \in [Born -> ItemOver(Ptrs)] /\ items' \in [Chains -> Ptrs \cup {Null}]
        /\ free_memory' \in Nat
    BY <1>3, Removed
  <2>2. Born' = Born /\ free_items' = i
    BY <1>3, <2>1 DEF Born, ItemRemove
  <2> QED BY <1>3, <2>1, <2>2, BornFinite DEF TypeInv
<1>4. CASE Evict
  <2>1. CASE \E h \in 0..HashSize-1 : Endless(items[h])
    <3>1. UNCHANGED <<items, item, free_items, free_memory, client, fresh, required>> /\ pc' = "stuck"
      BY <1>4, <2>1 DEF Evict
    <3> QED BY <3>1 DEF TypeInv, Born
  <2>2. CASE ~ \E h \in 0..HashSize-1 : Endless(items[h])
    <3>1. PICK pl \in Oldest : ItemRemove(pl[1], Before(pl), At(pl))
      BY <1>4, <2>2 DEF Evict
    <3>2. UNCHANGED <<client, fresh, pc, required>>
      BY <1>4, <2>2 DEF Evict
    <3>3. pl[1] \in Chains /\ At(pl) \in Born /\ Before(pl) \in Born \cup {Null}
      BY <2>2, OldestPlace
    <3> QED BY <1>3, <3>1, <3>2, <3>3
  <2> QED BY <2>1, <2>2
<1>5. CASE Fit
  <2>1. free_memory' \in Nat /\ 0 \in 0..Word-1
    BY <1>5, LruSizes DEF Fit, TypeInv
  <2> QED BY <1>5, <2>1 DEF Fit, TypeInv, Born
<1>6. ASSUME NEW k \in Key, Search(k) PROVE TypeInv'
  BY <1>6 DEF Search, TypeInv, Born
<1>7. ASSUME NEW k \in Key, Get(k) PROVE TypeInv'
  <2>1. item' \in [Born -> ItemOver(Ptrs)]
    <3>1. CASE StopAt(k) = Null
      BY <1>7, <3>1 DEF Get, TypeInv
    <3>2. CASE StopAt(k) # Null
      <4>1. item' = Touch(item, StopAt(k))
        BY <1>7, <3>2 DEF Get
      <4>2. StopAt(k) \in Born
        BY <1>7, <3>2, StopPlace DEF Get
      <4>3. item \in [Born -> ItemOver(Ptrs)]
        BY DEF TypeInv
      <4> QED BY <4>1, <4>2, <4>3, BornFinite, TouchKeeps
    <3> QED BY <3>1, <3>2
  <2>2. Born' = Born
    BY <2>1 DEF Born
  <2> QED BY <1>7, <2>1, <2>2 DEF Get, TypeInv
<1>8. ASSUME NEW k \in Key, Remove(k) PROVE TypeInv'
  <2>1. UNCHANGED <<client, fresh, pc, required>> /\ Stops(k) # {}
    BY <1>8 DEF Remove
  <2>2. CASE StopAt(k) = Null
    <3>1. UNCHANGED <<items, item, free_items, free_memory>>
      BY <1>8, <2>2 DEF Remove
    <3> QED BY <2>1, <3>1 DEF TypeInv, Born
  <2>3. CASE StopAt(k) # Null
    <3>1. ItemRemove(Hash[k], PrevOf(k), StopAt(k))
      BY <1>8, <2>3 DEF Remove
    <3>2. Hash[k] \in Chains /\ PrevOf(k) \in Born \cup {Null} /\ StopAt(k) \in Born
      BY <2>1, <2>3, StopPlace
    <3> QED BY <1>3, <2>1, <3>1, <3>2
  <2> QED BY <2>2, <2>3
<1>9. CASE Free
  <2>1. Born' = {} /\ item' \in [Born' -> ItemOver(Ptrs')]
    BY <1>9 DEF Free, Born
  <2>2. /\ items' \in [Chains -> {Null}] /\ free_items' = Null
        /\ UNCHANGED <<client, fresh, free_memory, required>>
        /\ pc' \in {"aborted", "freed"}
    BY <1>9 DEF Free, Chains
  <2>3. 0 \in 0..MaxItems
    BY LruSizes
  <2> QED BY <2>1, <2>2, <2>3 DEF TypeInv
<1>10. CASE UNCHANGED vars
  BY <1>10 DEF vars, TypeInv, Born
<1> QED BY <1>1, <1>2, <1>4, <1>5, <1>6, <1>7, <1>8, <1>9, <1>10 DEF Next, Step

-----------------------------------------------------------------------------
Steps == 0..MaxItems

\* c[h][n] is the item n steps from the head of chain h.
Follows(c, its, it) ==
  /\ c \in [Chains -> [Steps -> DOMAIN it \cup {Null}]]
  /\ \A h \in Chains : c[h][0] = its[h] /\ c[h][MaxItems] = Null
  /\ \A h \in Chains : \A n \in 0..MaxItems-1 :
       c[h][n + 1] = IF c[h][n] = Null THEN Null ELSE it[c[h][n]].next

\* No item lies in two places.
Apart(c) ==
  \A h, g \in Chains : \A n, m \in Steps :
    c[h][n] = c[g][m] /\ c[h][n] # Null => h = g /\ n = m

\* At most one item is free, and every other is in a chain.
Rest(c, it, free) ==
  /\ free # Null => /\ it[free].next = Null /\ it[free].len = 0
                    /\ \A h \in Chains : \A n \in Steps : c[h][n] # free
  /\ \A i \in DOMAIN it : i = free \/ \E h \in Chains : \E n \in Steps : c[h][n] = i

\* The items of a chain belong there.
Belong(c, it) ==
  \A h \in Chains : \A n \in Steps :
    c[h][n] # Null =>
      it[c[h][n]].key \in Key /\ Hash[it[c[h][n]].key] = h /\ it[c[h][n]].len \in Lengths

Laid(c, its, it, free) ==
  Follows(c, its, it) /\ Apart(c) /\ Rest(c, it, free) /\ Belong(c, it)

LEMMA LaidWalk ==
  ASSUME TypeInv, Careful, NEW c, Follows(c, items, item), NEW h \in Chains
  PROVE  /\ \A n \in Steps : Walk(items[h])[n] = c[h][n]
         /\ ~Endless(items[h])
         /\ OnWalk(items[h]) = {c[h][n] : n \in Steps} \ {Null}
<1> DEFINE w == Walk(items[h])
           Bad == {n \in Steps : w[n] # c[h][n]}
<1>1. MaxItems \in Nat
  BY LruSizes
<1>2. items[h] \in Born \cup {Null}
  BY CarefulType
<1>3. /\ w[0] = items[h]
      /\ \A n \in 0..MaxItems-1 : w[n+1] = IF w[n] = Null THEN Null ELSE item[w[n]].next
  BY <1>2, WalkSteps
<1> HIDE DEF w
<1>4. /\ c[h][0] = items[h] /\ c[h][MaxItems] = Null
      /\ \A n \in 0..MaxItems-1 :
           c[h][n + 1] = IF c[h][n] = Null THEN Null ELSE item[c[h][n]].next
  BY DEF Follows
<1>5. ASSUME Bad # {} PROVE FALSE
  <2>1. Bad \subseteq Nat
    BY DEF Steps
  <2> HIDE DEF Bad
  <2>2. PICK n \in Bad : \A k \in Bad : n <= k
    BY <1>5, <2>1, LeastOf
  <2> USE DEF Bad
  <2>3. n # 0 /\ n \in Steps
    BY <1>3, <1>4, <2>2
  <2>4. n-1 \in 0..MaxItems-1 /\ n-1 \in Steps /\ ~(n <= n-1) /\ (n-1)+1 = n
    BY <1>1, <2>3 DEF Steps
  <2>5. w[n-1] = c[h][n-1]
    BY <2>2, <2>4
  <2>6. w[n] = IF w[n-1] = Null THEN Null ELSE item[w[n-1]].next
    BY <1>3, <2>4
  <2>7. c[h][n] = IF c[h][n-1] = Null THEN Null ELSE item[c[h][n-1]].next
    BY <1>4, <2>4
  <2> QED BY <2>2, <2>5, <2>6, <2>7
<1>6. \A n \in Steps : w[n] = c[h][n]
  BY <1>5
<1>7. ~Endless(items[h])
  BY <1>1, <1>4, <1>6 DEF Endless, w, Steps
<1>8. OnWalk(items[h]) = {w[n] : n \in Steps} \ {Null}
  BY DEF OnWalk, w, Steps
<1> QED BY <1>6, <1>7, <1>8 DEF w

\* Taking item c[at][x] out of its chain.
LEMMA RemoveLaid ==
  ASSUME TypeInv, Careful, NEW c, Laid(c, items, item, free_items), free_items = Null,
         NEW at \in Chains, NEW x \in Steps, c[at][x] # Null,
         ItemRemove(at, IF x = 0 THEN Null ELSE c[at][x-1], c[at][x])
  PROVE  \E d : Laid(d, items', item', free_items')
<1> DEFINE i == c[at][x]
           p == IF x = 0 THEN Null ELSE c[at][x-1]
           z == [m \in Steps |-> IF m < x THEN c[at][m]
                                 ELSE IF m = MaxItems THEN Null ELSE c[at][m+1]]
           d == [c EXCEPT ![at] = z]
<1>1. MaxItems \in Nat /\ Null \notin Born /\ Steps = 0..MaxItems
  BY BornFinite DEF Steps
<1>2. c \in [Chains -> [Steps -> Born \cup {Null}]]
  BY DEF Laid, Follows, Born
<1>3. i \in Born /\ x \in 0..MaxItems-1 /\ p \in Born \cup {Null}
  <2>1. c[at][MaxItems] = Null
    BY DEF Laid, Follows
  <2>2. x # MaxItems
    BY <2>1
  <2>3. x # 0 => x - 1 \in Steps
    BY <1>1
  <2> QED BY <1>1, <1>2, <2>2, <2>3
<1>3a. ItemRemove(at, p, i)
  OBVIOUS
<1> HIDE DEF i, p
<1>4. /\ item' \in [Born -> ItemOver(Born)]
      /\ item'[i].next = Null /\ item'[i].len = 0
      /\ \A j \in Born \ {i} :
              /\ item'[j].key = item[j].key /\ item'[j].len = item[j].len
              /\ item'[j].next = IF j = p THEN item[i].next ELSE item[j].next
  BY <1>3, <1>3a, Removed, CarefulType
<1>5. /\ items' = IF p = Null THEN [items EXCEPT ![at] = item[i].next] ELSE items
      /\ free_items' = i
  BY <1>3a DEF ItemRemove
<1> USE DEF i, p
<1>6. /\ \A m \in Steps : c[at][m] = i => m = x
      /\ \A h \in Chains : \A m \in Steps : h # at => c[h][m] # i
      /\ \A m \in Steps : c[at][m] = p => m = x-1 \/ c[at][m] = Null
      /\ \A h \in Chains : \A m \in Steps : h # at /\ c[h][m] # Null => c[h][m] # p
  <2>1. x # 0 => x - 1 \in Steps
    BY <1>1
  <2> QED BY <1>1, <2>1 DEF Laid, Apart
<1>7. /\ \A h \in Chains : c[h][0] = items[h] /\ c[h][MaxItems] = Null
      /\ \A h \in Chains : \A n \in 0..MaxItems-1 :
           c[h][n + 1] = IF c[h][n] = Null THEN Null ELSE item[c[h][n]].next
  BY DEF Laid, Follows
<1>8. c[at][x+1] = item[i].next
  BY <1>3, <1>7
<1> HIDE DEF i, p
<1>9. z \in [Steps -> Born \cup {Null}]
  BY <1>1, <1>2
<1>10. z[MaxItems] = Null
  BY <1>1, <1>3
<1>11. z[0] = items'[at]
  <2>1. 0 \in Steps /\ items \in [Chains -> Born \cup {Null}]
    BY <1>1, CarefulType
  <2>2. CASE x = 0
    BY <1>3, <1>5, <1>8, <2>1, <2>2 DEF p
  <2>3. CASE x # 0
    <3>1. p # Null
      <4>1. x-1 \in 0..MaxItems-1 /\ (x-1)+1 = x
        BY <1>1, <1>3, <2>3
      <4> QED BY <1>7, <2>3, <4>1 DEF p
    <3> QED BY <1>3, <1>5, <1>7, <2>1, <2>3, <3>1
  <2> QED BY <2>2, <2>3
<1>12. ASSUME NEW m \in 0..MaxItems-1
       PROVE  z[m+1] = IF z[m] = Null THEN Null ELSE item'[z[m]].next
  <2>1. m \in Steps /\ m+1 \in Steps
    BY <1>1
  <2>2. CASE m+1 < x
    <3>1. z[m] = c[at][m] /\ z[m+1] = c[at][m+1] /\ m # x /\ m # x-1
      BY <1>1, <1>3, <2>1, <2>2
    <3>2. c[at][m] # Null => c[at][m] \in Born \ {i} /\ c[at][m] # p
      BY <1>2, <1>6, <2>1, <3>1
    <3> QED BY <1>4, <1>7, <3>1, <3>2
  <2>3. CASE m+1 = x
    <3>1. z[m] = c[at][m] /\ z[m+1] = c[at][x+1] /\ m # x
      BY <1>1, <1>3, <2>1, <2>3
    <3>2. c[at][m] = p /\ c[at][m] # Null
      BY <1>3, <1>7, <2>3 DEF p
    <3>3. p \in Born \ {i}
      BY <1>2, <1>6, <2>1, <3>1, <3>2
    <3> QED BY <1>4, <1>8, <3>1, <3>2, <3>3
  <2>4. CASE m+1 > x /\ m+1 = MaxItems
    <3>1. z[m+1] = Null /\ z[m] = c[at][m+1]
      BY <1>1, <1>3, <2>1, <2>4
    <3> QED BY <1>7, <2>4, <3>1
  <2>5. CASE m+1 > x /\ m+1 # MaxItems
    <3>1. m+1 \in 0..MaxItems-1 /\ m+1 # x /\ m+1 # x-1
      BY <1>1, <1>3, <2>5
    <3>2. z[m+1] = c[at][(m+1)+1] /\ z[m] = c[at][m+1]
      BY <1>1, <1>3, <2>1, <2>5
    <3>3. c[at][m+1] # Null => c[at][m+1] \in Born \ {i} /\ c[at][m+1] # p
      BY <1>2, <1>6, <2>1, <3>1
    <3> QED BY <1>4, <1>7, <3>1, <3>2, <3>3
  <2> QED BY <1>1, <1>3, <2>2, <2>3, <2>4, <2>5
<1>13. \A m \in Steps : z[m] # Null =>
         \E n \in Steps : z[m] = c[at][n] /\ n # x /\ n = IF m < x THEN m ELSE m+1
  BY <1>1, <1>3
<1>14. \A n \in Steps : n # x /\ c[at][n] # Null => \E m \in Steps : z[m] = c[at][n]
  <2> SUFFICES ASSUME NEW n \in Steps, n # x, c[at][n] # Null
               PROVE  \E m \in Steps : z[m] = c[at][n]
    OBVIOUS
  <2>1. CASE n < x
    BY <1>1, <1>3, <2>1
  <2>2. CASE n > x
    <3>1. n-1 \in Steps /\ ~(n-1 < x) /\ n-1 # MaxItems /\ (n-1)+1 = n
      BY <1>1, <1>3, <2>2
    <3> QED BY <3>1
  <2> QED BY <1>1, <1>3, <2>1, <2>2
<1> HIDE DEF z
<1>15. d \in [Chains -> [Steps -> Born \cup {Null}]] /\ d[at] = z
       /\ \A h \in Chains \ {at} : d[h] = c[h]
  BY <1>2, <1>9
<1> HIDE DEF d
<1>16. Follows(d, items', item')
  <2>1. \A h \in Chains : d[h][0] = items'[h] /\ d[h][MaxItems] = Null
    <3>1. \A h \in Chains \ {at} : items'[h] = items[h]
      BY <1>5 DEF TypeInv
    <3> QED BY <1>7, <1>10, <1>11, <1>15, <3>1
  <2>2. ASSUME NEW h \in Chains \ {at}, NEW n \in 0..MaxItems-1
        PROVE  d[h][n+1] = IF d[h][n] = Null THEN Null ELSE item'[d[h][n]].next
    <3>1. n \in Steps /\ d[h] = c[h]
      BY <1>1, <1>15
    <3>2. c[h][n] # Null => c[h][n] \in Born \ {i} /\ c[h][n] # p
      BY <1>2, <1>6, <3>1
    <3> QED BY <1>4, <1>7, <3>1, <3>2
  <2>3. DOMAIN item' = Born
    BY <1>4
  <2> QED BY <1>12, <1>15, <2>1, <2>2, <2>3 DEF Follows
<1>17. \A h \in Chains : \A m \in Steps : d[h][m] # Null =>
         /\ d[h][m] \in Born \ {i}
         /\ \E n \in Steps : /\ d[h][m] = c[h][n]
                             /\ n = IF h = at /\ ~(m < x) THEN m+1 ELSE m
  <2> SUFFICES ASSUME NEW h \in Chains, NEW m \in Steps, d[h][m] # Null
               PROVE  /\ d[h][m] # i
                      /\ \E n \in Steps : /\ d[h][m] = c[h][n]
                                          /\ n = IF h = at /\ ~(m < x) THEN m+1 ELSE m
    BY <1>15
  <2>1. CASE h = at
    BY <1>6, <1>13, <1>15, <2>1
  <2>2. CASE h # at
    BY <1>6, <1>15, <2>2
  <2> QED BY <2>1, <2>2
<1>18. Apart(d)
  <2> SUFFICES ASSUME NEW h \in Chains, NEW g \in Chains, NEW n \in Steps, NEW m \in Steps,
                      d[h][n] = d[g][m], d[h][n] # Null
               PROVE  h = g /\ n = m
    BY DEF Apart
  <2>1. PICK n1 \in Steps : /\ d[h][n] = c[h][n1]
                            /\ n1 = IF h = at /\ ~(n < x) THEN n+1 ELSE n
    BY <1>17
  <2>2. PICK m1 \in Steps : /\ d[g][m] = c[g][m1]
                            /\ m1 = IF g = at /\ ~(m < x) THEN m+1 ELSE m
    BY <1>17
  <2>3. Apart(c) /\ c[h][n1] = c[g][m1] /\ c[h][n1] # Null
    BY <2>1, <2>2 DEF Laid
  <2>4. h = g /\ n1 = m1
    BY <2>3 DEF Apart
  <2> QED BY <1>1, <1>3, <2>1, <2>2, <2>4
<1>19. Rest(d, item', free_items')
  <2>1. \A h \in Chains : \A n \in Steps : d[h][n] # i
    BY <1>1, <1>3, <1>17
  <2>2. ASSUME NEW j \in Born, j # i
        PROVE  \E h \in Chains : \E n \in Steps : d[h][n] = j
    <3>1. PICK h \in Chains, n \in Steps : c[h][n] = j
      BY <1>1 DEF Laid, Rest, Born
    <3>2. CASE h = at
      <4>1. n # x /\ c[at][n] # Null
        BY <1>1, <2>2, <3>1, <3>2 DEF i
      <4> QED BY <1>14, <1>15, <3>1, <3>2, <4>1
    <3>3. CASE h # at
      BY <1>15, <3>1, <3>3
    <3> QED BY <3>2, <3>3
  <2>3. DOMAIN item' = Born
    BY <1>4
  <2> QED BY <1>4, <1>5, <2>1, <2>2, <2>3 DEF Rest
<1>20. Belong(d, item')
  <2> SUFFICES ASSUME NEW h \in Chains, NEW m \in Steps, d[h][m] # Null
               PROVE  /\ item'[d[h][m]].key \in Key /\ Hash[item'[d[h][m]].key] = h
                      /\ item'[d[h][m]].len \in Lengths
    BY DEF Belong
  <2>1. d[h][m] \in Born \ {i}
    BY <1>17
  <2>2. PICK n \in Steps : d[h][m] = c[h][n]
    BY <1>17
  <2>3. /\ item[c[h][n]].key \in Key /\ Hash[item[c[h][n]].key] = h
        /\ item[c[h][n]].len \in Lengths
    BY <2>2 DEF Laid, Belong
  <2>4. item'[d[h][m]].key = item[d[h][m]].key /\ item'[d[h][m]].len = item[d[h][m]].len
    BY <1>4, <2>1
  <2> QED BY <2>2, <2>3, <2>4
<1> QED BY <1>16, <1>18, <1>19, <1>20 DEF Laid

\* Items that only got another rank, value or length.
LEMMA SameLaid ==
  ASSUME NEW c, NEW its, NEW it, NEW jt, NEW free \in DOMAIN it \cup {Null},
         Laid(c, its, it, free), DOMAIN jt = DOMAIN it,
         \A j \in DOMAIN it : /\ jt[j].key = it[j].key /\ jt[j].next = it[j].next
                              /\ j = free \/ jt[j].len \notin Lengths => jt[j].len = it[j].len
  PROVE  Laid(c, its, jt, free)
<1>1. \A h \in Chains : \A n \in Steps : c[h][n] # Null => c[h][n] \in DOMAIN it
  BY DEF Laid, Follows
<1>2. MaxItems \in Nat /\ \A n \in 0..MaxItems-1 : n \in Steps
  BY LruSizes DEF Steps
<1>3. Follows(c, its, jt)
  <2>1. c \in [Chains -> [Steps -> DOMAIN jt \cup {Null}]]
    BY DEF Laid, Follows
  <2>2. ASSUME NEW h \in Chains, NEW n \in 0..MaxItems-1
        PROVE  c[h][n + 1] = IF c[h][n] = Null THEN Null ELSE jt[c[h][n]].next
    <3>1. c[h][n + 1] = IF c[h][n] = Null THEN Null ELSE it[c[h][n]].next
      BY DEF Laid, Follows
    <3>2. c[h][n] # Null => jt[c[h][n]].next = it[c[h][n]].next
      BY <1>1, <1>2
    <3> QED BY <3>1, <3>2
  <2> QED BY <2>1, <2>2 DEF Laid, Follows
<1>4. Belong(c, jt)
  <2> SUFFICES ASSUME NEW h \in Chains, NEW m \in Steps, c[h][m] # Null
               PROVE  /\ jt[c[h][m]].key \in Key /\ Hash[jt[c[h][m]].key] = h
                      /\ jt[c[h][m]].len \in Lengths
    BY DEF Belong
  <2>1. /\ it[c[h][m]].key \in Key /\ Hash[it[c[h][m]].key] = h
        /\ it[c[h][m]].len \in Lengths
    BY DEF Laid, Belong
  <2>2. /\ jt[c[h][m]].key = it[c[h][m]].key
        /\ jt[c[h][m]].len = it[c[h][m]].len \/ jt[c[h][m]].len \in Lengths
    BY <1>1
  <2> QED BY <2>1, <2>2
<1>5. Rest(c, jt, free)
  <2>1. Rest(c, it, free)
    BY DEF Laid
  <2>2. free # Null => jt[free].next = it[free].next /\ jt[free].len = it[free].len
    OBVIOUS
  <2> QED BY <2>1, <2>2 DEF Rest
<1> QED BY <1>3, <1>4, <1>5 DEF Laid

\* A new item at the end of its chain.
LEMMA InsertLaid ==
  ASSUME TypeInv, Careful, NEW c, Laid(c, items, item, free_items),
         NEW k \in Key, NEW v \in Value, NEW len \in Lengths, SetInsert(k, v, len)
  PROVE  (\E d : Laid(d, items', item', free_items')) /\ free_items' = Null
<1> DEFINE i == Popped
           at == Hash[k]
           x == Min(Stops(k))
           p == PrevOf(k)
           z == [m \in Steps |-> IF m = x THEN i ELSE c[at][m]]
           d == [c EXCEPT ![at] = z]
<1>1. MaxItems \in Nat /\ Null \notin Born /\ Steps = 0..MaxItems /\ Null \notin 1..MaxItems
  BY BornFinite, LruNull DEF Steps
<1>2. c \in [Chains -> [Steps -> Born \cup {Null}]]
  BY DEF Laid, Follows, Born
<1>3. /\ at \in Chains /\ x \in Steps /\ c[at][x] = Null
      /\ \A m \in Steps : m < x => c[at][m] # Null
      /\ p = IF x = 0 THEN Null ELSE c[at][x-1]
  <2>1. Stops(k) # {} /\ StopAt(k) = Null
    BY DEF SetInsert
  <2>2. /\ at \in Chains /\ x \in 0..MaxItems /\ Walk(items[at])[x] = Null
        /\ \A m \in 0..MaxItems : m < x => Walk(items[at])[m] # Null
    BY <2>1, StopPlace
  <2>3. p = IF x = 0 THEN Null ELSE Walk(items[at])[x-1]
    BY DEF PrevOf
  <2> HIDE DEF at, x, p
  <2>4. \A m \in Steps : Walk(items[at])[m] = c[at][m]
    BY <2>2, LaidWalk DEF Laid
  <2>5. x # 0 => x-1 \in Steps
    BY <1>1, <2>2
  <2> QED BY <1>1, <2>2, <2>3, <2>4, <2>5
<1>4. /\ i \in Nodes /\ (free_items = Null => i \notin Born)
      /\ (free_items # Null => i = free_items)
      /\ free_items' = IF free_items # Null THEN item[free_items].next ELSE Null
      /\ item' \in [Born \cup {i} -> ItemOver(Born \cup {i})]
      /\ item'[i].key = k /\ item'[i].len = len
      /\ item'[i].next = IF p = i THEN i ELSE IF i \in Born THEN item[i].next ELSE Null
      /\ \A j \in Born \ {i} :
           /\ item'[j].key = item[j].key /\ item'[j].len = item[j].len
           /\ item'[j].next = IF j = p THEN i ELSE item[j].next
  BY CarefulInserted DEF CarefullyInserted
<1>5. items' = IF p = Null THEN [items EXCEPT ![at] = i] ELSE items
  BY DEF SetInsert
<1> HIDE DEF i, at, x, p
<1>6. /\ \A h \in Chains : \A m \in Steps : c[h][m] # i
      /\ i \in Born => i = free_items
  <2>1. CASE free_items = Null
    BY <1>1, <1>2, <1>4, <2>1 DEF Nodes
  <2>2. CASE free_items # Null
    BY <1>4, <2>2 DEF Laid, Rest
  <2> QED BY <2>1, <2>2
<1>7. free_items' = Null /\ (i \in Born => item[i].next = Null)
  BY <1>1, <1>4, <1>6 DEF Laid, Rest
<1>8. /\ \A m \in Steps : c[at][m] = p => m = x-1 \/ c[at][m] = Null
      /\ \A h \in Chains : \A m \in Steps : h # at /\ c[h][m] # Null => c[h][m] # p
      /\ p # i /\ (x # 0 => p # Null)
  <2>1. x # 0 => x - 1 \in Steps /\ x - 1 < x
    BY <1>1, <1>3
  <2>2. Apart(c)
    BY DEF Laid
  <2> QED BY <1>1, <1>3, <1>4, <1>6, <2>1, <2>2 DEF Apart
<1>9. item'[i].next = Null
  BY <1>4, <1>7, <1>8
<1>10. x # MaxItems
  <2> SUFFICES ASSUME x = MaxItems PROVE FALSE
    OBVIOUS
  <2> DEFINE f == [m \in Steps |-> IF m = x THEN i ELSE c[at][m]]
             T == Nodes
  <2>1. Born \subseteq T
    BY BornFinite
  <2>2. \A m \in Steps : m # x => m < x
    BY <1>1
  <2>3. f \in [Steps -> T]
    <3> SUFFICES ASSUME NEW m \in Steps, m # x PROVE c[at][m] \in T
      BY <1>4
    <3>1. c[at][m] \in Born
      BY <1>2, <1>3, <2>2
    <3> QED BY <2>1, <3>1
  <2>4. \A m, n \in Steps : m # n => f[m] # f[n]
    BY <1>3, <1>6, <2>2 DEF Laid, Apart
  <2>5. /\ IsFiniteSet(Steps) /\ Cardinality(Steps) = MaxItems + 1
        /\ IsFiniteSet(T) /\ Cardinality(T) = MaxItems
    BY <1>1, FS_Interval DEF Nodes
  <2>6. Cardinality(T) < Cardinality(Steps)
    BY <1>1, <2>5
  <2> HIDE DEF f, T
  <2>7. \E m, n \in Steps : m # n /\ f[m] = f[n]
    BY <2>3, <2>5, <2>6, FS_PigeonHole
  <2> QED BY <2>4, <2>7
<1>11. /\ \A h \in Chains : c[h][0] = items[h] /\ c[h][MaxItems] = Null
       /\ \A h \in Chains : \A n \in 0..MaxItems-1 :
            c[h][n + 1] = IF c[h][n] = Null THEN Null ELSE item[c[h][n]].next
  BY DEF Laid, Follows
<1>12. /\ z \in [Steps -> Born \cup {i} \cup {Null}] /\ z[MaxItems] = Null /\ z[x] = i
       /\ \A m \in Steps : m # x => z[m] = c[at][m]
  BY <1>1, <1>2, <1>3, <1>10, <1>11
<1>13. z[0] = items'[at]
  <2>1. 0 \in Steps /\ items \in [Chains -> Born \cup {Null}]
    BY <1>1, CarefulType
  <2>2. CASE x = 0
    BY <1>3, <1>5, <1>12, <2>1, <2>2
  <2>3. CASE x # 0
    BY <1>3, <1>5, <1>8, <1>11, <1>12, <2>1, <2>3
  <2> QED BY <2>2, <2>3
<1> HIDE DEF z
<1>14. ASSUME NEW m \in 0..MaxItems-1
       PROVE  z[m+1] = IF z[m] = Null THEN Null ELSE item'[z[m]].next
  <2>1. m \in Steps /\ m+1 \in Steps
    BY <1>1
  <2>2. CASE m+1 = x
    <3>1. z[m] = c[at][m] /\ z[m+1] = i /\ p = c[at][m] /\ p # Null
      BY <1>3, <1>8, <1>12, <2>1, <2>2
    <3>2. p \in Born \ {i}
      BY <1>2, <1>3, <1>8, <2>1, <3>1
    <3> QED BY <1>4, <3>1, <3>2
  <2>3. CASE m = x
    <3>1. z[m] = i /\ z[m+1] = c[at][m+1] /\ c[at][m+1] = Null
      BY <1>3, <1>11, <1>12, <2>1, <2>3
    <3> QED BY <1>9, <3>1
  <2>4. CASE m+1 # x /\ m # x
    <3>1. z[m] = c[at][m] /\ z[m+1] = c[at][m+1] /\ m # x-1
      BY <1>1, <1>3, <1>12, <2>1, <2>4
    <3>2. c[at][m] # Null => c[at][m] \in Born \ {i} /\ c[at][m] # p
      BY <1>2, <1>3, <1>6, <1>8, <2>1, <3>1
    <3> QED BY <1>3, <1>4, <1>11, <3>1, <3>2
  <2> QED BY <2>2, <2>3, <2>4
<1>15. d \in [Chains -> [Steps -> Born \cup {i} \cup {Null}]] /\ d[at] = z
       /\ \A h \in Chains \ {at} : d[h] = c[h]
  BY <1>2, <1>3, <1>12
<1> HIDE DEF d
<1>16. DOMAIN item' = Born \cup {i} /\ i # Null
  BY <1>1, <1>4 DEF Nodes
<1>17. Follows(d, items', item')
  <2>1. \A h \in Chains : d[h][0] = items'[h] /\ d[h][MaxItems] = Null
    <3>1. \A h \in Chains \ {at} : items'[h] = items[h]
      BY <1>3, <1>5, CarefulType
    <3> QED BY <1>11, <1>12, <1>13, <1>15, <3>1
  <2>2. ASSUME NEW h \in Chains \ {at}, NEW n \in 0..MaxItems-1
        PROVE  d[h][n+1] = IF d[h][n] = Null THEN Null ELSE item'[d[h][n]].next
    <3>1. n \in Steps /\ d[h] = c[h]
      BY <1>1, <1>15
    <3>2. c[h][n] # Null => c[h][n] \in Born \ {i} /\ c[h][n] # p
      BY <1>2, <1>6, <1>8, <3>1
    <3> QED BY <1>4, <1>11, <3>1, <3>2
  <2> QED BY <1>14, <1>15, <1>16, <2>1, <2>2 DEF Follows
<1>18. \A h \in Chains : \A m \in Steps :
         d[h][m] = IF h = at /\ m = x THEN i ELSE c[h][m]
  BY <1>12, <1>15
<1>19. Apart(d)
  <2> SUFFICES ASSUME NEW h \in Chains, NEW g \in Chains, NEW n \in Steps, NEW m \in Steps,
                      d[h][n] = d[g][m], d[h][n] # Null
               PROVE  h = g /\ n = m
    BY DEF Apart
  <2>1. CASE h = at /\ n = x
    BY <1>6, <1>18, <2>1
  <2>2. CASE g = at /\ m = x
    BY <1>6, <1>18, <2>2
  <2>3. CASE ~(h = at /\ n = x) /\ ~(g = at /\ m = x)
    <3>1. c[h][n] = c[g][m] /\ c[h][n] # Null /\ Apart(c)
      BY <1>18, <2>3 DEF Laid
    <3> QED BY <3>1 DEF Apart
  <2> QED BY <2>1, <2>2, <2>3
<1>20. Rest(d, item', free_items')
  <2> SUFFICES ASSUME NEW j \in Born \cup {i}
               PROVE  \E h \in Chains : \E n \in Steps : d[h][n] = j
    BY <1>7, <1>16 DEF Rest
  <2>1. CASE j = i
    BY <1>3, <1>18, <2>1
  <2>2. CASE j # i
    <3>1. j # free_items
      BY <1>1, <1>4, <2>2
    <3>2. PICK h \in Chains, n \in Steps : c[h][n] = j
      BY <2>2, <3>1 DEF Laid, Rest, Born
    <3>3. ~(h = at /\ n = x)
      BY <1>1, <1>3, <2>2, <3>2
    <3> QED BY <1>18, <3>2, <3>3
  <2> QED BY <2>1, <2>2
<1>21. Belong(d, item')
  <2> SUFFICES ASSUME NEW h \in Chains, NEW m \in Steps, d[h][m] # Null
               PROVE  /\ item'[d[h][m]].key \in Key /\ Hash[item'[d[h][m]].key] = h
                      /\ item'[d[h][m]].len \in Lengths
    BY DEF Belong
  <2>1. CASE h = at /\ m = x
    BY <1>4, <1>18, <2>1 DEF at
  <2>2. CASE ~(h = at /\ m = x)
    <3>1. d[h][m] = c[h][m] /\ c[h][m] \in Born \ {i}
      BY <1>2, <1>6, <1>18, <2>2
    <3>2. /\ item[c[h][m]].key \in Key /\ Hash[item[c[h][m]].key] = h
          /\ item[c[h][m]].len \in Lengths
      BY <3>1 DEF Laid, Belong
    <3>3. item'[c[h][m]].key = item[c[h][m]].key /\ item'[c[h][m]].len = item[c[h][m]].len
      BY <1>4, <3>1
    <3> QED BY <3>1, <3>2, <3>3
  <2> QED BY <2>1, <2>2
<1> QED BY <1>7, <1>17, <1>19, <1>20, <1>21 DEF Laid

-----------------------------------------------------------------------------
\* A client that removes a key only while no item is free, and whose values are of
\* one length, never has two free items: an eviction makes room for the whole value.
ListInv ==
  Careful =>
    /\ pc \notin {"stuck", "aborted"}
    /\ pc \in {"idle", "fit"} => \E c : Laid(c, items, item, free_items)
    /\ pc = "fit" => /\ required \in Lengths \cup {0}
                     /\ free_items # Null => required <= free_memory

LEMMA OneLength ==
  ASSUME Cardinality(Lengths) = 1
  PROVE  /\ \A m, n \in Lengths : m = n
         /\ \A n \in Lengths : n \in 0..Word-1 /\ (n - n + Word) % Word = 0
<1>1. IsFiniteSet(0..Word-1) /\ Word \in Nat \ {0} /\ Lengths \subseteq 0..Word-1
  BY LruSizes, FS_Interval
<1>2. IsFiniteSet(Lengths)
  BY <1>1, FS_Subset
<1>3. PICK n : Lengths = {n}
  BY <1>2, FS_Singleton
<1>4. \A m \in 0..Word-1 : m - m + Word = Word
  BY <1>1
<1>5. Word % Word = 0
  BY <1>1
<1> QED BY <1>1, <1>3, <1>4, <1>5

LEMMA ListInit == Init => ListInv
<1> SUFFICES ASSUME Init, Zeroed PROVE \E c : Laid(c, items, item, free_items)
  BY DEF Init, ListInv
<1> DEFINE c == [h \in Chains |-> [n \in Steps |-> Null]]
<1>1. DOMAIN item = {} /\ free_items = Null /\ \A h \in Chains : items[h] = Null
  BY DEF Init, Chains, Zeroed
<1>2. /\ c \in [Chains -> [Steps -> DOMAIN item \cup {Null}]]
      /\ \A h \in Chains : \A n \in Steps : c[h][n] = Null
  OBVIOUS
<1>3. 0 \in Steps /\ MaxItems \in Steps /\ \A n \in 0..MaxItems-1 : n \in Steps /\ n+1 \in Steps
  BY LruSizes DEF Steps
<1> HIDE DEF c
<1>4. Laid(c, items, item, free_items)
  BY <1>1, <1>2, <1>3 DEF Laid, Follows, Apart, Rest, Belong
<1> QED BY <1>4

LEMMA UpdateSame ==
  ASSUME TypeInv, ListInv, Careful,
         NEW k \in Key, NEW v \in Value, NEW n \in Lengths, SetUpdate(k, v, n)
  PROVE  /\ item[StopAt(k)].len = n /\ required' = 0
         /\ StopAt(k) # free_items
<1>1. pc = "idle" /\ Cardinality(Lengths) = 1 /\ Stops(k) # {} /\ StopAt(k) # Null
  BY DEF SetUpdate, Careful
<1>2. PICK c : Laid(c, items, item, free_items)
  BY <1>1 DEF ListInv
<1>3. /\ StopAt(k) = Walk(items[Hash[k]])[Min(Stops(k))]
      /\ Hash[k] \in Chains /\ Min(Stops(k)) \in Steps
  BY <1>1, StopPlace DEF Steps
<1>4. StopAt(k) = c[Hash[k]][Min(Stops(k))]
  BY <1>2, <1>3, LaidWalk DEF Laid
<1>5. item[StopAt(k)].len \in Lengths /\ StopAt(k) # free_items
  BY <1>1, <1>2, <1>3, <1>4 DEF Laid, Belong, Rest
<1>6. item[StopAt(k)].len = n
  BY <1>1, <1>5, OneLength
<1>7. required' = (n - item[StopAt(k)].len + Word) % Word
  BY DEF SetUpdate
<1> HIDE DEF StopAt
<1> QED BY <1>1, <1>5, <1>6, <1>7, OneLength

LEMMA ListKept ==
  ASSUME TypeInv, ListInv, [Next]_vars
  PROVE  ListInv'
<1>1. CASE ~Careful
  <2>1. client' = client
    BY DEF Next, Step, SetUpdate, SetInsert, Search, Get, Remove, Evict, Fit, Free, vars
  <2> QED BY <1>1, <2>1 DEF Careful, ListInv
<1> SUFFICES ASSUME Careful PROVE ListInv'
  BY <1>1
<1>2. Cardinality(Lengths) = 1
  BY DEF Careful
<1>3. /\ DOMAIN item = Born /\ Null \notin Born /\ free_items \in DOMAIN item \cup {Null}
      /\ Ptrs = Born
  BY BornFinite, CarefulType DEF Born
<1>4. ASSUME NEW k \in Key, NEW v \in Value, NEW n \in Lengths, SetUpdate(k, v, n)
      PROVE  ListInv'
  <2>1. pc = "idle" /\ pc' = "fit" /\ UNCHANGED <<items, free_items, free_memory>>
    BY <1>4 DEF SetUpdate
  <2>2. PICK c : Laid(c, items, item, free_items)
    BY <2>1 DEF ListInv
  <2>3. /\ StopAt(k) \in Born /\ item' \in [Born -> ItemOver(Born)]
        /\ \A j \in Born : /\ item'[j].key = item[j].key /\ item'[j].next = item[j].next
                           /\ j # StopAt(k) => item'[j].len = item[j].len
        /\ item'[StopAt(k)].len = n
    BY <1>3, <1>4, Updated
  <2>4. DOMAIN item' = DOMAIN item
    BY <1>3, <2>3
  <2>5. required' = 0 /\ StopAt(k) # free_items
    BY <1>4, UpdateSame
  <2>6. Laid(c, items, item', free_items)
    BY <1>3, <2>2, <2>3, <2>4, <2>5, SameLaid
  <2> QED BY <2>1, <2>5, <2>6 DEF ListInv, TypeInv
<1>5. ASSUME NEW k \in Key, NEW v \in Value, NEW n \in Lengths, SetInsert(k, v, n)
      PROVE  ListInv'
  <2>1. pc = "idle" /\ pc' = "fit" /\ required' = n
    BY <1>5 DEF SetInsert
  <2>2. PICK c : Laid(c, items, item, free_items)
    BY <2>1 DEF ListInv
  <2>3. (\E d : Laid(d, items', item', free_items')) /\ free_items' = Null
    BY <1>5, <2>2, InsertLaid
  <2> QED BY <2>1, <2>3 DEF ListInv
<1>6. ASSUME NEW k \in Key, Search(k) PROVE FALSE
  <2>1. pc = "idle" /\ Stops(k) = {}
    BY <1>6 DEF Search
  <2>2. PICK c : Laid(c, items, item, free_items)
    BY <2>1 DEF ListInv
  <2>3. Hash[k] \in Chains /\ MaxItems \in Steps
    BY LruHash, LruSizes DEF Chains, Steps
  <2>4. Walk(items[Hash[k]])[MaxItems] = Null
    BY <2>2, <2>3, LaidWalk DEF Laid, Follows
  <2>5. MaxItems \in Stops(k)
    BY <2>3, <2>4 DEF Stops, Steps
  <2> QED BY <2>1, <2>5
<1>7. ASSUME NEW k \in Key, Get(k) PROVE ListInv'
  <2>1. pc = "idle" /\ pc' = "idle" /\ UNCHANGED <<items, free_items>> /\ Stops(k) # {}
    BY <1>7 DEF Get
  <2>2. PICK c : Laid(c, items, item, free_items)
    BY <2>1 DEF ListInv
  <2>3. CASE StopAt(k) = Null
    <3>1. item' = item
      BY <1>7, <2>3 DEF Get
    <3> QED BY <2>1, <2>2, <3>1 DEF ListInv
  <2>4. CASE StopAt(k) # Null
    <3>1. item' = Touch(item, StopAt(k)) /\ StopAt(k) \in Born
      BY <1>7, <2>1, <2>4, StopPlace DEF Get
    <3>2. item \in [Born -> ItemOver(Born)]
      BY CarefulType
    <3>3. /\ item' \in [Born -> ItemOver(Born)]
          /\ \A j \in Born : Alike(item'[j], item[j])
      BY <3>1, <3>2, BornFinite, TouchKeeps
    <3>4. \A j \in Born : /\ item'[j].key = item[j].key /\ item'[j].next = item[j].next
                          /\ item'[j].len = item[j].len
      BY <3>3 DEF Alike
    <3>5. DOMAIN item' = DOMAIN item
      BY <1>3, <3>3
    <3>6. Laid(c, items, item', free_items)
      BY <1>3, <2>2, <3>4, <3>5, SameLaid
    <3> QED BY <2>1, <3>6 DEF ListInv
  <2> QED BY <2>3, <2>4
<1>8. ASSUME NEW k \in Key, Remove(k) PROVE ListInv'
  <2>1. pc = "idle" /\ pc' = "idle" /\ free_items = Null /\ Stops(k) # {}
    BY <1>8 DEF Remove, MayRemove
  <2>2. PICK c : Laid(c, items, item, free_items)
    BY <2>1 DEF ListInv
  <2>3. CASE StopAt(k) = Null
    <3>1. UNCHANGED <<items, item, free_items>>
      BY <1>8, <2>3 DEF Remove
    <3> QED BY <2>1, <2>2, <3>1 DEF ListInv
  <2>4. CASE StopAt(k) # Null
    <3> DEFINE at == Hash[k]
               x == Min(Stops(k))
    <3>1. /\ StopAt(k) = Walk(items[at])[x]
          /\ at \in Chains /\ x \in Steps
      BY <2>1, StopPlace DEF Steps
    <3>2. PrevOf(k) = IF x = 0 THEN Null ELSE Walk(items[at])[x-1]
      BY DEF PrevOf
    <3> HIDE DEF at, x
    <3>3. x # 0 => x-1 \in Steps
      BY <3>1, LruSizes DEF Steps
    <3>4. \A m \in Steps : Walk(items[at])[m] = c[at][m]
      BY <2>2, <3>1, LaidWalk DEF Laid
    <3>5. StopAt(k) = c[at][x] /\ PrevOf(k) = IF x = 0 THEN Null ELSE c[at][x-1]
      BY <3>1, <3>2, <3>3, <3>4
    <3>6. ItemRemove(at, PrevOf(k), StopAt(k))
      BY <1>8, <2>4 DEF Remove, at
    <3>7. ItemRemove(at, IF x = 0 THEN Null ELSE c[at][x-1], c[at][x])
      BY <3>5, <3>6
    <3>8. \E d : Laid(d, items', item', free_items')
      BY <2>1, <2>2, <2>4, <3>1, <3>5, <3>7, RemoveLaid
    <3> QED BY <2>1, <3>8 DEF ListInv
  <2> QED BY <2>3, <2>4
<1>9. CASE Evict
  <2>1. pc = "fit" /\ free_memory < required /\ required' = required
    BY <1>9 DEF Evict
  <2>2. PICK c : Laid(c, items, item, free_items)
    BY <2>1 DEF ListInv
  <2>3. /\ required \in Lengths /\ free_items = Null
        /\ free_memory \in Nat /\ required \in Nat
    BY <2>1, LruSizes DEF ListInv, TypeInv
  <2>4. \A h \in 0..HashSize-1 : ~Endless(items[h])
    BY <2>2, LaidWalk DEF Laid, Chains
  <2>5. PICK pl \in Oldest : ItemRemove(pl[1], Before(pl), At(pl))
    BY <1>9, <2>4 DEF Evict
  <2>6. pc' = "fit"
    BY <1>9, <2>1, <2>4 DEF Evict
  <2> DEFINE at == pl[1]
             x == pl[2]
  <2>7. at \in Chains /\ x \in Steps /\ At(pl) \in Born
    BY <2>4, OldestPlace DEF Steps
  <2>8. At(pl) = Walk(items[at])[x] /\ Before(pl) = IF x = 0 THEN Null ELSE Walk(items[at])[x-1]
    BY DEF At, Before
  <2>9. ItemRemove(at, Before(pl), At(pl))
    BY <2>5
  <2> HIDE DEF at, x
  <2>10. x # 0 => x-1 \in Steps
    BY <2>7, LruSizes DEF Steps
  <2>11. \A m \in Steps : Walk(items[at])[m] = c[at][m]
    BY <2>2, <2>7, LaidWalk DEF Laid
  <2>12. At(pl) = c[at][x] /\ Before(pl) = IF x = 0 THEN Null ELSE c[at][x-1]
    BY <2>7, <2>8, <2>10, <2>11
  <2>13. ItemRemove(at, IF x = 0 THEN Null ELSE c[at][x-1], c[at][x])
    BY <2>9, <2>12
  <2>14. \E d : Laid(d, items', item', free_items')
    BY <1>3, <2>2, <2>3, <2>7, <2>12, <2>13, RemoveLaid
  <2>15. required <= free_memory'
    <3>1. free_memory' = free_memory + item[At(pl)].len
      BY <2>9 DEF ItemRemove
    <3>2. item[At(pl)].len \in Lengths
      BY <1>3, <2>2, <2>7, <2>12 DEF Laid, Belong
    <3>3. item[At(pl)].len = required
      BY <1>2, <2>3, <3>2, OneLength
    <3> QED BY <2>3, <3>1, <3>3
  <2> QED BY <2>1, <2>3, <2>6, <2>14, <2>15 DEF ListInv
<1>10. CASE Fit
  BY <1>10 DEF Fit, ListInv
<1>11. CASE Free
  <2>1. pc = "idle"
    BY <1>11 DEF Free
  <2>2. PICK c : Laid(c, items, item, free_items)
    BY <2>1 DEF ListInv
  <2>3. \A h \in Chains : /\ ~Endless(items[h])
                          /\ OnWalk(items[h]) = {c[h][n] : n \in Steps} \ {Null}
    BY <2>2, LaidWalk DEF Laid
  <2>4. ASSUME NEW h \in Chains, NEW g \in 0..h-1 PROVE OnWalk(items[g]) \cap OnWalk(items[h]) = {}
    <3>1. g \in Chains /\ g # h
      BY LruHash DEF Chains
    <3> QED BY <2>2, <2>3, <3>1 DEF Laid, Apart
  <2>5. pc' = "freed"
    BY <1>11, <2>3, <2>4 DEF Free, Chains
  <2> QED BY <2>5 DEF ListInv
<1>12. CASE UNCHANGED vars
  BY <1>12 DEF vars, ListInv, Careful
<1> QED BY <1>4, <1>5, <1>6, <1>7, <1>8, <1>9, <1>10, <1>11, <1>12 DEF Next, Step

LEMMA ListImplied ==
  ASSUME TypeInv, ListInv, Careful, pc \in {"idle", "fit"}
  PROVE  /\ ~Endless(free_items) /\ \A h \in Chains : ~Endless(items[h])
         /\ Born = Alive \cup OnWalk(free_items)
         /\ Alive \cap OnWalk(free_items) = {}
         /\ \A h \in Chains : \A i \in OnWalk(items[h]) :
              item[i].key # Null /\ Hash[item[i].key] = h
         /\ OnWalk(free_items) = {free_items} \ {Null}
         /\ free_items # Null => item[free_items].len = 0
<1>1. PICK c : Laid(c, items, item, free_items)
  BY DEF ListInv
<1>2. \A h \in Chains : /\ ~Endless(items[h])
                        /\ OnWalk(items[h]) = {c[h][n] : n \in Steps} \ {Null}
  BY <1>1, LaidWalk DEF Laid
<1>3. Alive = {i \in Born : \E h \in Chains : \E n \in Steps : c[h][n] = i}
  <2>1. \A h \in Chains : \A n \in Steps : c[h][n] # Null => c[h][n] \in Born
    BY <1>1 DEF Laid, Follows, Born
  <2>2. Null \notin Born
    BY BornFinite
  <2>3. \A i : i \in Alive <=> \E h \in Chains : i \in OnWalk(items[h])
    BY DEF Alive, Chains
  <2>4. \A h \in Chains : \A i : i \in OnWalk(items[h]) <=> i # Null /\ \E n \in Steps : c[h][n] = i
    BY <1>2
  <2>5. \A i : i \in Alive <=> i \in Born /\ \E h \in Chains : \E n \in Steps : c[h][n] = i
    BY <2>1, <2>2, <2>3, <2>4
  <2> QED BY <2>5
<1>4. OnWalk(free_items) = {free_items} \ {Null} /\ ~Endless(free_items)
  <2> DEFINE w == Walk(free_items)
  <2>1. /\ free_items \in Born \cup {Null} /\ MaxItems \in Nat
        /\ free_items # Null => MaxItems # 0
    BY BornFinite, CarefulType DEF Nodes
  <2>2. /\ w[0] = free_items
        /\ \A n \in 0..MaxItems-1 : w[n+1] = IF w[n] = Null THEN Null ELSE item[w[n]].next
    BY <2>1, WalkSteps
  <2> HIDE DEF w
  <2>3. free_items # Null => item[free_items].next = Null
    BY <1>1 DEF Laid, Rest
  <2> DEFINE Bad == {n \in 1..MaxItems : w[n] # Null}
  <2>4. ASSUME Bad # {} PROVE FALSE
    <3>1. Bad \subseteq Nat
      OBVIOUS
    <3> HIDE DEF Bad
    <3>2. PICK n \in Bad : \A m \in Bad : n <= m
      BY <2>4, <3>1, LeastOf
    <3> USE DEF Bad
    <3>3. n \in 1..MaxItems /\ n-1 \in 0..MaxItems-1 /\ (n-1)+1 = n /\ ~(n <= n-1)
      BY <2>1, <3>2
    <3>4. w[n] = IF w[n-1] = Null THEN Null ELSE item[w[n-1]].next
      BY <2>2, <3>3
    <3>5. CASE n = 1
      BY <2>2, <2>3, <3>2, <3>4, <3>5
    <3>6. CASE n # 1
      <4>1. n-1 \in 1..MaxItems
        BY <2>1, <3>3, <3>6
      <4>2. w[n-1] = Null
        BY <3>2, <3>3, <4>1
      <4> QED BY <3>2, <3>4, <4>2
    <3> QED BY <3>5, <3>6
  <2>5. \A n \in 0..MaxItems : w[n] = IF n = 0 THEN free_items ELSE Null
    BY <2>1, <2>2, <2>4
  <2>6. 0 \in 0..MaxItems /\ MaxItems \in 0..MaxItems
    BY <2>1
  <2>7. OnWalk(free_items) = {w[n] : n \in 0..MaxItems} \ {Null}
    BY DEF OnWalk, w
  <2>8. Endless(free_items) <=> w[MaxItems] # Null
    BY DEF Endless, w
  <2> QED BY <2>1, <2>5, <2>6, <2>7, <2>8
<1>5. Rest(c, item, free_items) /\ Null \notin Born /\ free_items \in Born \cup {Null}
  BY <1>1, BornFinite, CarefulType DEF Laid
<1>6. Born = Alive \cup OnWalk(free_items)
  BY <1>3, <1>4, <1>5 DEF Rest, Born
<1>7. Alive \cap OnWalk(free_items) = {}
  BY <1>3, <1>4, <1>5 DEF Rest
<1>8. \A h \in Chains : \A i \in OnWalk(items[h]) :
                         item[i].key # Null /\ Hash[item[i].key] = h
  BY <1>1, <1>2, LruNull DEF Laid, Belong
<1>9. free_items # Null => item[free_items].len = 0
  BY <1>5 DEF Rest
<1> QED BY <1>2, <1>4, <1>6, <1>7, <1>8, <1>9

\* For any keys, chains, values and items, as long as malloc gives zeroed memory:
\* no list of a careful client's cache runs into itself or another, none of its
\* calls is caught, and gfc_lru_free does not abort.
THEOREM ListsCorrect == Spec => []ListsPartition
<1>1. Init => TypeInv /\ ListInv
  BY TypeInit, ListInit
<1>2. TypeInv /\ ListInv /\ [Next]_vars => (TypeInv /\ ListInv)'
  BY TypeKept, ListKept
<1>3. TypeInv /\ ListInv => ListsPartition
  BY ListImplied DEF ListsPartition, ListInv, Chains
<1> QED BY <1>1, <1>2, <1>3, PTL DEF Spec

-----------------------------------------------------------------------------
\* Sums of lengths.  g holds the sum of every subset of S that has n items at most.
LenSum(it, S) == MapThenSumSet(LAMBDA i : it[i].len, S)

Some(s) == CHOOSE x \in s : TRUE

SumsUpTo(g, it, S, n) ==
  g = [s \in {t \in SUBSET S : Cardinality(t) <= n} |->
         IF s = {} THEN 0 ELSE it[Some(s)].len + g[s \ {Some(s)}]]

Sums(g, it, S) ==
  g = [s \in SUBSET S |-> IF s = {} THEN 0 ELSE it[Some(s)].len + g[s \ {Some(s)}]]

LEMMA LessSome ==
  ASSUME NEW S, IsFiniteSet(S), NEW s \in SUBSET S, s # {}
  PROVE  /\ Some(s) \in s /\ s \ {Some(s)} \in SUBSET S
         /\ IsFiniteSet(s) /\ Cardinality(s) \in Nat \ {0}
         /\ \A y \in s : /\ IsFiniteSet(s \ {y})
                         /\ Cardinality(s \ {y}) = Cardinality(s) - 1
<1>1. Some(s) \in s
  BY DEF Some
<1>2. IsFiniteSet(s)
  BY FS_Subset
<1>3. Cardinality(s) \in Nat /\ Cardinality(s) # 0
  BY <1>2, FS_CardinalityType, FS_EmptySet
<1>4. \A y \in s : IsFiniteSet(s \ {y}) /\ Cardinality(s \ {y}) = Cardinality(s) - 1
  BY <1>2, FS_RemoveElement
<1> QED BY <1>1, <1>2, <1>3, <1>4

LEMMA SumsUpToExist ==
  ASSUME NEW it, NEW S, IsFiniteSet(S), NEW n \in Nat
  PROVE  \E g : SumsUpTo(g, it, S, n)
<1> DEFINE Bad == {m \in Nat : ~\E g : SumsUpTo(g, it, S, m)}
           Small(m) == {t \in SUBSET S : Cardinality(t) <= m}
<1>0. \A s \in SUBSET S : Cardinality(s) \in Nat /\ (Cardinality(s) = 0 <=> s = {})
  BY FS_Subset, FS_CardinalityType, FS_EmptySet
<1> SUFFICES ASSUME Bad # {} PROVE FALSE
  OBVIOUS
<1>1. PICK m \in Bad : \A k \in Bad : m <= k
  BY LeastOf
<1>2. CASE m = 0
  <2> DEFINE g == [s \in Small(0) |-> 0]
  <2>1. \A s \in Small(0) : s = {}
    BY <1>0
  <2>2. g = [s \in Small(0) |-> IF s = {} THEN 0 ELSE it[Some(s)].len + g[s \ {Some(s)}]]
    BY <2>1
  <2>3. SumsUpTo(g, it, S, 0)
    BY <2>2 DEF SumsUpTo
  <2> QED BY <1>1, <1>2, <2>3
<1>3. CASE m # 0
  <2>1. m-1 \in Nat /\ ~(m <= m-1)
    BY <1>1, <1>3
  <2>2. PICK g : SumsUpTo(g, it, S, m-1)
    BY <1>1, <2>1
  <2>3. g = [s \in Small(m-1) |-> IF s = {} THEN 0 ELSE it[Some(s)].len + g[s \ {Some(s)}]]
    BY <2>2 DEF SumsUpTo
  <2> DEFINE h == [s \in Small(m) |-> IF s = {} THEN 0 ELSE it[Some(s)].len + g[s \ {Some(s)}]]
  <2>4. ASSUME NEW s \in Small(m-1) PROVE h[s] = g[s]
    <3>1. s \in Small(m)
      BY <1>0, <1>1
    <3>2. g[s] = IF s = {} THEN 0 ELSE it[Some(s)].len + g[s \ {Some(s)}]
      BY <2>3, Zenon
    <3>3. h[s] = IF s = {} THEN 0 ELSE it[Some(s)].len + g[s \ {Some(s)}]
      BY <3>1, Zenon
    <3> QED BY <3>2, <3>3
  <2>5. ASSUME NEW s \in Small(m)
        PROVE  h[s] = IF s = {} THEN 0 ELSE it[Some(s)].len + h[s \ {Some(s)}]
    <3>1. CASE s = {}
      BY <3>1
    <3>2. CASE s # {}
      <4>1. s \ {Some(s)} \in Small(m-1)
        BY <1>1, <3>2, LessSome
      <4>2. h[s \ {Some(s)}] = g[s \ {Some(s)}]
        BY <2>4, <4>1
      <4>3. h[s] = it[Some(s)].len + g[s \ {Some(s)}]
        BY <3>2
      <4> QED BY <3>2, <4>2, <4>3
    <3> QED BY <3>1, <3>2
  <2>6. h = [s \in Small(m) |-> h[s]]
    OBVIOUS
  <2> HIDE DEF h
  <2>7. h = [s \in Small(m) |-> IF s = {} THEN 0 ELSE it[Some(s)].len + h[s \ {Some(s)}]]
    BY <2>5, <2>6
  <2>8. SumsUpTo(h, it, S, m)
    BY <2>7, Zenon DEF SumsUpTo
  <2> QED BY <1>1, <2>8
<1> QED BY <1>2, <1>3

LEMMA SumsExist ==
  ASSUME NEW it, NEW S, IsFiniteSet(S)
  PROVE  \E g : Sums(g, it, S) /\ LenSum(it, S) = g[S]
<1>1. Cardinality(S) \in Nat
  BY FS_CardinalityType
<1>2. {t \in SUBSET S : Cardinality(t) <= Cardinality(S)} = SUBSET S
  BY FS_Subset
<1>3. PICK g : SumsUpTo(g, it, S, Cardinality(S))
  BY <1>1, SumsUpToExist
<1>4. Sums(g, it, S)
  BY <1>2, <1>3 DEF SumsUpTo, Sums
<1>5. LenSum(it, S) = (CHOOSE f : Sums(f, it, S))[S]
  BY Zenon DEF LenSum, MapThenSumSet, MapThenFoldSet, Sums, Some
<1>6. Sums(CHOOSE f : Sums(f, it, S), it, S)
  BY <1>4
<1> QED BY <1>5, <1>6

LEMMA SumsAt ==
  ASSUME NEW it, NEW S, NEW g, Sums(g, it, S), NEW s \in SUBSET S
  PROVE  g[s] = IF s = {} THEN 0 ELSE it[Some(s)].len + g[s \ {Some(s)}]
<1>1. g = [t \in SUBSET S |-> IF t = {} THEN 0 ELSE it[Some(t)].len + g[t \ {Some(t)}]]
  BY Zenon DEF Sums
<1> QED BY <1>1, Zenon

\* The sum of a set does not depend on what lies around it.
LEMMA SumsAgree ==
  ASSUME NEW it, NEW S, IsFiniteSet(S), NEW g, Sums(g, it, S),
         NEW jt, NEW T, IsFiniteSet(T), NEW h, Sums(h, jt, T),
         NEW r \in SUBSET (S \cap T), \A i \in r : it[i].len = jt[i].len
  PROVE  g[r] = h[r]
<1>0. /\ \A s \in SUBSET S : g[s] = IF s = {} THEN 0 ELSE it[Some(s)].len + g[s \ {Some(s)}]
      /\ \A s \in SUBSET T : h[s] = IF s = {} THEN 0 ELSE jt[Some(s)].len + h[s \ {Some(s)}]
  BY SumsAt
<1> DEFINE Bad == {n \in Nat : \E s \in SUBSET r : Cardinality(s) = n /\ g[s] # h[s]}
<1>1. ASSUME Bad # {} PROVE FALSE
  <2>1. Bad \subseteq Nat
    OBVIOUS
  <2> HIDE DEF Bad
  <2>2. PICK n \in Bad : \A m \in Bad : n <= m
    BY <1>1, <2>1, LeastOf
  <2> USE DEF Bad
  <2>3. PICK s \in SUBSET r : Cardinality(s) = n /\ g[s] # h[s]
    BY <2>2
  <2>4. s \in SUBSET S /\ s \in SUBSET T
    OBVIOUS
  <2>5. g[s] = IF s = {} THEN 0 ELSE it[Some(s)].len + g[s \ {Some(s)}]
    BY <1>0, <2>4
  <2>6. h[s] = IF s = {} THEN 0 ELSE jt[Some(s)].len + h[s \ {Some(s)}]
    BY <1>0, <2>4
  <2>7. s # {}
    BY <2>3, <2>5, <2>6
  <2>8. /\ Some(s) \in s /\ Cardinality(s) \in Nat \ {0}
        /\ Cardinality(s \ {Some(s)}) = Cardinality(s) - 1
    BY <2>4, <2>7, LessSome
  <2>9. n-1 \in Nat /\ ~(n <= n-1) /\ s \ {Some(s)} \in SUBSET r
    BY <2>2, <2>3, <2>8
  <2>10. g[s \ {Some(s)}] = h[s \ {Some(s)}]
    BY <2>2, <2>3, <2>8, <2>9
  <2>11. it[Some(s)].len = jt[Some(s)].len
    BY <2>8
  <2> QED BY <2>3, <2>5, <2>6, <2>10, <2>11
<1>2. Cardinality(r) \in Nat
  BY FS_Subset, FS_CardinalityType
<1> QED BY <1>1, <1>2

LEMMA SumSame ==
  ASSUME NEW S, IsFiniteSet(S), NEW it, NEW jt, \A i \in S : it[i].len = jt[i].len
  PROVE  LenSum(it, S) = LenSum(jt, S)
<1>1. PICK g : Sums(g, it, S) /\ LenSum(it, S) = g[S]
  BY SumsExist
<1>2. PICK h : Sums(h, jt, S) /\ LenSum(jt, S) = h[S]
  BY SumsExist
<1>3. S \in SUBSET (S \cap S)
  OBVIOUS
<1>4. g[S] = h[S]
  BY <1>1, <1>2, <1>3, SumsAgree
<1> QED BY <1>1, <1>2, <1>4

LEMMA SumAdd ==
  ASSUME NEW S, IsFiniteSet(S), NEW y, y \notin S, NEW it,
         \A i \in S \cup {y} : it[i].len \in Nat
  PROVE  /\ LenSum(it, S) \in Nat
         /\ LenSum(it, S \cup {y}) = LenSum(it, S) + it[y].len
<1> DEFINE T == S \cup {y}
<1>1. IsFiniteSet(T)
  BY FS_AddElement
<1>2. PICK g : Sums(g, it, T) /\ LenSum(it, T) = g[T]
  BY <1>1, SumsExist
<1>3. PICK h : Sums(h, it, S) /\ LenSum(it, S) = h[S]
  BY SumsExist
<1>4. \A i \in T : it[i].len \in Nat
  OBVIOUS
<1>5. S \in SUBSET (T \cap S) /\ T \in SUBSET T /\ S \in SUBSET T /\ y \in T /\ T \ {y} = S
  OBVIOUS
<1> HIDE DEF T
<1>6. g[S] = h[S]
  BY <1>1, <1>2, <1>3, <1>5, SumsAgree
<1>7. \A s \in SUBSET T : g[s] = IF s = {} THEN 0 ELSE it[Some(s)].len + g[s \ {Some(s)}]
  BY <1>2, SumsAt
<1> DEFINE Fine(s) == g[s] \in Nat /\ \A x \in s : g[s] = it[x].len + g[s \ {x}]
           Bad == {n \in Nat : \E s \in SUBSET T : Cardinality(s) = n /\ ~Fine(s)}
<1>8. ASSUME Bad # {} PROVE FALSE
  <2>1. Bad \subseteq Nat
    OBVIOUS
  <2> HIDE DEF Bad
  <2>2. PICK n \in Bad : \A m \in Bad : n <= m
    BY <1>8, <2>1, LeastOf
  <2> USE DEF Bad
  <2>3. PICK s \in SUBSET T : Cardinality(s) = n /\ ~Fine(s)
    BY <2>2
  <2>4. \A t \in SUBSET T : Cardinality(t) \in Nat /\ Cardinality(t) < Cardinality(s) => Fine(t)
    BY <2>2, <2>3
  <2> HIDE DEF Fine, Bad
  <2>5. s # {}
    <3> SUFFICES ASSUME s = {} PROVE FALSE
      OBVIOUS
    <3>1. g[s] = 0
      BY <1>7
    <3>2. Fine(s)
      BY <3>1 DEF Fine
    <3> QED BY <2>3, <3>2
  <2> DEFINE z == Some(s)
  <2>6. /\ z \in s /\ Cardinality(s) \in Nat \ {0}
        /\ \A x \in s : Cardinality(s \ {x}) = Cardinality(s) - 1
    BY <1>1, <2>5, LessSome
  <2>7. g[s] = it[z].len + g[s \ {z}]
    BY <1>7, <2>5
  <2> HIDE DEF z
  <2>8. \A x \in s : Fine(s \ {x})
    BY <2>4, <2>6
  <2>9. \A x \in s : it[x].len \in Nat /\ g[s \ {x}] \in Nat
    BY <1>4, <2>8 DEF Fine
  <2>10. ASSUME NEW x \in s PROVE g[s] = it[x].len + g[s \ {x}]
    <3>1. CASE x = z
      BY <2>7, <3>1
    <3>2. CASE x # z
      <4>1. x \in s \ {z} /\ z \in s \ {x}
        BY <2>6, <3>2
      <4>2. g[s \ {z}] = it[x].len + g[(s \ {z}) \ {x}]
        BY <2>6, <2>8, <4>1 DEF Fine
      <4>3. g[s \ {x}] = it[z].len + g[(s \ {x}) \ {z}]
        BY <2>8, <4>1 DEF Fine
      <4>4. (s \ {x}) \ {z} = (s \ {z}) \ {x}
        OBVIOUS
      <4>5. g[(s \ {z}) \ {x}] \in Nat
        <5>1. /\ IsFiniteSet(s \ {z}) /\ Cardinality(s \ {z}) = Cardinality(s) - 1
              /\ Cardinality((s \ {z}) \ {x}) = Cardinality(s \ {z}) - 1
              /\ Cardinality((s \ {z}) \ {x}) \in Nat
          <6>1. s \ {z} \in SUBSET T /\ s \ {z} # {}
            BY <4>1
          <6>2. (s \ {z}) \ {x} \in SUBSET T
            OBVIOUS
          <6>3. IsFiniteSet(s \ {z}) /\ Cardinality((s \ {z}) \ {x}) = Cardinality(s \ {z}) - 1
            BY <1>1, <4>1, <6>1, LessSome
          <6>4. IsFiniteSet((s \ {z}) \ {x})
            BY <1>1, <6>2, FS_Subset
          <6> QED BY <2>6, <6>3, <6>4, FS_CardinalityType
        <5>2. Fine((s \ {z}) \ {x})
          BY <2>4, <2>6, <5>1
        <5> QED BY <5>2 DEF Fine
      <4>6. g[(s \ {x}) \ {z}] = g[(s \ {z}) \ {x}]
        BY <4>4
      <4>7. it[x].len \in Nat /\ it[z].len \in Nat
        BY <2>6, <2>9
      <4> QED BY <2>7, <4>2, <4>3, <4>5, <4>6, <4>7
    <3> QED BY <3>1, <3>2
  <2>11. g[s] \in Nat
    BY <2>6, <2>7, <2>9
  <2> QED BY <2>3, <2>10, <2>11 DEF Fine
<1>9. \A s \in SUBSET T : Fine(s)
  <2>1. \A s \in SUBSET T : Cardinality(s) \in Nat
    BY <1>1, FS_Subset, FS_CardinalityType
  <2> QED BY <1>8, <2>1
<1>10. g[S] \in Nat /\ g[T] = it[y].len + g[S]
  BY <1>5, <1>9
<1>11. it[y].len \in Nat
  OBVIOUS
<1> QED BY <1>2, <1>3, <1>6, <1>10, <1>11 DEF T

LEMMA SumEmpty == \A it : LenSum(it, {}) = 0
<1> SUFFICES ASSUME NEW it PROVE LenSum(it, {}) = 0
  OBVIOUS
<1>1. PICK g : Sums(g, it, {}) /\ LenSum(it, {}) = g[{}]
  BY FS_EmptySet, SumsExist
<1>2. {} \in SUBSET {}
  OBVIOUS
<1>3. g[{}] = 0
  BY <1>1, <1>2, SumsAt
<1> QED BY <1>1, <1>3

\* The sum where only item y changes.
LEMMA SumBut ==
  ASSUME NEW S, IsFiniteSet(S), NEW y \in S, NEW it, NEW jt,
         \A i \in S : it[i].len \in Nat /\ jt[i].len \in Nat,
         \A i \in S \ {y} : jt[i].len = it[i].len
  PROVE  /\ LenSum(it, S) \in Nat /\ LenSum(jt, S) \in Nat
         /\ it[y].len \in Nat /\ jt[y].len \in Nat
         /\ LenSum(it, S) >= it[y].len
         /\ LenSum(jt, S) = LenSum(it, S) - it[y].len + jt[y].len
<1> DEFINE R == S \ {y}
<1>1. IsFiniteSet(R) /\ y \notin R /\ S = R \cup {y}
  BY FS_RemoveElement
<1>2. \A i \in R \cup {y} : it[i].len \in Nat /\ jt[i].len \in Nat
  OBVIOUS
<1>3. \A i \in R : it[i].len = jt[i].len
  OBVIOUS
<1> HIDE DEF R
<1>4. LenSum(it, R) \in Nat /\ LenSum(it, S) = LenSum(it, R) + it[y].len
  BY <1>1, <1>2, SumAdd
<1>5. LenSum(jt, R) \in Nat /\ LenSum(jt, S) = LenSum(jt, R) + jt[y].len
  BY <1>1, <1>2, SumAdd
<1>6. LenSum(it, R) = LenSum(jt, R)
  BY <1>1, <1>3, SumSame
<1> QED BY <1>2, <1>4, <1>5, <1>6

-----------------------------------------------------------------------------
Due == IF pc \in {"fit", "stuck"} THEN required ELSE 0

\* What is free and what the items hold is never more than the cache and the value
\* being set; for a careful client it is all of it.
MemInv ==
  /\ free_memory + LenSum(item, Born) <= TotalMemory + Due
  /\ Careful /\ pc \in {"idle", "fit"} =>
       free_memory + LenSum(item, Born) = TotalMemory + Due

LEMMA MemInit == Init => MemInv
<1> SUFFICES ASSUME Init PROVE MemInv
  OBVIOUS
<1>1. Born = {} /\ free_memory = TotalMemory /\ pc = "idle"
  BY DEF Init, Born
<1>2. LenSum(item, Born) = 0
  BY <1>1, SumEmpty
<1> QED BY <1>1, <1>2, LruSizes DEF MemInv, Due

LEMMA SumInNat ==
  ASSUME TypeInv
  PROVE  /\ IsFiniteSet(Born) /\ \A i \in Born : item[i].len \in Nat
         /\ LenSum(item, Born) \in Nat
<1>1. IsFiniteSet(Born) /\ \A i \in Born : item[i].len \in Nat
  <2>1. Word \in Nat /\ item \in [Born -> ItemOver(Ptrs)]
    BY BornFinite DEF TypeInv
  <2>2. \A i \in Born : item[i].len \in 0..Word-1
    BY <2>1 DEF ItemOver
  <2> QED BY <2>1, <2>2, BornFinite
<1>2. CASE Born = {}
  <2>1. LenSum(item, Born) = LenSum(item, {})
    BY <1>2
  <2> QED BY <1>1, <2>1, SumEmpty
<1>3. CASE Born # {}
  <2>1. PICK y \in Born : TRUE
    BY <1>3
  <2> QED BY <1>1, <2>1, SumBut
<1> QED BY <1>2, <1>3

\* What leaves an item joins the free memory.
LEMMA RemoveMem ==
  ASSUME TypeInv, MemInv, NEW h \in Chains, NEW p \in Born \cup {Null}, NEW i \in Born,
         ItemRemove(h, p, i), UNCHANGED <<client, pc, required>>
  PROVE  MemInv'
<1>1. /\ item' \in [Born -> ItemOver(Ptrs)] /\ item'[i].len = 0
      /\ \A j \in Born \ {i} : item'[j].len = item[j].len
      /\ free_memory' = free_memory + item[i].len
  BY Removed
<1>2. /\ Born' = Born /\ IsFiniteSet(Born)
      /\ \A j \in Born : item[j].len \in Nat /\ item'[j].len \in Nat
  BY <1>1, BornFinite DEF Born, TypeInv, ItemOver
<1>3. /\ LenSum(item, Born) \in Nat /\ LenSum(item', Born) \in Nat /\ item[i].len \in Nat
      /\ LenSum(item', Born) = LenSum(item, Born) - item[i].len + item'[i].len
  BY <1>1, <1>2, SumBut
<1>4. free_memory' + LenSum(item', Born) = free_memory + LenSum(item, Born)
  BY <1>1, <1>3 DEF TypeInv
<1>5. Due' = Due /\ Careful' = Careful /\ LenSum(item, Born)' = LenSum(item', Born)
  <2>1. Due' = Due /\ Careful' = Careful
    BY DEF Due, Careful
  <2>2. LenSum(item, Born)' = LenSum(item', Born')
    OBVIOUS
  <2> QED BY <1>2, <2>1, <2>2
<1> QED BY <1>4, <1>5 DEF MemInv

LEMMA MemKept ==
  ASSUME TypeInv, ListInv, MemInv, [Next]_vars
  PROVE  MemInv'
<1>1. /\ IsFiniteSet(Born) /\ \A j \in Born : item[j].len \in Nat
      /\ free_memory \in Nat /\ required \in Nat /\ TotalMemory \in Nat
      /\ Word \in Nat \ {0} /\ Lengths \subseteq 0..Word-1
  BY SumInNat, LruSizes DEF TypeInv
<1>2. LenSum(item, Born)' = LenSum(item', Born') /\ LenSum(item, Born) \in Nat
  BY SumInNat
<1>3. ASSUME NEW k \in Key, NEW v \in Value, NEW n \in Lengths, SetUpdate(k, v, n)
      PROVE  MemInv'
  <2> DEFINE i == StopAt(k)
             old == item[i].len
  <2>1. /\ i \in Born /\ item' \in [Born -> ItemOver(Ptrs)] /\ item'[i].len = n
        /\ \A j \in Born \ {i} : item'[j].len = item[j].len
    BY <1>3, Updated
  <2>2. /\ pc = "idle" /\ pc' = "fit" /\ free_memory' = free_memory /\ client' = client
        /\ required' = (n - old + Word) % Word
    BY <1>3 DEF SetUpdate
  <2>3. Careful => old = n /\ required' = 0
    BY <1>3, UpdateSame
  <2> HIDE DEF i
  <2>4. /\ Born' = Born /\ n \in 0..Word-1 /\ old \in 0..Word-1
        /\ \A j \in Born : item'[j].len \in Nat
    BY <1>1, <2>1 DEF Born, TypeInv, ItemOver
  <2>5. /\ LenSum(item', Born) \in Nat
        /\ LenSum(item', Born) = LenSum(item, Born) - old + n
    BY <1>1, <2>1, <2>4, SumBut
  <2> HIDE DEF old
  <2>6. required' \in Nat /\ required' >= n - old
    <3>1. CASE n < old
      BY <1>1, <2>2, <2>4, <3>1
    <3>2. CASE n >= old
      <4>1. n - old + Word = (n - old) + 1 * Word /\ n - old \in 0..Word-1
        BY <1>1, <2>4, <3>2
      <4>2. required' = n - old
        BY <1>1, <2>2, <4>1
      <4> QED BY <2>4, <3>2, <4>2
    <3> QED BY <2>4, <3>1, <3>2
  <2>7. Due = 0 /\ Due' = required' /\ Careful' = Careful
    BY <2>2 DEF Due, Careful
  <2> QED BY <1>1, <1>2, <2>2, <2>3, <2>4, <2>5, <2>6, <2>7 DEF MemInv
<1>4. ASSUME NEW k \in Key, NEW v \in Value, NEW n \in Lengths, SetInsert(k, v, n)
      PROVE  MemInv'
  <2> DEFINE i == Popped
  <2>1. /\ (free_items = Null => i \notin Born) /\ (free_items # Null => i = free_items)
        /\ item' \in [Born \cup {i} -> ItemOver(PtrsWith(i))] /\ item'[i].len = n
        /\ \A j \in Born \ {i} : item'[j].len = item[j].len
    BY <1>4, Inserted
  <2>2. /\ pc = "idle" /\ pc' = "fit" /\ free_memory' = free_memory /\ client' = client
        /\ required' = n
    BY <1>4 DEF SetInsert
  <2> HIDE DEF i
  <2>3. /\ Born' = Born \cup {i} /\ n \in 0..Word-1
        /\ \A j \in Born \cup {i} : item'[j].len \in Nat
    BY <1>1, <2>1 DEF Born, ItemOver
  <2>4. Due = 0 /\ Due' = n /\ Careful' = Careful
    BY <2>2 DEF Due, Careful
  <2>5. CASE i \in Born
    <3>1. Born' = Born
      BY <2>3, <2>5
    <3>2. /\ LenSum(item', Born) \in Nat /\ item[i].len \in Nat
          /\ LenSum(item', Born) = LenSum(item, Born) - item[i].len + n
      <4>1. /\ \A j \in Born : item[j].len \in Nat /\ item'[j].len \in Nat
            /\ \A j \in Born \ {i} : item'[j].len = item[j].len
        BY <1>1, <2>1, <2>3
      <4>2. IsFiniteSet(Born)
        BY <1>1
      <4>3. /\ LenSum(item', Born) \in Nat /\ item[i].len \in Nat
            /\ LenSum(item', Born) = LenSum(item, Born) - item[i].len + item'[i].len
        BY <2>5, <4>1, <4>2, SumBut
      <4> QED BY <2>1, <4>3
    <3>3. Careful => item[i].len = 0
      <4>1. i = free_items /\ free_items # Null
        BY <2>1, <2>5
      <4> QED BY <2>2, <4>1, ListImplied
    <3>4. free_memory' + LenSum(item', Born') = free_memory + LenSum(item, Born) - item[i].len + n
      <4>1. LenSum(item', Born') = LenSum(item', Born)
        BY <3>1
      <4> QED BY <1>1, <1>2, <2>2, <2>3, <3>2, <4>1
    <3> QED BY <1>1, <1>2, <2>2, <2>3, <2>4, <3>2, <3>3, <3>4 DEF MemInv
  <2>6. CASE i \notin Born
    <3>1. LenSum(item', Born \cup {i}) = LenSum(item', Born) + n
      BY <1>1, <2>1, <2>3, <2>6, SumAdd
    <3>2. \A j \in Born : item'[j].len = item[j].len
      BY <2>1, <2>6
    <3>3. LenSum(item', Born) = LenSum(item, Born)
      BY <1>1, <3>2, SumSame
    <3> QED BY <1>1, <1>2, <2>2, <2>3, <2>4, <3>1, <3>3 DEF MemInv
  <2> QED BY <2>5, <2>6
<1>5. ASSUME NEW k \in Key, Search(k) PROVE MemInv'
  <2>1. UNCHANGED <<item, free_memory, required, client>> /\ pc = "idle" /\ pc' = "stuck"
    BY <1>5 DEF Search
  <2>2. Due = 0 /\ Due' = required /\ Born' = Born
    BY <2>1 DEF Due, Born
  <2> QED BY <1>1, <1>2, <2>1, <2>2 DEF MemInv
<1>6. ASSUME NEW k \in Key, Get(k) PROVE MemInv'
  <2>1. UNCHANGED <<free_memory, required, client, pc>> /\ Stops(k) # {}
    BY <1>6 DEF Get
  <2>2. /\ Born' = Born /\ \A j \in Born : item'[j].len = item[j].len
    <3>1. CASE StopAt(k) = Null
      BY <1>6, <3>1 DEF Get, Born
    <3>2. CASE StopAt(k) # Null
      <4>1. item' = Touch(item, StopAt(k)) /\ StopAt(k) \in Born
        BY <1>6, <2>1, <3>2, StopPlace DEF Get
      <4>2. item \in [Born -> ItemOver(Ptrs)]
        BY DEF TypeInv
      <4>3. /\ item' \in [Born -> ItemOver(Ptrs)]
            /\ \A j \in Born : Alike(item'[j], item[j])
        BY <1>1, <4>1, <4>2, TouchKeeps
      <4> QED BY <4>3 DEF Alike, Born
    <3> QED BY <3>1, <3>2
  <2>3. LenSum(item', Born) = LenSum(item, Born)
    BY <1>1, <2>2, SumSame
  <2>4. Due' = Due /\ Careful' = Careful
    BY <2>1 DEF Due, Careful
  <2> QED BY <1>2, <2>1, <2>2, <2>3, <2>4 DEF MemInv
<1>7. ASSUME NEW k \in Key, Remove(k) PROVE MemInv'
  <2>1. UNCHANGED <<client, pc, required>> /\ Stops(k) # {}
    BY <1>7 DEF Remove
  <2>2. CASE StopAt(k) = Null
    <3>1. UNCHANGED <<item, free_memory>>
      BY <1>7, <2>2 DEF Remove
    <3> QED BY <2>1, <3>1 DEF MemInv, Due, Careful, Born
  <2>3. CASE StopAt(k) # Null
    <3>1. ItemRemove(Hash[k], PrevOf(k), StopAt(k))
      BY <1>7, <2>3 DEF Remove
    <3>2. Hash[k] \in Chains /\ PrevOf(k) \in Born \cup {Null} /\ StopAt(k) \in Born
      BY <2>1, <2>3, StopPlace
    <3> HIDE DEF StopAt, PrevOf
    <3> QED BY <2>1, <3>1, <3>2, RemoveMem
  <2> QED BY <2>2, <2>3
<1>8. CASE Evict
  <2>1. pc = "fit" /\ UNCHANGED <<client, required>>
    BY <1>8 DEF Evict
  <2>2. CASE \E h \in 0..HashSize-1 : Endless(items[h])
    <3>1. UNCHANGED <<item, free_memory>> /\ pc' \in {"stuck"}
      BY <1>8, <2>2 DEF Evict
    <3>2. Due' = Due /\ Born' = Born
      BY <2>1, <3>1 DEF Due, Born
    <3> QED BY <1>2, <2>1, <3>1, <3>2 DEF MemInv
  <2>3. CASE ~ \E h \in 0..HashSize-1 : Endless(items[h])
    <3>1. PICK pl \in Oldest : ItemRemove(pl[1], Before(pl), At(pl))
      BY <1>8, <2>3 DEF Evict
    <3>2. UNCHANGED <<client, pc, required>>
      BY <1>8, <2>3 DEF Evict
    <3>3. pl[1] \in Chains /\ At(pl) \in Born /\ Before(pl) \in Born \cup {Null}
      BY <2>3, OldestPlace
    <3> HIDE DEF At, Before
    <3> QED BY <3>1, <3>2, <3>3, RemoveMem
  <2> QED BY <2>2, <2>3
<1>9. CASE Fit
  <2>1. /\ UNCHANGED <<item, client>> /\ pc = "fit" /\ pc' = "idle"
        /\ free_memory' = free_memory - required
    BY <1>9 DEF Fit
  <2>2. Due = required /\ Due' = 0 /\ Born' = Born /\ Careful' = Careful
    BY <2>1 DEF Due, Born, Careful
  <2>3. LenSum(item', Born') = LenSum(item, Born)
    <3>1. item' = item /\ Born' = Born
      BY <2>1, <2>2
    <3> QED BY <3>1
  <2>4. free_memory' + LenSum(item', Born') = free_memory + LenSum(item, Born) - required
    BY <1>1, <1>2, <2>1, <2>3
  <2>5. LenSum(item', Born') \in Nat /\ (Careful' => Careful) /\ (pc' \in {"idle", "fit"} => pc \in {"idle", "fit"})
    BY <1>2, <2>1, <2>2, <2>3
  <2>6. ASSUME free_memory + LenSum(item, Born) <= TotalMemory + Due
        PROVE  free_memory' + LenSum(item', Born') <= TotalMemory + Due'
    BY <1>1, <1>2, <2>2, <2>4, <2>6
  <2>7. ASSUME free_memory + LenSum(item, Born) = TotalMemory + Due
        PROVE  free_memory' + LenSum(item', Born') = TotalMemory + Due'
    BY <1>1, <1>2, <2>2, <2>4, <2>7
  <2> QED BY <1>2, <2>5, <2>6, <2>7 DEF MemInv
<1>10. CASE Free
  <2>1. pc = "idle" /\ pc' \in {"aborted", "freed"} /\ free_memory' = free_memory
    BY <1>10 DEF Free
  <2>2. Born' = {}
    BY <1>10 DEF Free, Born
  <2>3. LenSum(item', Born') = 0
    BY <2>2, SumEmpty
  <2>4. Due = 0 /\ Due' = 0
    BY <2>1 DEF Due
  <2> QED BY <1>1, <1>2, <2>1, <2>3, <2>4 DEF MemInv
<1>11. CASE UNCHANGED vars
  BY <1>11 DEF vars, MemInv, Due, Careful, Born
<1> QED BY <1>3, <1>4, <1>5, <1>6, <1>7, <1>8, <1>9, <1>10, <1>11 DEF Next, Step

LEMMA MemImplied ==
  ASSUME TypeInv, ListInv, MemInv PROVE MemoryBalanced
<1>1. /\ free_memory \in Nat /\ LenSum(item, Born) \in Nat /\ TotalMemory \in Nat
      /\ IsFiniteSet(Born) /\ \A j \in Born : item[j].len \in Nat
  BY SumInNat, LruSizes DEF TypeInv
<1>2. pc = "idle" => free_memory <= TotalMemory
  BY <1>1 DEF MemInv, Due
<1>3. ASSUME Careful, pc = "idle" PROVE free_memory + LenSum(item, Alive) = TotalMemory
  <2>1. /\ Born = Alive \cup ({free_items} \ {Null}) /\ Alive \cap ({free_items} \ {Null}) = {}
        /\ free_items # Null => item[free_items].len = 0
    BY <1>3, ListImplied
  <2>2. LenSum(item, Born) = LenSum(item, Alive)
    <3>1. CASE free_items = Null
      BY <2>1, <3>1
    <3>2. CASE free_items # Null
      <4>1. Born = Alive \cup {free_items} /\ free_items \notin Alive /\ Alive \subseteq Born
        BY <2>1, <3>2
      <4>2. IsFiniteSet(Alive)
        BY <1>1, <4>1, FS_Subset
      <4> HIDE DEF Alive
      <4>3. /\ LenSum(item, Alive) \in Nat
            /\ LenSum(item, Alive \cup {free_items}) = LenSum(item, Alive) + item[free_items].len
        BY <1>1, <4>1, <4>2, SumAdd
      <4>4. LenSum(item, Born) = LenSum(item, Alive \cup {free_items})
        BY <4>1
      <4> QED BY <2>1, <3>2, <4>3, <4>4
    <3> QED BY <3>1, <3>2
  <2> QED BY <1>1, <1>3, <2>2 DEF MemInv, Due
<1> QED BY <1>1, <1>2, <1>3 DEF MemoryBalanced, LenSum

\* For any capacity and lengths, whatever malloc left in new memory, free_memory
\* never wraps and between calls is within the capacity; for a careful client, whose
\* memory is zeroed, it is what the values leave.
THEOREM MemoryCorrect == Spec => []MemoryBalanced
<1>1. Init => TypeInv /\ ListInv /\ MemInv
  BY TypeInit, ListInit, MemInit
<1>2. TypeInv /\ ListInv /\ MemInv /\ [Next]_vars => (TypeInv /\ ListInv /\ MemInv)'
  BY TypeKept, ListKept, MemKept
<1>3. TypeInv /\ ListInv /\ MemInv => MemoryBalanced
  BY MemImplied
<1> QED BY <1>1, <1>2, <1>3, PTL DEF Spec


-----------------------------------------------------------------------------
\* The items A in the order of their ranks.
Ranked(it, A) ==
  /\ \A i \in A : it[i].rank \in 1..Cardinality(A)
  /\ \A i, j \in A : it[i].rank = it[j].rank => i = j
  /\ \A r \in 1..Cardinality(A) : \E i \in A : it[i].rank = r

Keyed(it, A) ==
  /\ \A i \in A : it[i].key \in Key
  /\ \A i, j \in A : it[i].key = it[j].key => i = j

OrderOf(it, A) ==
  [r \in 1..Cardinality(A) |-> it[CHOOSE i \in A : it[i].rank = r].key]

KeysOf(it, A) == {it[i].key : i \in A}

EntryAt(it, i) == [value |-> it[i].value, len |-> it[i].len]

EntryOf(it, A) ==
  [k \in KeysOf(it, A) |-> EntryAt(it, CHOOSE j \in A : it[j].key = k)]

Removal(s, p) == SubSeq(s, 1, p-1) \o SubSeq(s, p+1, Len(s))

LEMMA RemovalIs ==
  ASSUME NEW S, NEW s \in Seq(S), NEW p \in 1..Len(s)
  PROVE  /\ Removal(s, p) \in Seq(S) /\ Len(Removal(s, p)) = Len(s) - 1
         /\ \A q \in 1..Len(s)-1 : Removal(s, p)[q] = IF q < p THEN s[q] ELSE s[q+1]
<1> DEFINE a == SubSeq(s, 1, p-1)
           b == SubSeq(s, p+1, Len(s))
<1>1. Len(s) \in Nat /\ p \in Nat /\ p-1 \in Nat /\ p+1 \in Nat /\ \A q \in 1..Len(s) : s[q] \in S
  BY LenProperties
<1>2. (\A q \in 1..p-1 : s[q] \in S) /\ (\A q \in p+1..Len(s) : s[q] \in S)
  BY <1>1
<1>3. /\ a \in Seq(S) /\ Len(a) = p-1 /\ \A q \in 1..p-1 : a[q] = s[q]
  <2>1. /\ a \in Seq(S) /\ Len(a) = IF 1 <= p-1 THEN (p-1)-1+1 ELSE 0
        /\ \A q \in 1..(p-1)-1+1 : a[q] = s[1+q-1]
    BY <1>1, <1>2, SubSeqProperties
  <2> HIDE DEF a
  <2> QED BY <1>1, <2>1
<1>4. /\ b \in Seq(S) /\ Len(b) = Len(s)-p /\ \A q \in 1..Len(s)-p : b[q] = s[p+q]
  <2>1. /\ b \in Seq(S) /\ Len(b) = IF p+1 <= Len(s) THEN Len(s)-(p+1)+1 ELSE 0
        /\ \A q \in 1..Len(s)-(p+1)+1 : b[q] = s[(p+1)+q-1]
    BY <1>1, <1>2, SubSeqProperties
  <2> HIDE DEF b
  <2>2. Len(s)-(p+1)+1 = Len(s)-p /\ Len(b) = Len(s)-p
    BY <1>1, <2>1
  <2>3. ASSUME NEW q \in 1..Len(s)-p PROVE b[q] = s[p+q]
    <3>1. (p+1)+q-1 = p+q /\ q \in 1..Len(s)-(p+1)+1
      BY <1>1, <2>2
    <3> QED BY <2>1, <3>1
  <2> QED BY <2>1, <2>2, <2>3
<1>5. Removal(s, p) = a \o b
  BY DEF Removal
<1> HIDE DEF a, b
<1>6. /\ a \o b \in Seq(S) /\ Len(a \o b) = Len(a) + Len(b)
      /\ \A q \in 1..Len(a) + Len(b) : (a \o b)[q] = IF q <= Len(a) THEN a[q] ELSE b[q - Len(a)]
  BY <1>3, <1>4, ConcatProperties
<1>7. ASSUME NEW q \in 1..Len(s)-1 PROVE (a \o b)[q] = IF q < p THEN s[q] ELSE s[q+1]
  <2>1. (a \o b)[q] = IF q <= p-1 THEN a[q] ELSE b[q - (p-1)]
    BY <1>1, <1>3, <1>4, <1>6
  <2>2. CASE q < p
    BY <1>1, <1>3, <2>1, <2>2
  <2>3. CASE ~(q < p)
    <3>1. q - (p-1) \in 1..Len(s)-p /\ p + (q - (p-1)) = q+1
      BY <1>1, <2>3
    <3> QED BY <1>1, <1>4, <2>1, <2>3, <3>1
  <2> QED BY <2>2, <2>3
<1> QED BY <1>1, <1>3, <1>4, <1>5, <1>6, <1>7

LEMMA OrderIs ==
  ASSUME NEW A, IsFiniteSet(A), NEW it, Ranked(it, A), Keyed(it, A)
  PROVE  /\ Cardinality(A) \in Nat
         /\ OrderOf(it, A) \in Seq(Key) /\ Len(OrderOf(it, A)) = Cardinality(A)
         /\ \A i \in A : OrderOf(it, A)[it[i].rank] = it[i].key
         /\ {OrderOf(it, A)[p] : p \in 1..Cardinality(A)} = KeysOf(it, A)
<1> DEFINE s == OrderOf(it, A)
           n == Cardinality(A)
<1>1. n \in Nat
  BY FS_CardinalityType
<1>2. s = [r \in 1..n |-> it[CHOOSE i \in A : it[i].rank = r].key]
  BY Zenon DEF OrderOf
<1>3. \A r \in 1..n : \E i \in A : it[i].rank = r /\ s[r] = it[i].key
  <2> SUFFICES ASSUME NEW r \in 1..n PROVE \E i \in A : it[i].rank = r /\ s[r] = it[i].key
    OBVIOUS
  <2>1. \E i \in A : it[i].rank = r
    BY DEF Ranked
  <2>2. (CHOOSE i \in A : it[i].rank = r) \in A /\ it[CHOOSE i \in A : it[i].rank = r].rank = r
    BY <2>1
  <2>3. s[r] = it[CHOOSE i \in A : it[i].rank = r].key
    BY <1>2, Zenon
  <2> QED BY <2>2, <2>3
<1> HIDE DEF s
<1>4. \A i \in A : it[i].rank \in 1..n /\ s[it[i].rank] = it[i].key
  BY <1>3 DEF Ranked
<1>5. s \in [1..n -> Key]
  BY <1>2, <1>3 DEF Keyed
<1>6. s \in Seq(Key) /\ Len(s) = n
  BY <1>1, <1>5
<1>7. {s[p] : p \in 1..n} = KeysOf(it, A)
  BY <1>3, <1>4 DEF KeysOf
<1> QED BY <1>1, <1>4, <1>6, <1>7 DEF s

LEMMA OrderEq ==
  ASSUME NEW A, IsFiniteSet(A), NEW it, Ranked(it, A), Keyed(it, A),
         NEW s \in Seq(Key), Len(s) = Cardinality(A),
         \A i \in A : s[it[i].rank] = it[i].key
  PROVE  OrderOf(it, A) = s
<1>1. /\ OrderOf(it, A) \in Seq(Key) /\ Len(OrderOf(it, A)) = Cardinality(A)
      /\ \A i \in A : OrderOf(it, A)[it[i].rank] = it[i].key
  BY OrderIs
<1>2. \A r \in 1..Cardinality(A) : OrderOf(it, A)[r] = s[r]
  BY <1>1 DEF Ranked
<1> QED BY <1>1, <1>2, SeqEqual

LEMMA EntryIs ==
  ASSUME NEW A, NEW it, Keyed(it, A)
  PROVE  /\ DOMAIN EntryOf(it, A) = KeysOf(it, A)
         /\ EntryOf(it, A) = [k \in KeysOf(it, A) |-> EntryOf(it, A)[k]]
         /\ \A i \in A : EntryOf(it, A)[it[i].key] = EntryAt(it, i)
<1> DEFINE e == EntryOf(it, A)
<1>1. e = [k \in KeysOf(it, A) |-> EntryAt(it, CHOOSE j \in A : it[j].key = k)]
  BY Zenon DEF EntryOf, KeysOf
<1>2. ASSUME NEW i \in A PROVE e[it[i].key] = EntryAt(it, i)
  <2>1. it[i].key \in KeysOf(it, A)
    BY DEF KeysOf
  <2>2. e[it[i].key] = EntryAt(it, CHOOSE j \in A : it[j].key = it[i].key)
    BY <1>1, <2>1, Zenon
  <2>3. (CHOOSE j \in A : it[j].key = it[i].key) = i
    BY DEF Keyed
  <2> QED BY <2>2, <2>3
<1>3. DOMAIN e = KeysOf(it, A) /\ e = [k \in KeysOf(it, A) |-> e[k]]
  BY <1>1
<1> QED BY <1>2, <1>3

LEMMA EntryEq ==
  ASSUME NEW A, NEW it, Keyed(it, A), NEW e, e = [k \in KeysOf(it, A) |-> e[k]],
         \A i \in A : e[it[i].key] = EntryAt(it, i)
  PROVE  EntryOf(it, A) = e
<1> DEFINE d == EntryOf(it, A)
<1>1. d = [k \in KeysOf(it, A) |-> d[k]] /\ \A i \in A : d[it[i].key] = EntryAt(it, i)
  BY EntryIs
<1>2. e = [k \in KeysOf(it, A) |-> e[k]]
  OBVIOUS
<1> HIDE DEF d
<1>3. \A k \in KeysOf(it, A) : d[k] = e[k]
  BY <1>1 DEF KeysOf
<1> QED BY <1>1, <1>2, <1>3 DEF d

\* it becomes jt, where item i leaves A and the ranks above its own close up.
Dropped(it, jt, A, i) ==
  \A j \in A \ {i} :
    /\ jt[j].key = it[j].key
    /\ jt[j].rank = IF it[j].rank > it[i].rank THEN it[j].rank - 1 ELSE it[j].rank

LEMMA DropOrder ==
  ASSUME NEW A, IsFiniteSet(A), NEW it, Ranked(it, A), Keyed(it, A), NEW i \in A,
         NEW jt, Dropped(it, jt, A, i)
  PROVE  /\ Ranked(jt, A \ {i}) /\ Keyed(jt, A \ {i})
         /\ OrderOf(jt, A \ {i}) = Removal(OrderOf(it, A), it[i].rank)
<1> DEFINE B == A \ {i}
           n == Cardinality(A)
           p == it[i].rank
           s == OrderOf(it, A)
<1>1. IsFiniteSet(B) /\ Cardinality(B) = n - 1 /\ n \in Nat
  BY FS_RemoveElement, FS_CardinalityType
<1>2. \A j \in A : it[j].rank \in 1..n
  BY DEF Ranked
<1>3. \A j \in B : j \in A /\ it[j].rank # p
  BY DEF Ranked
<1>4. \A j \in B : /\ jt[j].key = it[j].key
                   /\ jt[j].rank = IF it[j].rank > p THEN it[j].rank - 1 ELSE it[j].rank
  BY DEF Dropped
<1>5. p \in 1..n
  BY <1>2
<1>6. /\ s \in Seq(Key) /\ Len(s) = n
      /\ \A j \in A : s[it[j].rank] = it[j].key
  BY OrderIs
<1> HIDE DEF n, p, s
<1>7. Ranked(jt, B)
  <2>1. \A j \in B : jt[j].rank \in 1..n-1
    BY <1>1, <1>2, <1>3, <1>4, <1>5
  <2>2. ASSUME NEW j \in B, NEW k \in B, jt[j].rank = jt[k].rank PROVE j = k
    <3>1. it[j].rank = it[k].rank
      BY <1>2, <1>3, <1>4, <1>5, <2>2
    <3> QED BY <3>1, <1>3 DEF Ranked
  <2>3. ASSUME NEW r \in 1..n-1 PROVE \E j \in B : jt[j].rank = r
    <3>1. CASE r < p
      <4>1. PICK j \in A : it[j].rank = r
        <5>1. r \in 1..n
          BY <1>1
        <5> QED BY <5>1 DEF Ranked, n
      <4>2. j \in B
        BY <1>5, <3>1, <4>1 DEF p
      <4> QED BY <1>1, <1>4, <1>5, <3>1, <4>1, <4>2
    <3>2. CASE ~(r < p)
      <4>1. PICK j \in A : it[j].rank = r+1
        <5>1. r+1 \in 1..n
          BY <1>1
        <5> QED BY <5>1 DEF Ranked, n
      <4>2. r+1 > p
        BY <1>1, <1>5, <3>2
      <4>3. j \in B
        BY <1>5, <4>1, <4>2 DEF p
      <4> QED BY <1>1, <1>4, <1>5, <4>1, <4>2, <4>3
    <3> QED BY <3>1, <3>2
  <2> QED BY <1>1, <2>1, <2>2, <2>3 DEF Ranked
<1>8. Keyed(jt, B)
  BY <1>3, <1>4 DEF Keyed
<1>9. /\ Removal(s, p) \in Seq(Key) /\ Len(Removal(s, p)) = n - 1
      /\ \A q \in 1..n-1 : Removal(s, p)[q] = IF q < p THEN s[q] ELSE s[q+1]
  BY <1>5, <1>6, RemovalIs
<1>10. ASSUME NEW j \in B PROVE Removal(s, p)[jt[j].rank] = jt[j].key
  <2>1. jt[j].rank \in 1..n-1
    BY <1>1, <1>7 DEF Ranked
  <2>2. s[it[j].rank] = jt[j].key
    BY <1>3, <1>4, <1>6
  <2>3. it[j].rank = IF jt[j].rank < p THEN jt[j].rank ELSE jt[j].rank + 1
    BY <1>2, <1>3, <1>4, <1>5
  <2> QED BY <1>9, <2>1, <2>2, <2>3
<1> HIDE DEF B
<1>11. OrderOf(jt, B) = Removal(s, p)
  BY <1>1, <1>7, <1>8, <1>9, <1>10, OrderEq
<1> QED BY <1>7, <1>8, <1>11 DEF B, p, s

Ending(s, k) == Append(s, k)
InOrder(it, A, s) == OrderOf(it, A) = s

\* it becomes jt, where item i joins A with the key k and the highest rank.
Joined(it, jt, A, i, k) ==
  /\ jt[i].rank = Cardinality(A) + 1 /\ jt[i].key = k /\ k \in Key
  /\ \A j \in A : /\ jt[j].key = it[j].key /\ jt[j].rank = it[j].rank
                  /\ jt[j].key # k

LEMMA JoinOrder ==
  ASSUME NEW A, IsFiniteSet(A), NEW it, Ranked(it, A), Keyed(it, A), NEW i, i \notin A,
         NEW jt, NEW k, Joined(it, jt, A, i, k)
  PROVE  /\ Ranked(jt, A \cup {i}) /\ Keyed(jt, A \cup {i})
         /\ OrderOf(jt, A \cup {i}) = Ending(OrderOf(it, A), k)
<1> DEFINE B == A \cup {i}
           n == Cardinality(A)
           s == OrderOf(it, A)
<1>1. IsFiniteSet(B) /\ Cardinality(B) = n + 1 /\ n \in Nat
  BY FS_AddElement, FS_CardinalityType
<1>2. /\ \A j \in A : it[j].rank \in 1..n
      /\ \A j, l \in A : it[j].rank = it[l].rank => j = l
      /\ \A r \in 1..n : \E j \in A : it[j].rank = r
  BY DEF Ranked
<1>3. jt[i].rank = n + 1 /\ jt[i].key = k /\ k \in Key
  BY DEF Joined
<1>4. \A j \in A : /\ jt[j].key = it[j].key /\ jt[j].rank = it[j].rank /\ jt[j].key # k
  BY DEF Joined
<1>5. /\ s \in Seq(Key) /\ Len(s) = n
      /\ \A j \in A : s[it[j].rank] = it[j].key
  BY OrderIs
<1> HIDE DEF n, s
<1>6. Ranked(jt, B)
  <2>1. \A j \in B : jt[j].rank \in 1..n+1
    BY <1>1, <1>2, <1>3, <1>4
  <2>2. ASSUME NEW j \in B, NEW l \in B, jt[j].rank = jt[l].rank PROVE j = l
    <3>1. \A m \in A : jt[m].rank \in 1..n /\ jt[m].rank # n+1
      BY <1>1, <1>2, <1>4
    <3>2. CASE j = i \/ l = i
      BY <1>3, <2>2, <3>1, <3>2
    <3>3. CASE j \in A /\ l \in A
      BY <1>2, <1>4, <2>2, <3>3
    <3> QED BY <3>2, <3>3
  <2>3. ASSUME NEW r \in 1..n+1 PROVE \E j \in B : jt[j].rank = r
    <3>1. CASE r = n+1
      BY <1>3, <3>1
    <3>2. CASE r # n+1
      <4>1. r \in 1..n
        BY <1>1, <3>2
      <4>2. PICK j \in A : it[j].rank = r
        BY <1>2, <4>1
      <4> QED BY <1>4, <4>2
    <3> QED BY <3>1, <3>2
  <2> QED BY <1>1, <2>1, <2>2, <2>3 DEF Ranked
<1>7. Keyed(jt, B)
  BY <1>3, <1>4 DEF Keyed
<1>8. /\ Append(s, k) \in Seq(Key) /\ Len(Append(s, k)) = n + 1
      /\ \A q \in 1..n : Append(s, k)[q] = s[q]
      /\ Append(s, k)[n+1] = k
  BY <1>3, <1>5, AppendProperties
<1>9. ASSUME NEW j \in B PROVE Append(s, k)[jt[j].rank] = jt[j].key
  <2>1. CASE j = i
    BY <1>3, <1>8, <2>1
  <2>2. CASE j # i
    <3>1. j \in A /\ it[j].rank \in 1..n
      BY <1>2, <2>2
    <3> QED BY <1>4, <1>5, <1>8, <3>1
  <2> QED BY <2>1, <2>2
<1> DEFINE t == Append(s, k)
<1>10. t \in Seq(Key) /\ Len(t) = n + 1 /\ \A j \in B : t[jt[j].rank] = jt[j].key
  BY <1>8, <1>9
<1> HIDE DEF B, t
<1>11. OrderOf(jt, B) = t
  BY <1>1, <1>6, <1>7, <1>10, OrderEq
<1>12. t = Ending(s, k)
  BY DEF t, Ending
<1> QED BY <1>6, <1>7, <1>11, <1>12 DEF B, s

\* The item moves to the highest rank.
LEMMA MoveOrder ==
  ASSUME NEW A, IsFiniteSet(A), NEW it, Ranked(it, A), Keyed(it, A), NEW i \in A,
         NEW jt, Dropped(it, jt, A, i),
         jt[i].rank = Cardinality(A), jt[i].key = it[i].key
  PROVE  /\ Ranked(jt, A) /\ Keyed(jt, A)
         /\ OrderOf(jt, A) = Ending(Removal(OrderOf(it, A), it[i].rank), it[i].key)
<1> DEFINE R == A \ {i}
<1>1. IsFiniteSet(R) /\ Cardinality(R) + 1 = Cardinality(A)
  <2>1. Cardinality(A) \in Nat
    BY FS_CardinalityType
  <2>2. IsFiniteSet(R) /\ Cardinality(R) = Cardinality(A) - 1
    BY FS_RemoveElement
  <2> QED BY <2>1, <2>2
<1>2. /\ Ranked(jt, R) /\ Keyed(jt, R)
      /\ OrderOf(jt, R) = Removal(OrderOf(it, A), it[i].rank)
  BY DropOrder
<1>3. Joined(jt, jt, R, i, it[i].key)
  BY <1>1 DEF Dropped, Joined, Keyed
<1>4. R \cup {i} = A /\ i \notin R
  OBVIOUS
<1> HIDE DEF R
<1>5. IsFiniteSet(R)
  BY <1>1
<1>6. /\ Ranked(jt, R \cup {i}) /\ Keyed(jt, R \cup {i})
      /\ OrderOf(jt, R \cup {i}) = Ending(OrderOf(jt, R), it[i].key)
  BY <1>2, <1>3, <1>4, <1>5, JoinOrder
<1> QED BY <1>2, <1>4, <1>6


-----------------------------------------------------------------------------
\* What the layout says of the items alive.
AliveFacts ==
  Careful /\ pc \in {"idle", "fit"} =>
    /\ IsFiniteSet(Alive) /\ Alive = Born \ {free_items}
    /\ \A i \in Alive : /\ item[i].key \in Key
                        /\ item[i].len \in Lengths /\ item[i].len \in Nat

LEMMA AliveIs == TypeInv /\ ListInv => AliveFacts
<1> SUFFICES ASSUME TypeInv, ListInv, Careful, pc \in {"idle", "fit"}
             PROVE  /\ IsFiniteSet(Alive) /\ Alive = Born \ {free_items}
                    /\ \A i \in Alive : /\ item[i].key \in Key
                                        /\ item[i].len \in Lengths /\ item[i].len \in Nat
  BY DEF AliveFacts
<1>1. PICK c : Laid(c, items, item, free_items)
  BY DEF ListInv
<1>2. Born = Alive \cup ({free_items} \ {Null}) /\ Alive \cap ({free_items} \ {Null}) = {}
  BY ListImplied
<1>3. IsFiniteSet(Born) /\ Null \notin Born
  BY BornFinite
<1>4. ASSUME NEW i \in Alive
      PROVE  item[i].key \in Key /\ item[i].len \in Lengths /\ item[i].len \in Nat
  <2>1. PICK h \in Chains : i \in OnWalk(items[h])
    BY DEF Alive, Chains
  <2>2. OnWalk(items[h]) = {c[h][n] : n \in Steps} \ {Null}
    BY <1>1, LaidWalk DEF Laid
  <2>3. PICK n \in Steps : c[h][n] = i /\ i # Null
    BY <2>1, <2>2
  <2>4. item[i].key \in Key /\ item[i].len \in Lengths
    BY <1>1, <2>3 DEF Laid, Belong
  <2>5. Lengths \subseteq 0..Word-1 /\ Word \in Nat
    BY LruSizes
  <2>6. item[i].len \in 0..Word-1
    BY <2>4, <2>5
  <2>7. item[i].len \in Nat
    BY <2>5, <2>6
  <2> QED BY <2>4, <2>7
<1> HIDE DEF Alive
<1>5. Alive = Born \ {free_items}
  BY <1>2, <1>3
<1>6. IsFiniteSet(Alive)
  BY <1>3, <1>5, FS_Subset
<1> QED BY <1>4, <1>5, <1>6

\* A search answers with the item alive that has the key, if there is one.
LEMMA SearchFinds ==
  ASSUME TypeInv, ListInv, Careful, pc \in {"idle", "fit"}, NEW k \in Key, Stops(k) # {}
  PROVE  /\ StopAt(k) # Null => StopAt(k) \in Alive /\ item[StopAt(k)].key = k
         /\ StopAt(k) = Null => \A i \in Alive : item[i].key # k
<1> DEFINE at == Hash[k]
           x == Min(Stops(k))
<1>1. PICK c : Laid(c, items, item, free_items)
  BY DEF ListInv
<1>2. \A h \in Chains : /\ OnWalk(items[h]) = {c[h][n] : n \in Steps} \ {Null}
                        /\ \A n \in Steps : Walk(items[h])[n] = c[h][n]
  BY <1>1, LaidWalk DEF Laid
<1>3. /\ at \in Chains /\ x \in 0..MaxItems /\ StopAt(k) = Walk(items[at])[x]
      /\ StopAt(k) # Null => item[StopAt(k)].key = k
      /\ \A n \in 0..MaxItems : n < x =>
           Walk(items[at])[n] # Null /\ item[Walk(items[at])[n]].key # k
  <2>1. /\ at \in Chains /\ x \in 0..MaxItems /\ StopAt(k) = Walk(items[at])[x]
        /\ StopAt(k) # Null => item[StopAt(k)].key = k
        /\ \A n \in 0..MaxItems : n < x =>
             /\ Walk(items[at])[n] # Null
             /\ Walk(items[at])[n] \in Born => item[Walk(items[at])[n]].key # k
    BY StopPlace
  <2> HIDE DEF at, x
  <2>2. items[at] \in Born \cup {Null}
    BY <2>1, CarefulType
  <2>3. Walk(items[at]) \in [0..MaxItems -> Born \cup {Null}]
    BY <2>2, WalkSteps
  <2>4. \A n \in 0..MaxItems : Walk(items[at])[n] \in Born \cup {Null}
    BY <2>3
  <2> QED BY <2>1, <2>4
<1> HIDE DEF at, x
<1>4. /\ x \in Steps /\ StopAt(k) = c[at][x]
      /\ \A n \in Steps : n < x => c[at][n] # Null /\ item[c[at][n]].key # k
  BY <1>2, <1>3 DEF Steps
<1>5. StopAt(k) # Null => StopAt(k) \in Alive
  <2>1. StopAt(k) # Null => StopAt(k) \in OnWalk(items[at])
    BY <1>2, <1>3, <1>4
  <2> QED BY <1>3, <2>1 DEF Alive, Chains
<1>6. ASSUME StopAt(k) = Null, NEW i \in Alive, item[i].key = k PROVE FALSE
  <2>1. PICK h \in Chains : i \in OnWalk(items[h])
    BY DEF Alive, Chains
  <2>2. PICK n \in Steps : c[h][n] = i /\ i # Null
    BY <1>2, <2>1
  <2>3. h = at
    BY <1>1, <1>6, <2>2 DEF Laid, Belong, at
  <2> DEFINE Late == {m \in Steps : m > x /\ c[at][m] # Null}
  <2>4. n \in Late
    <3>1. c[at][n] = i /\ i # Null /\ c[at][x] = Null
      BY <1>4, <1>6, <2>2, <2>3
    <3>2. ~(n < x) /\ n # x
      BY <1>4, <1>6, <3>1
    <3>3. n \in Nat /\ x \in Nat
      BY <1>4 DEF Steps
    <3> QED BY <3>1, <3>2, <3>3
  <2>5. Late \subseteq Nat
    BY DEF Steps
  <2> HIDE DEF Late
  <2>6. PICK m \in Late : \A l \in Late : m <= l
    BY <2>4, <2>5, LeastOf
  <2> USE DEF Late
  <2>7. /\ m \in Steps /\ m-1 \in 0..MaxItems-1 /\ m-1 \in Steps /\ (m-1)+1 = m
        /\ ~(m <= m-1) /\ m-1 >= x
    BY <1>4, <2>6, LruSizes DEF Steps
  <2>8. c[at][m] = IF c[at][m-1] = Null THEN Null ELSE item[c[at][m-1]].next
    BY <1>1, <1>3, <2>7 DEF Laid, Follows
  <2>9. c[at][m-1] # Null
    BY <2>6, <2>8
  <2>10. m-1 # x
    BY <1>4, <1>6, <2>9
  <2>11. m-1 \in Late
    BY <1>4, <2>7, <2>9, <2>10 DEF Steps
  <2> QED BY <2>6, <2>7, <2>11
<1> QED BY <1>3, <1>5, <1>6

\* The eviction finds the item that was used first.
LEMMA OldestIs ==
  ASSUME TypeInv, ListInv, Careful, pc \in {"idle", "fit"}, Ranked(item, Alive), NEW pl \in Oldest
  PROVE  At(pl) \in Alive /\ item[At(pl)].rank = 1
<1>1. PICK c : Laid(c, items, item, free_items)
  BY DEF ListInv
<1>2. \A h \in Chains : OnWalk(items[h]) = {Walk(items[h])[n] : n \in Steps} \ {Null}
  BY DEF OnWalk, Steps
<1>3. IsFiniteSet(Alive)
  BY AliveIs DEF AliveFacts
<1>4. pl \in Places /\ \A b \in Places :
         \/ item[At(pl)].rank < item[At(b)].rank
         \/ item[At(pl)].rank = item[At(b)].rank /\ Earlier(pl, b)
  BY CarefulType DEF Oldest
<1>5. At(pl) \in Alive
  <2>1. pl[1] \in Chains /\ pl[2] \in Steps /\ At(pl) # Null
    BY <1>4 DEF Places, Chains, Steps
  <2>2. At(pl) \in OnWalk(items[pl[1]])
    BY <1>2, <2>1 DEF At
  <2> QED BY <2>1, <2>2 DEF Alive, Chains
<1>6. Cardinality(Alive) \in Nat /\ Cardinality(Alive) >= 1
  <2>1. Cardinality(Alive) # 0 /\ Cardinality(Alive) \in Nat
    BY <1>3, <1>5, FS_EmptySet, FS_CardinalityType
  <2> HIDE DEF Alive
  <2> QED BY <2>1
<1>7. PICK j \in Alive : item[j].rank = 1
  <2> HIDE DEF Alive
  <2>1. 1 \in 1..Cardinality(Alive)
    BY <1>6
  <2> QED BY <2>1 DEF Ranked
<1>8. PICK b \in Places : At(b) = j
  <2>1. PICK h \in Chains : j \in OnWalk(items[h])
    BY DEF Alive, Chains
  <2>2. PICK n \in Steps : Walk(items[h])[n] = j /\ j # Null
    BY <1>2, <2>1
  <2> DEFINE b == <<h, n>>
  <2>3. b \in (0..HashSize-1) \X (0..MaxItems) /\ At(b) = j
    BY <2>2 DEF Chains, Steps, At
  <2> HIDE DEF b
  <2>4. b \in Places
    BY <2>2, <2>3 DEF Places
  <2> QED BY <2>3, <2>4
<1>9. item[At(pl)].rank \in 1..Cardinality(Alive) /\ item[At(pl)].rank <= 1
  <2>1. item[At(pl)].rank \in 1..Cardinality(Alive)
    BY <1>5 DEF Ranked
  <2> HIDE DEF Alive, At
  <2>2. item[At(pl)].rank < 1 \/ item[At(pl)].rank = 1
    BY <1>4, <1>7, <1>8
  <2> QED BY <1>6, <2>1, <2>2
<1> HIDE DEF Alive, At
<1> QED BY <1>5, <1>6, <1>9

-----------------------------------------------------------------------------
LEMMA LikeOrder ==
  ASSUME NEW A, IsFiniteSet(A), NEW it, Ranked(it, A), Keyed(it, A), NEW jt,
         \A j \in A : jt[j].key = it[j].key /\ jt[j].rank = it[j].rank
  PROVE  Ranked(jt, A) /\ Keyed(jt, A) /\ OrderOf(jt, A) = OrderOf(it, A)
<1>1. Ranked(jt, A)
  BY DEF Ranked
<1>2. Keyed(jt, A)
  BY DEF Keyed
<1> DEFINE s == OrderOf(it, A)
<1>3. s \in Seq(Key) /\ Len(s) = Cardinality(A) /\ \A i \in A : s[it[i].rank] = it[i].key
  BY OrderIs
<1>4. \A i \in A : s[jt[i].rank] = jt[i].key
  BY <1>3
<1> HIDE DEF s
<1>5. OrderOf(jt, A) = s
  BY <1>1, <1>2, <1>3, <1>4, OrderEq
<1> QED BY <1>1, <1>2, <1>5 DEF s

Unused(f, S) == \A j \in S : f[j].rank = 0
ItemsOn(f, D) == f \in [D -> ItemOver(D)]

\* Using an item of A again.
LEMMA TouchOrder ==
  ASSUME NEW A, IsFiniteSet(A), NEW D, A \subseteq D, NEW f, ItemsOn(f, D),
         Ranked(f, A), Keyed(f, A), Unused(f, D \ A), NEW i \in A,
         NEW g, g = Touch(f, i)
  PROVE  /\ Ranked(g, A) /\ Keyed(g, A) /\ Unused(g, D \ A)
         /\ OrderOf(g, A) = Ending(Removal(OrderOf(f, A), f[i].rank), f[i].key)
<1> DEFINE used == {j \in DOMAIN f : f[j].rank > 0} \cup {i}
           top == Cardinality(used)
           n == Cardinality(A)
<1>1. n \in Nat
  BY FS_CardinalityType
<1>2. \A j \in A : f[j].rank \in 1..n
  BY DEF Ranked
<1>3. used = A
  <2> HIDE DEF n
  <2>1. \A j \in D : f[j].rank > 0 <=> j \in A
    BY <1>1, <1>2 DEF Unused
  <2> QED BY <2>1 DEF ItemsOn
<1>4. \A j \in D : g[j] =
         IF j = i THEN [f[j] EXCEPT !.rank = top]
         ELSE IF f[i].rank > 0 /\ f[j].rank > f[i].rank
              THEN [f[j] EXCEPT !.rank = @ - 1]
         ELSE f[j]
  BY DEF Touch, ItemsOn
<1>5. top = n
  BY <1>3
<1> HIDE DEF top, used, n
<1>6. \A j \in D : f[j].rank \in Nat /\ f[j] \in ItemOver(D)
  BY DEF ItemOver, ItemsOn
<1>7. \A j \in D : g[j].key = f[j].key
  BY <1>4, <1>6 DEF ItemOver
<1>8. \A j \in D : g[j].rank = IF j = i THEN n
                               ELSE IF f[i].rank > 0 /\ f[j].rank > f[i].rank THEN f[j].rank - 1
                               ELSE f[j].rank
  BY <1>4, <1>5, <1>6 DEF ItemOver
<1>9. f[i].rank \in 1..n /\ f[i].rank > 0
  BY <1>1, <1>2
<1>10. Dropped(f, g, A, i)
  BY <1>7, <1>8, <1>9 DEF Dropped
<1>11. g[i].rank = Cardinality(A) /\ g[i].key = f[i].key
  BY <1>7, <1>8 DEF n
<1>12. /\ Ranked(g, A) /\ Keyed(g, A)
       /\ OrderOf(g, A) = Ending(Removal(OrderOf(f, A), f[i].rank), f[i].key)
  BY <1>10, <1>11, MoveOrder
<1>13. Unused(g, D \ A)
  BY <1>6, <1>8, <1>9 DEF Unused
<1> QED BY <1>12, <1>13

\* Using an item for the first time.
LEMMA TouchNew ==
  ASSUME NEW A, IsFiniteSet(A), NEW D, A \subseteq D, NEW f, ItemsOn(f, D),
         Ranked(f, A), Keyed(f, A), Unused(f, D \ A),
         NEW i \in D \ A, NEW k \in Key, f[i].key = k, k \notin KeysOf(f, A),
         NEW g, g = Touch(f, i)
  PROVE  /\ Ranked(g, A \cup {i}) /\ Keyed(g, A \cup {i})
         /\ Unused(g, D \ (A \cup {i}))
         /\ InOrder(g, A \cup {i}, Ending(OrderOf(f, A), k))
<1> DEFINE used == {j \in DOMAIN f : f[j].rank > 0} \cup {i}
           top == Cardinality(used)
           n == Cardinality(A)
<1>1. n \in Nat /\ Cardinality(A \cup {i}) = n + 1
  BY FS_CardinalityType, FS_AddElement
<1>2. \A j \in A : f[j].rank \in 1..n
  BY DEF Ranked
<1>3. used = A \cup {i}
  <2> HIDE DEF n
  <2>1. \A j \in D : f[j].rank > 0 <=> j \in A
    BY <1>1, <1>2 DEF Unused
  <2> QED BY <2>1 DEF ItemsOn
<1>4. \A j \in D : g[j] =
         IF j = i THEN [f[j] EXCEPT !.rank = top]
         ELSE IF f[i].rank > 0 /\ f[j].rank > f[i].rank
              THEN [f[j] EXCEPT !.rank = @ - 1]
         ELSE f[j]
  BY DEF Touch, ItemsOn
<1>5. top = n + 1
  BY <1>1, <1>3
<1> HIDE DEF top, used, n
<1>6. \A j \in D : f[j].rank \in Nat /\ f[j] \in ItemOver(D)
  BY DEF ItemOver, ItemsOn
<1>7. \A j \in D : g[j].key = f[j].key
  BY <1>4, <1>6 DEF ItemOver
<1>8. f[i].rank = 0
  BY DEF Unused
<1>9. \A j \in D : g[j].rank = IF j = i THEN n + 1 ELSE f[j].rank
  <2> SUFFICES ASSUME NEW j \in D
               PROVE  g[j].rank = IF j = i THEN n + 1 ELSE f[j].rank
    OBVIOUS
  <2>1. CASE j = i
    BY <1>4, <1>5, <1>6, <2>1 DEF ItemOver
  <2>2. CASE j # i
    <3>1. ~(f[i].rank > 0)
      BY <1>8
    <3> QED BY <1>4, <2>2, <3>1
  <2> QED BY <2>1, <2>2
<1>10. Joined(f, g, A, i, k)
  BY <1>7, <1>9 DEF Joined, KeysOf, n
<1>11. /\ Ranked(g, A \cup {i}) /\ Keyed(g, A \cup {i})
       /\ OrderOf(g, A \cup {i}) = Ending(OrderOf(f, A), k)
  BY <1>10, JoinOrder
<1>12. Unused(g, D \ (A \cup {i}))
  BY <1>9 DEF Unused
<1> QED BY <1>11, <1>12 DEF InOrder


-----------------------------------------------------------------------------
\* The items A alive among the items D have keys of their own and ranks without a gap.
Aged(it, D, A) ==
  /\ Ranked(it, A) /\ Keyed(it, A)
  /\ Unused(it, D \ A)
  /\ \A i \in A : it[i].value \in Value

RankInv == Careful /\ pc \in {"idle", "fit"} => Aged(item, Born, Alive)

\* An item used again: its value and length may be others.
LEMMA TouchAged ==
  ASSUME NEW D, IsFiniteSet(D), NEW A \in SUBSET D, NEW it, ItemsOn(it, D),
         Aged(it, D, A), NEW i \in A, NEW f, ItemsOn(f, D),
         f[i].key = it[i].key /\ f[i].rank = it[i].rank /\ f[i].value \in Value,
         \A j \in D \ {i} : f[j] = it[j], NEW g, g = Touch(f, i)
  PROVE  /\ Aged(g, D, A)
         /\ OrderOf(g, A) = Ending(Removal(OrderOf(it, A), it[i].rank), it[i].key)
         /\ KeysOf(g, A) = KeysOf(it, A)
         /\ \A j \in D : g[j].key = it[j].key /\ EntryAt(g, j) = EntryAt(f, j)
<1>1. IsFiniteSet(A)
  BY FS_Subset
<1>2. /\ Ranked(it, A) /\ Keyed(it, A) /\ Unused(it, D \ A)
      /\ \A j \in A : it[j].value \in Value
  BY DEF Aged
<1>3. \A j \in D : f[j].key = it[j].key /\ f[j].rank = it[j].rank
  OBVIOUS
<1>4. Ranked(f, A) /\ Keyed(f, A) /\ OrderOf(f, A) = OrderOf(it, A)
  <2>1. \A j \in A : f[j].key = it[j].key /\ f[j].rank = it[j].rank
    BY <1>3
  <2> QED BY <1>1, <1>2, <2>1, LikeOrder
<1>5. Unused(f, D \ A)
  BY <1>2, <1>3 DEF Unused
<1>6. /\ Ranked(g, A) /\ Keyed(g, A) /\ Unused(g, D \ A)
      /\ OrderOf(g, A) = Ending(Removal(OrderOf(f, A), f[i].rank), f[i].key)
  BY <1>1, <1>4, <1>5, TouchOrder
<1>7. \A j \in D : Alike(g[j], f[j])
  BY TouchKeeps DEF ItemsOn
<1>8. \A j \in D : /\ g[j].key = it[j].key /\ g[j].value = f[j].value
                   /\ EntryAt(g, j) = EntryAt(f, j)
  BY <1>3, <1>7 DEF Alike, EntryAt
<1>9. \A j \in A : g[j].value \in Value
  BY <1>2, <1>8
<1>10. KeysOf(g, A) = KeysOf(it, A)
  BY <1>8 DEF KeysOf
<1>11. OrderOf(g, A) = Ending(Removal(OrderOf(it, A), it[i].rank), it[i].key)
  BY <1>3, <1>4, <1>6
<1> QED BY <1>6, <1>8, <1>9, <1>10, <1>11 DEF Aged

LEMMA UpdateView ==
  ASSUME TypeInv, ListInv, RankInv, Careful, AliveFacts',
         NEW k \in Key, NEW v \in Value, NEW n \in Lengths, SetUpdate(k, v, n)
  PROVE  /\ StopAt(k) \in Alive /\ item[StopAt(k)].key = k /\ Alive' = Alive
         /\ Aged(item', Born', Alive')
         /\ OrderOf(item', Alive') = Ending(Removal(OrderOf(item, Alive), item[StopAt(k)].rank), k)
         /\ KeysOf(item', Alive') = KeysOf(item, Alive)
         /\ EntryAt(item', StopAt(k)) \in [value : Value, len : Lengths]
         /\ \A j \in Alive \ {StopAt(k)} : EntryAt(item', j) = EntryAt(item, j)
         /\ \A j \in Alive : item'[j].key = item[j].key
<1> DEFINE i == StopAt(k)
           f == [item EXCEPT ![i].value = v, ![i].len = n]
<1>1. /\ pc = "idle" /\ Stops(k) # {} /\ i # Null /\ item' = Touch(f, i)
      /\ pc' = "fit" /\ free_items' = free_items /\ client' = client
  BY DEF SetUpdate
<1>2. i \in Alive /\ item[i].key = k
  BY <1>1, SearchFinds
<1>3. item \in [Born -> ItemOver(Born)] /\ n \in 0..Word-1
  BY LruSizes, CarefulType
<1>4. IsFiniteSet(Born) /\ Alive \in SUBSET Born /\ Alive = Born \ {free_items}
  BY <1>1, BornFinite, AliveIs DEF AliveFacts
<1>5. Aged(item, Born, Alive)
  BY <1>1 DEF RankInv
<1>6. Born' = Born
  <2>1. item' \in [Born -> ItemOver(Born)]
    BY Updated, CarefulType
  <2> QED BY <2>1 DEF Born
<1>7. Alive' = Alive
  <2>1. Alive' = Born' \ {free_items'}
    BY <1>1 DEF AliveFacts, Careful
  <2> QED BY <1>1, <1>4, <1>6, <2>1
<1> HIDE DEF i
<1>8. ItemsOn(f, Born) /\ ItemsOn(item, Born)
  BY <1>3 DEF ItemOver, ItemsOn
<1>9. /\ f[i].key = item[i].key /\ f[i].rank = item[i].rank /\ f[i].value = v /\ f[i].len = n
      /\ \A j \in Born \ {i} : f[j] = item[j]
  <2>1. i \in Born
    BY <1>2, <1>4
  <2> QED BY <1>3, <2>1 DEF ItemOver
<1> HIDE DEF f
<1>10. f[i].key = item[i].key /\ f[i].rank = item[i].rank /\ f[i].value \in Value
  BY <1>9
<1> DEFINE A == Alive
<1>11. i \in A /\ A \in SUBSET Born /\ Aged(item, Born, A)
  BY <1>2, <1>4, <1>5
<1> HIDE DEF A
<1>12. /\ Aged(item', Born, A)
       /\ OrderOf(item', A) = Ending(Removal(OrderOf(item, A), item[i].rank), item[i].key)
       /\ KeysOf(item', A) = KeysOf(item, A)
       /\ \A j \in Born : item'[j].key = item[j].key /\ EntryAt(item', j) = EntryAt(f, j)
  BY <1>1, <1>4, <1>8, <1>9, <1>10, <1>11, TouchAged
<1>13. EntryAt(item', i) \in [value : Value, len : Lengths]
  <2>1. EntryAt(item', i) = EntryAt(f, i)
    BY <1>11, <1>12
  <2> QED BY <1>9, <2>1 DEF EntryAt
<1>14. \A j \in A \ {i} : EntryAt(item', j) = EntryAt(item, j)
  BY <1>9, <1>11, <1>12 DEF EntryAt
<1>15. Alive' = A /\ A = Alive
  BY <1>7 DEF A
<1> QED BY <1>2, <1>6, <1>11, <1>12, <1>13, <1>14, <1>15 DEF i


\* Item i is new in g, before its first use.
FilledIn(g, i, k, v, n) ==
  /\ g[i].key = k /\ g[i].value = v /\ g[i].len = n /\ g[i].rank = 0
  /\ \A j \in Born \ {i} : /\ g[j].key = item[j].key /\ g[j].value = item[j].value
                           /\ g[j].len = item[j].len /\ g[j].rank = item[j].rank

LEMMA LinkedItem ==
  ASSUME TypeInv, Careful, NEW k \in Key, NEW v \in Value, NEW n \in Lengths,
         NEW i \in Nodes, NEW p \in Born \cup {Null},
         NEW g, g = Link(Filled(i, k, v, n, Null), p, i)
  PROVE  ItemsOn(g, Born \cup {i}) /\ FilledIn(g, i, k, v, n)
<1> DEFINE B == Born \cup {i}
           f == Filled(i, k, v, n, Null)
<1>1. item \in [Born -> ItemOver(Born)] /\ n \in 0..Word-1 /\ Null \notin B
  BY LruSizes, BornFinite, CarefulType
<1>2. i \in B /\ p \in B \cup {Null}
  OBVIOUS
<1>3. f = [j \in B |->
     IF j = i THEN [key |-> k, value |-> v, len |-> n, rank |-> 0,
                    next |-> IF i \in Born THEN item[i].next ELSE Null]
     ELSE item[j]]
  BY DEF Filled, NextOf
<1> HIDE DEF f
<1>4. \A j \in Born : item[j] \in ItemOver(B)
  BY <1>1 DEF ItemOver
<1>5. (IF i \in Born THEN item[i].next ELSE Null) \in B \cup {Null}
  BY <1>4 DEF ItemOver
<1>6. f \in [B -> ItemOver(B)]
  <2> HIDE DEF B
  <2> SUFFICES ASSUME NEW j \in B PROVE f[j] \in ItemOver(B)
    BY <1>3
  <2>1. CASE j = i
    BY <1>1, <1>3, <1>5, <2>1 DEF ItemOver
  <2>2. CASE j # i
    BY <1>3, <1>4, <2>2 DEF B
  <2> QED BY <2>1, <2>2
<1>7. g = IF p = Null THEN f ELSE [f EXCEPT ![p].next = i]
  BY DEF Link, f
<1>8. ItemsOn(g, B)
  <2> HIDE DEF B
  <2> QED BY <1>2, <1>6, <1>7 DEF ItemsOn, ItemOver
<1>9. \A j \in B : /\ g[j].key = f[j].key /\ g[j].value = f[j].value
                   /\ g[j].len = f[j].len /\ g[j].rank = f[j].rank
  <2> HIDE DEF B
  <2> QED BY <1>2, <1>6, <1>7 DEF ItemOver
<1>10. \A j \in Born \ {i} : f[j] = item[j]
  BY <1>3
<1>11. f[i].key = k /\ f[i].value = v /\ f[i].len = n /\ f[i].rank = 0
  BY <1>2, <1>3
<1> QED BY <1>2, <1>8, <1>9, <1>10, <1>11 DEF FilledIn

LEMMA InsertView ==
  ASSUME TypeInv, ListInv, RankInv, Careful, AliveFacts',
         NEW k \in Key, NEW v \in Value, NEW n \in Lengths, SetInsert(k, v, n)
  PROVE  /\ Popped \notin Alive /\ Alive' = Alive \cup {Popped}
         /\ k \notin KeysOf(item, Alive)
         /\ Aged(item', Born', Alive')
         /\ OrderOf(item', Alive') = Ending(OrderOf(item, Alive), k)
         /\ item'[Popped].key = k /\ EntryAt(item', Popped) \in [value : Value, len : Lengths]
         /\ \A j \in Alive : item'[j].key = item[j].key /\ EntryAt(item', j) = EntryAt(item, j)
<1> DEFINE i == Popped
           p == PrevOf(k)
           g == Link(Filled(i, k, v, n, Null), p, i)
           D == Born \cup {i}
           A == Alive
<1>1. /\ pc = "idle" /\ Stops(k) # {} /\ StopAt(k) = Null /\ item' = Touch(g, i)
      /\ pc' = "fit" /\ client' = client
  <2>1. \A left \in fresh : left = Null
    BY CarefulType DEF Zeroed
  <2> QED BY <2>1 DEF SetInsert
<1>2. p \in Born \cup {Null}
  BY <1>1, StopPlace
<1>3. /\ i \in Nodes /\ (free_items = Null => i \notin Born)
      /\ (free_items # Null => i = free_items)
      /\ Born' = D
  <2>1. /\ i \in Nodes /\ (free_items = Null => i \notin Born)
        /\ (free_items # Null => i = free_items)
        /\ item' \in [Born \cup {i} -> ItemOver(Born \cup {i})]
    BY CarefulInserted DEF CarefullyInserted
  <2> QED BY <2>1 DEF Born
<1>4. IsFiniteSet(Born) /\ Null \notin Born /\ Null \notin Nodes
  BY BornFinite
<1>5. IsFiniteSet(A) /\ A = Born \ {free_items} /\ free_items \in Born \cup {Null}
  BY <1>1, AliveIs, CarefulType DEF AliveFacts
<1>6. i \notin A /\ A \cup {i} = D /\ Null \notin D
  <2> HIDE DEF A, i
  <2>1. CASE free_items = Null
    BY <1>3, <1>4, <1>5, <2>1
  <2>2. CASE free_items # Null
    BY <1>3, <1>4, <1>5, <2>2
  <2> QED BY <2>1, <2>2
<1>7. Alive' = A \cup {i}
  <2>1. free_items' = Null
    <3>1. PICK c : Laid(c, items, item, free_items)
      BY <1>1 DEF ListInv
    <3> QED BY <3>1, InsertLaid
  <2>2. Alive' = Born' \ {free_items'}
    BY <1>1 DEF AliveFacts, Careful
  <2> HIDE DEF A, i
  <2> QED BY <1>3, <1>6, <2>1, <2>2
<1>8. \A j \in A : item[j].key # k
  BY <1>1, SearchFinds
<1>9. Aged(item, Born, A)
  BY <1>1 DEF RankInv
<1>10. /\ Ranked(item, A) /\ Keyed(item, A) /\ Unused(item, Born \ A)
       /\ \A j \in A : item[j].value \in Value
  BY <1>9 DEF Aged
<1> HIDE DEF A, i, p
<1>0. g = Link(Filled(i, k, v, n, Null), p, i)
  OBVIOUS
<1> HIDE DEF g
<1>11. /\ ItemsOn(g, D)
       /\ g[i].key = k /\ g[i].value = v /\ g[i].len = n /\ g[i].rank = 0
       /\ \A j \in Born \ {i} : /\ g[j].key = item[j].key /\ g[j].value = item[j].value
                                /\ g[j].len = item[j].len /\ g[j].rank = item[j].rank
  <2>1. ItemsOn(g, D) /\ FilledIn(g, i, k, v, n)
    BY <1>0, <1>2, <1>3, LinkedItem
  <2> QED BY <2>1 DEF FilledIn
<1>12. \A j \in A : /\ g[j].key = item[j].key /\ g[j].value = item[j].value
                    /\ g[j].len = item[j].len /\ g[j].rank = item[j].rank
  BY <1>5, <1>6, <1>11
<1>13. Unused(g, D \ A)
  BY <1>6, <1>11 DEF Unused
<1> HIDE DEF D
<1>14. Ranked(g, A) /\ Keyed(g, A) /\ OrderOf(g, A) = OrderOf(item, A)
  BY <1>5, <1>10, <1>12, LikeOrder
<1>15. g[i].key = k /\ k \notin KeysOf(g, A)
  BY <1>8, <1>11, <1>12 DEF KeysOf
<1>16. A \subseteq D /\ i \in D \ A
  BY <1>6
<1> DEFINE it == item'
<1>17. it = Touch(g, i)
  BY <1>1
<1> HIDE DEF it
<1>18. /\ Ranked(it, A \cup {i}) /\ Keyed(it, A \cup {i}) /\ Unused(it, D \ (A \cup {i}))
       /\ InOrder(it, A \cup {i}, Ending(OrderOf(g, A), k))
  <2>1. /\ IsFiniteSet(A) /\ A \subseteq D /\ ItemsOn(g, D) /\ Ranked(g, A) /\ Keyed(g, A)
        /\ Unused(g, D \ A) /\ i \in D \ A /\ k \in Key /\ g[i].key = k /\ k \notin KeysOf(g, A)
    BY <1>5, <1>11, <1>13, <1>14, <1>15, <1>16
  <2> QED BY <1>17, <2>1, TouchNew
<1>19. \A j \in D : Alike(it[j], g[j])
  <2>1. IsFiniteSet(D)
    BY <1>4, FS_AddElement DEF D
  <2> QED BY <1>11, <1>16, <1>17, <2>1, TouchKeeps DEF ItemsOn
<1>20. \A j \in D : it[j].key = g[j].key /\ it[j].value = g[j].value /\ it[j].len = g[j].len
  BY <1>19 DEF Alike
<1>21. \A j \in A : it[j].key = item[j].key /\ EntryAt(it, j) = EntryAt(item, j)
  BY <1>12, <1>16, <1>20 DEF EntryAt
<1>22. it[i].key = k /\ EntryAt(it, i) \in [value : Value, len : Lengths] /\ it[i].value \in Value
  BY <1>11, <1>16, <1>20 DEF EntryAt
<1>23. \A j \in A : it[j].value \in Value
  BY <1>10, <1>12, <1>16, <1>20
<1>24. Aged(it, D, A \cup {i})
  BY <1>18, <1>22, <1>23 DEF Aged
<1>25. OrderOf(it, A \cup {i}) = Ending(OrderOf(item, A), k)
  BY <1>14, <1>18 DEF InOrder
<1>26. k \notin KeysOf(item, A)
  BY <1>8 DEF KeysOf
<1> USE DEF A, i, it
<1>27. Aged(item', Born', Alive')
  BY <1>3, <1>7, <1>24
<1>28. OrderOf(item', Alive') = Ending(OrderOf(item, Alive), k)
  BY <1>7, <1>25
<1> QED BY <1>6, <1>7, <1>21, <1>22, <1>26, <1>27, <1>28


LEMMA RemoveView ==
  ASSUME TypeInv, ListInv, RankInv, Careful, pc \in {"idle", "fit"}, free_items = Null,
         AliveFacts', pc' = pc, client' = client,
         NEW h \in Chains, NEW p \in Born \cup {Null}, NEW i \in Alive, ItemRemove(h, p, i)
  PROVE  /\ Alive' = Alive \ {i}
         /\ Aged(item', Born', Alive')
         /\ OrderOf(item', Alive') = Removal(OrderOf(item, Alive), item[i].rank)
         /\ KeysOf(item', Alive') = KeysOf(item, Alive) \ {item[i].key}
         /\ \A j \in Alive \ {i} : /\ item'[j].key = item[j].key
                                   /\ EntryAt(item', j) = EntryAt(item, j)
<1> DEFINE A == Alive
           it == item'
           f == Link(item, p, item[i].next)
<1>1. /\ IsFiniteSet(A) /\ A = Born \ {free_items} /\ Null \notin Born
  BY AliveIs, BornFinite DEF AliveFacts
<1>2. A = Born /\ i \in Born /\ i # Null
  <2> HIDE DEF A
  <2>1. i \in A
    BY DEF A
  <2> QED BY <1>1, <2>1
<1>3. Born' = Born
  <2>1. item' \in [Born -> ItemOver(Born)]
    BY <1>2, Removed, CarefulType
  <2> QED BY <2>1 DEF Born
<1>4. Alive' = A \ {i}
  <2>1. free_items' = i
    BY DEF ItemRemove
  <2>2. Alive' = Born' \ {free_items'}
    BY DEF AliveFacts, Careful
  <2> HIDE DEF A
  <2> QED BY <1>2, <1>3, <2>1, <2>2
<1>5. Aged(item, Born, A)
  BY DEF RankInv
<1>6. Ranked(item, A) /\ Keyed(item, A) /\ \A j \in A : item[j].value \in Value
  BY <1>5 DEF Aged
<1>7. i \in A
  OBVIOUS
<1> HIDE DEF A
<1>8. item \in [Born -> ItemOver(Born)]
  BY CarefulType
<1>9. it = [j \in Born |->
                    IF j = i THEN [NoItem EXCEPT !.next = free_items]
                    ELSE IF item[i].rank > 0 /\ item[j].rank > item[i].rank
                         THEN [f[j] EXCEPT !.rank = @ - 1]
                    ELSE f[j]]
  BY DEF ItemRemove
<1>10. /\ f \in [Born -> ItemOver(Born)]
       /\ \A j \in Born : /\ f[j].key = item[j].key /\ f[j].len = item[j].len
                          /\ f[j].rank = item[j].rank /\ f[j].value = item[j].value
  BY <1>1, <1>2, <1>8 DEF Link, ItemOver
<1> HIDE DEF f, it
<1>11. it[i].rank = 0
  BY <1>2, <1>9 DEF NoItem
<1>12. item[i].rank > 0
  <2>1. Cardinality(A) \in Nat
    BY <1>1, FS_CardinalityType
  <2>2. item[i].rank \in 1..Cardinality(A)
    BY <1>6, <1>7 DEF Ranked
  <2> QED BY <2>1, <2>2
<1>13. ASSUME NEW j \in Born, j # i
       PROVE  /\ it[j].key = item[j].key /\ it[j].value = item[j].value /\ it[j].len = item[j].len
              /\ it[j].rank = IF item[j].rank > item[i].rank THEN item[j].rank - 1 ELSE item[j].rank
  <2>1. f[j] \in ItemOver(Born)
    BY <1>10
  <2>2. CASE item[j].rank > item[i].rank
    <3>1. it[j] = [f[j] EXCEPT !.rank = @ - 1]
      BY <1>9, <1>12, <1>13, <2>2
    <3> QED BY <1>10, <2>1, <2>2, <3>1 DEF ItemOver
  <2>3. CASE ~(item[j].rank > item[i].rank)
    BY <1>9, <1>10, <1>13, <2>3
  <2> QED BY <2>2, <2>3
<1>14. Dropped(item, it, A, i)
  BY <1>2, <1>13 DEF Dropped
<1>15. /\ Ranked(it, A \ {i}) /\ Keyed(it, A \ {i})
       /\ OrderOf(it, A \ {i}) = Removal(OrderOf(item, A), item[i].rank)
  BY <1>1, <1>6, <1>7, <1>14, DropOrder
<1>16. Unused(it, Born \ (A \ {i}))
  BY <1>2, <1>11 DEF Unused
<1>17. Aged(it, Born, A \ {i})
  BY <1>2, <1>6, <1>13, <1>15, <1>16 DEF Aged
<1>18. KeysOf(it, A \ {i}) = KeysOf(item, A) \ {item[i].key}
  <2>1. \A j \in A \ {i} : it[j].key = item[j].key /\ item[j].key # item[i].key
    BY <1>2, <1>6, <1>7, <1>13 DEF Keyed
  <2> QED BY <2>1 DEF KeysOf
<1>19. \A j \in A \ {i} : it[j].key = item[j].key /\ EntryAt(it, j) = EntryAt(item, j)
  BY <1>2, <1>13 DEF EntryAt
<1> USE DEF A, it
<1>20. Aged(item', Born', Alive')
  BY <1>3, <1>4, <1>17
<1>21. /\ OrderOf(item', Alive') = Removal(OrderOf(item, Alive), item[i].rank)
       /\ KeysOf(item', Alive') = KeysOf(item, Alive) \ {item[i].key}
  BY <1>4, <1>15, <1>18
<1> QED BY <1>4, <1>19, <1>20, <1>21

LEMMA GetView ==
  ASSUME TypeInv, ListInv, RankInv, Careful, AliveFacts', NEW k \in Key, Get(k), StopAt(k) # Null
  PROVE  /\ StopAt(k) \in Alive /\ item[StopAt(k)].key = k /\ Alive' = Alive
         /\ Aged(item', Born', Alive')
         /\ OrderOf(item', Alive') = Ending(Removal(OrderOf(item, Alive), item[StopAt(k)].rank), k)
         /\ KeysOf(item', Alive') = KeysOf(item, Alive)
         /\ \A j \in Alive : /\ item'[j].key = item[j].key
                             /\ EntryAt(item', j) = EntryAt(item, j)
<1> DEFINE i == StopAt(k)
           A == Alive
           it == item'
<1>1. /\ pc = "idle" /\ Stops(k) # {} /\ it = Touch(item, i)
      /\ pc' = "idle" /\ free_items' = free_items /\ client' = client
  BY DEF Get
<1>2. i \in A /\ item[i].key = k
  BY <1>1, SearchFinds
<1>3. IsFiniteSet(Born) /\ A \in SUBSET Born /\ A = Born \ {free_items}
  BY <1>1, BornFinite, AliveIs DEF AliveFacts
<1>4. Aged(item, Born, A)
  BY <1>1 DEF RankInv
<1>5. ItemsOn(item, Born) /\ item[i].value \in Value
  BY <1>2, <1>4, CarefulType DEF ItemsOn, Aged
<1> HIDE DEF i, A, it
<1>6. Born' = Born
  <2>1. DOMAIN it = Born
    BY <1>1, <1>5 DEF Touch, ItemsOn
  <2> QED BY <2>1 DEF Born, it
<1>7. Alive' = A
  <2>1. Alive' = Born' \ {free_items'}
    BY <1>1 DEF AliveFacts, Careful
  <2> QED BY <1>1, <1>3, <1>6, <2>1
<1>8. /\ Aged(it, Born, A)
      /\ OrderOf(it, A) = Ending(Removal(OrderOf(item, A), item[i].rank), item[i].key)
      /\ KeysOf(it, A) = KeysOf(item, A)
      /\ \A j \in Born : it[j].key = item[j].key /\ EntryAt(it, j) = EntryAt(item, j)
  <2> DEFINE f == item
             D == Born
  <2>1. /\ IsFiniteSet(D) /\ A \in SUBSET D /\ ItemsOn(item, D) /\ Aged(item, D, A) /\ i \in A
        /\ ItemsOn(f, D) /\ it = Touch(f, i)
        /\ f[i].key = item[i].key /\ f[i].rank = item[i].rank /\ f[i].value \in Value
        /\ \A j \in D \ {i} : f[j] = item[j]
    BY <1>1, <1>2, <1>3, <1>4, <1>5
  <2>2. \A j : EntryAt(f, j) = EntryAt(item, j)
    OBVIOUS
  <2> HIDE DEF f, D
  <2>3. /\ Aged(it, D, A)
        /\ OrderOf(it, A) = Ending(Removal(OrderOf(item, A), item[i].rank), item[i].key)
        /\ KeysOf(it, A) = KeysOf(item, A)
        /\ \A j \in D : it[j].key = item[j].key /\ EntryAt(it, j) = EntryAt(f, j)
    BY <2>1, TouchAged
  <2> QED BY <2>2, <2>3 DEF D
<1>9. \A j \in A : it[j].key = item[j].key /\ EntryAt(it, j) = EntryAt(item, j)
  BY <1>3, <1>8
<1> USE DEF A, it
<1>10. Aged(item', Born', Alive')
  BY <1>6, <1>7, <1>8
<1>11. /\ OrderOf(item', Alive') = Ending(Removal(OrderOf(item, Alive), item[i].rank), k)
       /\ KeysOf(item', Alive') = KeysOf(item, Alive)
  BY <1>2, <1>7, <1>8
<1> QED BY <1>2, <1>7, <1>9, <1>10, <1>11 DEF i

\* The same items are alive, as they were.
LEMMA StillView ==
  ASSUME TypeInv, ListInv, Careful, pc \in {"idle", "fit"}, AliveFacts', pc' \in {"idle", "fit"},
         UNCHANGED <<client, item, free_items>>
  PROVE  Alive' = Alive /\ Born' = Born
<1>1. Alive = Born \ {free_items}
  BY AliveIs DEF AliveFacts
<1>2. Alive' = Born' \ {free_items'}
  BY DEF AliveFacts, Careful
<1>3. Born' = Born
  BY DEF Born
<1> HIDE DEF Alive
<1> QED BY <1>1, <1>2, <1>3

\* What the eviction removes.
LEMMA EvictView ==
  ASSUME TypeInv, ListInv, RankInv, Careful, AliveFacts', Evict
  PROVE  /\ pc = "fit" /\ free_memory < required /\ free_items = Null
         /\ \E i \in Alive :
              /\ item[i].rank = 1 /\ Alive' = Alive \ {i}
              /\ Aged(item', Born', Alive')
              /\ OrderOf(item', Alive') = Removal(OrderOf(item, Alive), item[i].rank)
              /\ KeysOf(item', Alive') = KeysOf(item, Alive) \ {item[i].key}
              /\ \A j \in Alive \ {i} : /\ item'[j].key = item[j].key
                                        /\ EntryAt(item', j) = EntryAt(item, j)
<1>1. pc = "fit" /\ free_memory < required /\ client' = client
  BY DEF Evict
<1>2. free_items = Null
  <2>1. free_memory \in Nat /\ required \in Nat
    BY LruSizes DEF TypeInv
  <2> QED BY <1>1, <2>1 DEF ListInv
<1>3. \A h \in Chains : ~Endless(items[h])
  BY <1>1, ListImplied
<1>4. PICK pl \in Oldest : ItemRemove(pl[1], Before(pl), At(pl))
  BY <1>3 DEF Evict, Chains
<1>5. pc' = pc
  BY <1>3 DEF Evict, Chains
<1>6. Ranked(item, Alive)
  BY <1>1 DEF RankInv, Aged
<1>7. At(pl) \in Alive /\ item[At(pl)].rank = 1
  BY <1>1, <1>6, OldestIs
<1>8. pl[1] \in Chains /\ Before(pl) \in Born \cup {Null}
  BY <1>3, OldestPlace DEF Chains
<1> HIDE DEF At, Before, Alive
<1>9. /\ Alive' = Alive \ {At(pl)}
      /\ Aged(item', Born', Alive')
      /\ OrderOf(item', Alive') = Removal(OrderOf(item, Alive), item[At(pl)].rank)
      /\ KeysOf(item', Alive') = KeysOf(item, Alive) \ {item[At(pl)].key}
      /\ \A j \in Alive \ {At(pl)} : /\ item'[j].key = item[j].key
                                     /\ EntryAt(item', j) = EntryAt(item, j)
  BY <1>1, <1>2, <1>4, <1>5, <1>7, <1>8, RemoveView
<1> QED BY <1>1, <1>2, <1>7, <1>9


LEMMA RankInit == Init => RankInv
<1> SUFFICES ASSUME Init, Careful PROVE Aged(item, Born, Alive)
  BY DEF RankInv
<1>1. TypeInv /\ ListInv
  BY TypeInit, ListInit
<1>2. Born = {}
  BY DEF Init, Born
<1>3. Alive = {}
  <2>1. \A h \in Chains : OnWalk(items[h]) = {}
    <3> SUFFICES ASSUME NEW h \in Chains PROVE OnWalk(items[h]) = {}
      OBVIOUS
    <3>1. items[h] \in Born \cup {Null}
      BY <1>1, CarefulType
    <3>2. Walk(items[h]) \in [0..MaxItems -> Born \cup {Null}]
      BY <1>1, <3>1, WalkSteps
    <3> QED BY <1>2, <3>2 DEF OnWalk
  <2> QED BY <2>1 DEF Alive, Chains
<1> HIDE DEF Alive
<1>4. Cardinality({}) = 0
  BY FS_EmptySet
<1> DEFINE A == Alive
           D == Born
<1>5. A = {} /\ D = {} /\ Cardinality(A) = 0
  BY <1>2, <1>3, <1>4
<1> HIDE DEF A, D
<1>6. Ranked(item, A) /\ Keyed(item, A)
  BY <1>5 DEF Ranked, Keyed
<1>7. Aged(item, D, A)
  BY <1>5, <1>6 DEF Aged, Unused
<1> QED BY <1>7 DEF A, D

LEMMA RankKept ==
  ASSUME TypeInv, ListInv, RankInv, AliveFacts', [Next]_vars
  PROVE  RankInv'
<1>1. client' = client
  BY DEF Next, Step, SetUpdate, SetInsert, Search, Get, Remove, Evict, Fit, Free, vars
<1>2. CASE ~Careful
  BY <1>1, <1>2 DEF Careful, RankInv
<1> SUFFICES ASSUME Careful, pc' \in {"idle", "fit"} PROVE Aged(item', Born', Alive')
  BY <1>2 DEF RankInv
<1>3. ASSUME pc \in {"idle", "fit"}, UNCHANGED <<item, free_items>>
      PROVE  Aged(item', Born', Alive')
  <2>1. Alive' = Alive /\ Born' = Born
    BY <1>1, <1>3, StillView
  <2>2. Aged(item, Born, Alive)
    BY <1>3 DEF RankInv
  <2> HIDE DEF Alive, Born
  <2> QED BY <1>3, <2>1, <2>2
<1>4. ASSUME NEW k \in Key, NEW v \in Value, NEW n \in Lengths, SetUpdate(k, v, n)
      PROVE  Aged(item', Born', Alive')
  BY <1>4, UpdateView
<1>5. ASSUME NEW k \in Key, NEW v \in Value, NEW n \in Lengths, SetInsert(k, v, n)
      PROVE  Aged(item', Born', Alive')
  BY <1>5, InsertView
<1>6. ASSUME NEW k \in Key, Search(k) PROVE FALSE
  BY <1>6 DEF Search
<1>7. ASSUME NEW k \in Key, Get(k) PROVE Aged(item', Born', Alive')
  <2>1. CASE StopAt(k) = Null
    BY <1>3, <1>7, <2>1 DEF Get
  <2>2. CASE StopAt(k) # Null
    BY <1>7, <2>2, GetView
  <2> QED BY <2>1, <2>2
<1>8. ASSUME NEW k \in Key, Remove(k) PROVE Aged(item', Born', Alive')
  <2>1. /\ pc = "idle" /\ pc' = pc /\ Stops(k) # {} /\ free_items = Null
    BY <1>8 DEF Remove, MayRemove
  <2>2. CASE StopAt(k) = Null
    BY <1>3, <1>8, <2>1, <2>2 DEF Remove
  <2>3. CASE StopAt(k) # Null
    <3>1. ItemRemove(Hash[k], PrevOf(k), StopAt(k))
      BY <1>8, <2>3 DEF Remove
    <3>2. StopAt(k) \in Alive
      BY <2>1, <2>3, SearchFinds
    <3>3. Hash[k] \in Chains /\ PrevOf(k) \in Born \cup {Null}
      BY <2>1, StopPlace
    <3> HIDE DEF StopAt, PrevOf, Alive
    <3> QED BY <1>1, <2>1, <3>1, <3>2, <3>3, RemoveView
  <2> QED BY <2>2, <2>3
<1>9. CASE Evict
  BY <1>9, EvictView
<1>10. CASE Fit
  BY <1>3, <1>10 DEF Fit
<1>11. CASE Free
  BY <1>11 DEF Free
<1>12. CASE UNCHANGED vars
  BY <1>3, <1>12 DEF vars
<1> QED BY <1>4, <1>5, <1>6, <1>7, <1>8, <1>9, <1>10, <1>11, <1>12 DEF Next, Step

-----------------------------------------------------------------------------
\* Lengths summed by key, as the view of the cache does.
LEMMA SumImage ==
  ASSUME NEW A, IsFiniteSet(A), NEW it, Keyed(it, A), NEW e,
         \A i \in A : it[i].len \in Nat /\ e[it[i].key].len = it[i].len
  PROVE  LenSum(e, KeysOf(it, A)) = LenSum(it, A)
<1> DEFINE Fine(s) == IsFiniteSet(KeysOf(it, s)) /\ LenSum(e, KeysOf(it, s)) = LenSum(it, s)
           Bad == {n \in Nat : \E s \in SUBSET A : Cardinality(s) = n /\ ~Fine(s)}
<1>1. ASSUME Bad # {} PROVE FALSE
  <2>1. Bad \subseteq Nat
    OBVIOUS
  <2> HIDE DEF Bad
  <2>2. PICK n \in Bad : \A m \in Bad : n <= m
    BY <1>1, <2>1, LeastOf
  <2> USE DEF Bad
  <2>3. PICK s \in SUBSET A : Cardinality(s) = n /\ ~Fine(s)
    BY <2>2
  <2> HIDE DEF Fine
  <2>4. s # {}
    <3> SUFFICES ASSUME s = {} PROVE FALSE
      OBVIOUS
    <3>1. KeysOf(it, s) = {}
      BY DEF KeysOf
    <3>2. LenSum(e, KeysOf(it, s)) = 0 /\ LenSum(it, s) = 0
      BY <3>1, SumEmpty
    <3>3. Fine(s)
      BY <3>1, <3>2, FS_EmptySet DEF Fine
    <3> QED BY <2>3, <3>3
  <2> DEFINE y == Some(s)
             r == s \ {y}
             K == KeysOf(it, r)
  <2>5. /\ y \in s /\ r \in SUBSET A /\ IsFiniteSet(r) /\ Cardinality(s) \in Nat \ {0}
        /\ Cardinality(r) = Cardinality(s) - 1
    BY <2>4, LessSome
  <2>6. n-1 \in Nat /\ ~(n <= n-1)
    BY <2>2, <2>3, <2>5
  <2>7. Fine(r)
    BY <2>2, <2>3, <2>5, <2>6
  <2>8. s = r \cup {y} /\ y \notin r /\ y \in A
    BY <2>5
  <2> HIDE DEF y, r, Bad
  <2>9. /\ KeysOf(it, s) = K \cup {it[y].key} /\ it[y].key \notin K
    <3>1. \A i \in r : i \in A /\ it[i].key # it[y].key
      BY <2>5, <2>8 DEF Keyed
    <3> QED BY <2>8, <3>1 DEF KeysOf
  <2>10. \A k \in K \cup {it[y].key} : e[k].len \in Nat
    BY <2>5, <2>8 DEF KeysOf
  <2>11. IsFiniteSet(K) /\ LenSum(e, K) = LenSum(it, r)
    BY <2>7 DEF Fine
  <2> DEFINE ky == it[y].key
  <2>12. e[ky].len = it[y].len
    BY <2>8
  <2> HIDE DEF K, ky
  <2>13. IsFiniteSet(K \cup {ky})
    BY <2>11, FS_AddElement
  <2>14. /\ LenSum(e, K) \in Nat
         /\ LenSum(e, K \cup {ky}) = LenSum(e, K) + e[ky].len
    <3>1. ky \notin K /\ \A k \in K \cup {ky} : e[k].len \in Nat
      BY <2>9, <2>10 DEF ky
    <3> QED BY <2>11, <3>1, SumAdd
  <2>15. LenSum(it, r \cup {y}) = LenSum(it, r) + it[y].len
    <3>1. \A i \in r \cup {y} : it[i].len \in Nat
      BY <2>5, <2>8
    <3> QED BY <2>5, <2>8, <3>1, SumAdd
  <2>16. LenSum(e, KeysOf(it, s)) = LenSum(e, K) + e[ky].len /\ LenSum(it, s) = LenSum(it, r) + it[y].len
    <3>1. KeysOf(it, s) = K \cup {ky}
      BY <2>9 DEF ky
    <3> QED BY <2>8, <2>14, <2>15, <3>1
  <2>17. IsFiniteSet(KeysOf(it, s))
    BY <2>9, <2>13 DEF ky
  <2> QED BY <2>3, <2>11, <2>12, <2>16, <2>17 DEF Fine
<1>2. Cardinality(A) \in Nat
  BY FS_CardinalityType
<1> QED BY <1>1, <1>2

\* The lengths of the free item is zero.
LEMMA AliveSum ==
  ASSUME TypeInv, ListInv, Careful, pc \in {"idle", "fit"}
  PROVE  LenSum(item, Born) = LenSum(item, Alive)
<1>1. /\ Born = Alive \cup ({free_items} \ {Null}) /\ Alive \cap ({free_items} \ {Null}) = {}
      /\ free_items # Null => item[free_items].len = 0
  BY ListImplied
<1>2. IsFiniteSet(Born) /\ \A j \in Born : item[j].len \in Nat
  BY SumInNat
<1>3. CASE free_items = Null
  BY <1>1, <1>3
<1>4. CASE free_items # Null
  <2>1. Born = Alive \cup {free_items} /\ free_items \notin Alive /\ Alive \subseteq Born
    BY <1>1, <1>4
  <2>2. IsFiniteSet(Alive)
    BY <1>2, <2>1, FS_Subset
  <2> HIDE DEF Alive
  <2>3. /\ LenSum(item, Alive) \in Nat
        /\ LenSum(item, Alive \cup {free_items}) = LenSum(item, Alive) + item[free_items].len
    BY <1>2, <2>1, <2>2, SumAdd
  <2>4. LenSum(item, Born) = LenSum(item, Alive \cup {free_items})
    BY <2>1
  <2> QED BY <1>1, <1>4, <2>3, <2>4
<1> QED BY <1>3, <1>4

-----------------------------------------------------------------------------
\* What CacheView sees.
ViewOrder == IF Careful THEN Order ELSE <<>>
ViewEntry == IF Careful THEN Entry ELSE [k \in {} |-> {}]

LEMMA ViewIs ==
  /\ Careful => ViewOrder = OrderOf(item, Alive) /\ ViewEntry = EntryOf(item, Alive)
  /\ ~Careful => ViewOrder = <<>> /\ ViewEntry = [k \in {} |-> {}]
<1> USE DEF ViewOrder, ViewEntry
<1>1. Order = OrderOf(item, Alive)
  BY Zenon DEF Order, OrderOf
<1>2. Entry = EntryOf(item, Alive)
  BY Zenon DEF Entry, EntryOf, KeysOf, EntryAt
<1> QED BY <1>1, <1>2

\* What the view makes of the keys held, their lengths, and the order without a key.
LEMMA ViewState ==
  ASSUME TypeInv, ListInv, RankInv, MemInv, Careful, pc \in {"idle", "fit"}
  PROVE  /\ CacheView!Cached = KeysOf(item, Alive)
         /\ CacheView!Fits <=> free_memory >= Due
         /\ \A i \in Alive : CacheView!Without(item[i].key) = Removal(OrderOf(item, Alive), item[i].rank)
         /\ \A k : k \notin KeysOf(item, Alive) => CacheView!Without(k) = OrderOf(item, Alive)
<1> DEFINE A == Alive
           s == OrderOf(item, A)
           e == EntryOf(item, A)
<1>1. /\ IsFiniteSet(A)
      /\ \A i \in A : item[i].key \in Key /\ item[i].len \in Nat
  BY AliveIs DEF AliveFacts
<1>2. Ranked(item, A) /\ Keyed(item, A)
  BY DEF RankInv, Aged
<1>3. ViewOrder = s /\ ViewEntry = e
  BY ViewIs
<1>4. LenSum(item, Born) = LenSum(item, A)
  BY AliveSum
<1> HIDE DEF A
<1>5. /\ Cardinality(A) \in Nat /\ s \in Seq(Key) /\ Len(s) = Cardinality(A)
      /\ \A i \in A : s[item[i].rank] = item[i].key
      /\ {s[p] : p \in 1..Cardinality(A)} = KeysOf(item, A)
  BY <1>1, <1>2, OrderIs
<1>6. \A i \in A : e[item[i].key] = EntryAt(item, i)
  BY <1>2, EntryIs
<1> HIDE DEF s, e
<1>7. CacheView!Cached = {s[p] : p \in 1..Len(s)}
  BY <1>3 DEF CacheView!Cached, ViewOrder
<1>8. CacheView!Cached = KeysOf(item, A)
  BY <1>5, <1>7
<1>9. CacheView!Fits <=> free_memory >= Due
  <2>1. CacheView!Weight = LenSum(ViewEntry, CacheView!Cached)
    BY Zenon DEF CacheView!Weight, ViewEntry, LenSum, MapThenSumSet, CacheView!MapThenSumSet,
                 MapThenFoldSet, CacheView!MapThenFoldSet
  <2>2. \A i \in A : item[i].len \in Nat /\ e[item[i].key].len = item[i].len
    <3>1. \A i : EntryAt(item, i).len = item[i].len
      BY DEF EntryAt
    <3> QED BY <1>1, <1>6, <3>1
  <2>3. LenSum(e, KeysOf(item, A)) = LenSum(item, A)
    BY <1>1, <1>2, <2>2, SumImage
  <2>4. CacheView!Weight = LenSum(item, Born)
    BY <1>3, <1>4, <1>8, <2>1, <2>3
  <2>5. free_memory + LenSum(item, Born) = TotalMemory + Due
    BY DEF MemInv
  <2>6. /\ free_memory \in Nat /\ LenSum(item, Born) \in Nat /\ TotalMemory \in Nat /\ Due \in Nat
    BY SumInNat, LruSizes DEF TypeInv, Due
  <2>7. CacheView!Fits <=> CacheView!Weight <= TotalMemory
    BY DEF CacheView!Fits
  <2> QED BY <2>4, <2>5, <2>6, <2>7
<1>10. ASSUME NEW k
       PROVE  CacheView!Without(k) = IF k \in KeysOf(item, A)
                                     THEN Removal(s, CHOOSE i \in 1..Len(s) : s[i] = k) ELSE s
  <2>1. CacheView!Without(k) = IF k \in CacheView!Cached
                               THEN CacheView!RemoveAt(ViewOrder, CHOOSE i \in 1..Len(ViewOrder) : ViewOrder[i] = k)
                               ELSE ViewOrder
    BY Zenon DEF CacheView!Without, CacheView!Place, ViewOrder
  <2> QED BY <1>3, <1>8, <2>1 DEF Removal, CacheView!RemoveAt
<1>11. ASSUME NEW i \in A
       PROVE  CacheView!Without(item[i].key) = Removal(s, item[i].rank)
  <2>1. item[i].key \in KeysOf(item, A)
    BY DEF KeysOf
  <2>2. \A q \in 1..Len(s) : s[q] = item[i].key => q = item[i].rank
    <3> SUFFICES ASSUME NEW q \in 1..Len(s), s[q] = item[i].key PROVE q = item[i].rank
      OBVIOUS
    <3>1. PICK j \in A : item[j].rank = q
      BY <1>2, <1>5 DEF Ranked
    <3>2. j = i
      BY <1>2, <1>5, <3>1 DEF Keyed
    <3> QED BY <3>1, <3>2
  <2>3. item[i].rank \in 1..Len(s) /\ s[item[i].rank] = item[i].key
    BY <1>2, <1>5 DEF Ranked
  <2>4. (CHOOSE q \in 1..Len(s) : s[q] = item[i].key) = item[i].rank
    BY <2>2, <2>3
  <2> QED BY <1>10, <2>1, <2>4
<1> QED BY <1>8, <1>9, <1>10, <1>11 DEF A, s


-----------------------------------------------------------------------------
\* What an item that comes or goes does to the entries.
LEMMA EntryGain ==
  ASSUME NEW A, NEW it, Keyed(it, A), NEW B, NEW jt, Keyed(jt, B),
         NEW i \in B, NEW k, jt[i].key = k, B \subseteq A \cup {i}, A \subseteq B,
         \A j \in A : jt[j].key = it[j].key,
         \A j \in A \ {i} : EntryAt(jt, j) = EntryAt(it, j)
  PROVE  /\ DOMAIN EntryOf(jt, B) = KeysOf(it, A) \cup {k}
         /\ EntryOf(jt, B)[k] = EntryAt(jt, i)
         /\ \A x \in KeysOf(it, A) \ {k} : EntryOf(jt, B)[x] = EntryOf(it, A)[x]
<1>1. \A j \in A : EntryOf(it, A)[it[j].key] = EntryAt(it, j)
  BY EntryIs
<1>2. DOMAIN EntryOf(jt, B) = KeysOf(jt, B) /\ \A j \in B : EntryOf(jt, B)[jt[j].key] = EntryAt(jt, j)
  BY EntryIs
<1>3. KeysOf(jt, B) = KeysOf(it, A) \cup {k}
  BY DEF KeysOf
<1>4. EntryOf(jt, B)[k] = EntryAt(jt, i)
  BY <1>2
<1>5. ASSUME NEW x \in KeysOf(it, A) \ {k} PROVE EntryOf(jt, B)[x] = EntryOf(it, A)[x]
  <2>1. PICK j \in A : it[j].key = x
    BY DEF KeysOf
  <2>2. j # i /\ j \in B /\ jt[j].key = x
    BY <2>1
  <2>3. EntryOf(jt, B)[x] = EntryAt(jt, j) /\ EntryOf(it, A)[x] = EntryAt(it, j)
    BY <1>1, <1>2, <2>1, <2>2
  <2> QED BY <2>2, <2>3
<1> QED BY <1>2, <1>3, <1>4, <1>5

LEMMA EntryLoss ==
  ASSUME NEW A, NEW it, Keyed(it, A), NEW i \in A, NEW jt, Keyed(jt, A \ {i}),
         \A j \in A \ {i} : jt[j].key = it[j].key /\ EntryAt(jt, j) = EntryAt(it, j)
  PROVE  EntryOf(jt, A \ {i}) = [x \in KeysOf(it, A) \ {it[i].key} |-> EntryOf(it, A)[x]]
<1> DEFINE B == A \ {i}
           K == KeysOf(it, A) \ {it[i].key}
           e == [x \in K |-> EntryOf(it, A)[x]]
<1>1. KeysOf(jt, B) = K
  BY DEF KeysOf, Keyed
<1>2. \A j \in B : e[jt[j].key] = EntryAt(jt, j)
  <2> SUFFICES ASSUME NEW j \in B PROVE e[jt[j].key] = EntryAt(jt, j)
    OBVIOUS
  <2>1. it[j].key \in K /\ jt[j].key = it[j].key
    BY DEF KeysOf, Keyed
  <2>2. EntryOf(it, A)[it[j].key] = EntryAt(it, j)
    BY EntryIs
  <2> QED BY <2>1, <2>2
<1>3. e = [x \in KeysOf(jt, B) |-> e[x]]
  BY <1>1
<1> HIDE DEF B, e
<1>4. Keyed(jt, B)
  BY DEF B
<1>5. EntryOf(jt, B) = e
  BY <1>2, <1>3, <1>4, EntryEq
<1> QED BY <1>5 DEF B, e

LEMMA EntrySame ==
  ASSUME NEW A, NEW it, Keyed(it, A), NEW jt, Keyed(jt, A),
         \A j \in A : jt[j].key = it[j].key /\ EntryAt(jt, j) = EntryAt(it, j)
  PROVE  EntryOf(jt, A) = EntryOf(it, A) /\ KeysOf(jt, A) = KeysOf(it, A)
<1> DEFINE e == EntryOf(it, A)
<1>1. KeysOf(jt, A) = KeysOf(it, A)
  BY DEF KeysOf
<1>2. e = [x \in KeysOf(it, A) |-> e[x]] /\ \A j \in A : e[it[j].key] = EntryAt(it, j)
  BY EntryIs
<1> HIDE DEF e
<1>3. e = [x \in KeysOf(jt, A) |-> e[x]] /\ \A j \in A : e[jt[j].key] = EntryAt(jt, j)
  BY <1>1, <1>2
<1>4. EntryOf(jt, A) = e
  BY <1>3, EntryEq
<1> QED BY <1>1, <1>4 DEF e

-----------------------------------------------------------------------------
\* The view after a step of a careful client.
LEMMA ViewNext ==
  ASSUME Careful, client' = client
  PROVE  /\ ViewOrder = OrderOf(item, Alive) /\ ViewEntry = EntryOf(item, Alive)
         /\ ViewOrder' = OrderOf(item', Alive') /\ ViewEntry' = EntryOf(item', Alive')
<1>1. Careful'
  BY DEF Careful
<1>2. (Careful => ViewOrder = OrderOf(item, Alive) /\ ViewEntry = EntryOf(item, Alive))'
  BY ViewIs, PTL
<1>3. Careful' => ViewOrder' = OrderOf(item', Alive') /\ ViewEntry' = EntryOf(item', Alive')
  BY <1>2
<1> QED BY <1>1, <1>3, ViewIs

LEMMA UpdateStep ==
  ASSUME TypeInv, ListInv, RankInv, MemInv, Careful, AliveFacts',
         NEW k \in Key, NEW v \in Value, NEW n \in Lengths, SetUpdate(k, v, n)
  PROVE  CacheView!CacheSet(k)
<1> DEFINE i == StopAt(k)
           A == Alive
           it == item'
<1>1. pc = "idle" /\ answer' = {} /\ client' = client
  BY DEF SetUpdate
<1>2. /\ i \in A /\ item[i].key = k /\ Alive' = A
      /\ Aged(item', Born', Alive')
      /\ OrderOf(item', Alive') = Ending(Removal(OrderOf(item, A), item[i].rank), k)
      /\ EntryAt(item', i) \in [value : Value, len : Lengths]
      /\ \A j \in A \ {i} : EntryAt(item', j) = EntryAt(item, j)
      /\ \A j \in A : item'[j].key = item[j].key
  BY UpdateView
<1>3. Keyed(item, A) /\ Keyed(item', A)
  BY <1>1, <1>2 DEF RankInv, Aged
<1>4. /\ CacheView!Cached = KeysOf(item, A)
      /\ CacheView!Fits <=> free_memory >= Due
      /\ CacheView!Without(item[i].key) = Removal(OrderOf(item, A), item[i].rank)
  BY <1>1, <1>2, ViewState
<1>5. CacheView!Fits
  BY <1>1, <1>4 DEF Due, TypeInv
<1>6. /\ ViewEntry = EntryOf(item, A)
      /\ ViewOrder' = OrderOf(item', Alive') /\ ViewEntry' = EntryOf(item', Alive')
  BY <1>1, ViewNext
<1> HIDE DEF i, A, it
<1>7. /\ DOMAIN EntryOf(it, A) = KeysOf(item, A) \cup {k}
      /\ EntryOf(it, A)[k] = EntryAt(it, i)
      /\ \A x \in KeysOf(item, A) \ {k} : EntryOf(it, A)[x] = EntryOf(item, A)[x]
  <2>1. /\ Keyed(it, A) /\ i \in A /\ it[i].key = k /\ A \subseteq A \cup {i}
        /\ \A j \in A : it[j].key = item[j].key
        /\ \A j \in A \ {i} : EntryAt(it, j) = EntryAt(item, j)
    BY <1>2, <1>3 DEF it
  <2> QED BY <1>3, <2>1, EntryGain
<1>8. ViewOrder' = Append(CacheView!Without(k), k)
  BY <1>2, <1>4, <1>6 DEF Ending
<1>9. /\ DOMAIN ViewEntry' = CacheView!Cached \cup {k}
      /\ ViewEntry'[k] \in [value : Value, len : Lengths]
      /\ \A x \in CacheView!Cached \ {k} : ViewEntry'[x] = ViewEntry[x]
  BY <1>2, <1>4, <1>6, <1>7 DEF it
<1>10. (IF Careful THEN answer ELSE {})' = {}
  BY <1>1
<1> QED BY <1>5, <1>8, <1>9, <1>10 DEF CacheView!CacheSet, ViewOrder, ViewEntry

LEMMA InsertStep ==
  ASSUME TypeInv, ListInv, RankInv, MemInv, Careful, AliveFacts',
         NEW k \in Key, NEW v \in Value, NEW n \in Lengths, SetInsert(k, v, n)
  PROVE  CacheView!CacheSet(k)
<1> DEFINE i == Popped
           A == Alive
           B == A \cup {i}
           it == item'
<1>1. pc = "idle" /\ answer' = {} /\ client' = client
  BY DEF SetInsert
<1>2. /\ i \notin A /\ Alive' = B /\ k \notin KeysOf(item, A)
      /\ Aged(item', Born', Alive')
      /\ OrderOf(item', Alive') = Ending(OrderOf(item, A), k)
      /\ item'[i].key = k /\ EntryAt(item', i) \in [value : Value, len : Lengths]
      /\ \A j \in A : item'[j].key = item[j].key /\ EntryAt(item', j) = EntryAt(item, j)
  BY InsertView
<1>3. Keyed(item, A) /\ Keyed(item', B)
  BY <1>1, <1>2 DEF RankInv, Aged
<1>4. /\ CacheView!Cached = KeysOf(item, A)
      /\ CacheView!Fits <=> free_memory >= Due
      /\ CacheView!Without(k) = OrderOf(item, A)
  BY <1>1, <1>2, ViewState
<1>5. CacheView!Fits
  BY <1>1, <1>4 DEF Due, TypeInv
<1>6. /\ ViewEntry = EntryOf(item, A)
      /\ ViewOrder' = OrderOf(item', Alive') /\ ViewEntry' = EntryOf(item', Alive')
  BY <1>1, ViewNext
<1> HIDE DEF i, A, it
<1>7. /\ DOMAIN EntryOf(it, B) = KeysOf(item, A) \cup {k}
      /\ EntryOf(it, B)[k] = EntryAt(it, i)
      /\ \A x \in KeysOf(item, A) \ {k} : EntryOf(it, B)[x] = EntryOf(item, A)[x]
  <2>1. /\ Keyed(it, B) /\ i \in B /\ it[i].key = k /\ B \subseteq A \cup {i} /\ A \subseteq B
        /\ \A j \in A : it[j].key = item[j].key
        /\ \A j \in A \ {i} : EntryAt(it, j) = EntryAt(item, j)
    BY <1>2, <1>3 DEF it
  <2> HIDE DEF B
  <2> QED BY <1>3, <2>1, EntryGain
<1>8. ViewOrder' = Append(CacheView!Without(k), k)
  BY <1>2, <1>4, <1>6 DEF Ending
<1>9. /\ DOMAIN ViewEntry' = CacheView!Cached \cup {k}
      /\ ViewEntry'[k] \in [value : Value, len : Lengths]
      /\ \A x \in CacheView!Cached \ {k} : ViewEntry'[x] = ViewEntry[x]
  BY <1>2, <1>4, <1>6, <1>7 DEF it
<1>10. (IF Careful THEN answer ELSE {})' = {}
  BY <1>1
<1> QED BY <1>5, <1>8, <1>9, <1>10 DEF CacheView!CacheSet, ViewOrder, ViewEntry


LEMMA GetStep ==
  ASSUME TypeInv, ListInv, RankInv, MemInv, Careful, AliveFacts', NEW k \in Key, Get(k)
  PROVE  CacheView!CacheGet(k)
<1> DEFINE A == Alive
<1>1. pc = "idle" /\ pc' = "idle" /\ client' = client /\ free_items' = free_items /\ Stops(k) # {}
  BY DEF Get
<1>2. /\ CacheView!Cached = KeysOf(item, A)
      /\ CacheView!Fits <=> free_memory >= Due
      /\ \A i \in A : CacheView!Without(item[i].key) = Removal(OrderOf(item, A), item[i].rank)
  BY <1>1, ViewState
<1>3. CacheView!Fits
  BY <1>1, <1>2 DEF Due, TypeInv
<1>4. /\ ViewOrder = OrderOf(item, A) /\ ViewEntry = EntryOf(item, A)
      /\ ViewOrder' = OrderOf(item', Alive') /\ ViewEntry' = EntryOf(item', Alive')
  BY <1>1, ViewNext
<1>5. Keyed(item, A)
  BY <1>1 DEF RankInv, Aged
<1>6. CASE StopAt(k) = Null
  <2>1. answer' = {} /\ item' = item
    BY <1>6 DEF Get
  <2>2. Alive' = A
    BY <1>1, <2>1, StillView
  <2>3. \A i \in A : item[i].key # k
    BY <1>1, <1>6, SearchFinds
  <2> HIDE DEF A
  <2>4. ViewOrder' = ViewOrder /\ ViewEntry' = ViewEntry
    BY <1>4, <2>1, <2>2
  <2>5. k \notin CacheView!Cached
    BY <1>2, <2>3 DEF KeysOf
  <2>6. (IF Careful THEN answer ELSE {})' = {}
    BY <2>1
  <2> QED BY <1>3, <2>4, <2>5, <2>6 DEF CacheView!CacheGet, ViewOrder, ViewEntry
<1>7. CASE StopAt(k) # Null
  <2> DEFINE i == StopAt(k)
             it == item'
  <2>1. answer' = {item[i].value}
    BY <1>7 DEF Get
  <2>2. /\ i \in A /\ item[i].key = k /\ Alive' = A
        /\ Aged(item', Born', Alive')
        /\ OrderOf(item', Alive') = Ending(Removal(OrderOf(item, A), item[i].rank), k)
        /\ \A j \in A : item'[j].key = item[j].key /\ EntryAt(item', j) = EntryAt(item, j)
    BY <1>7, GetView
  <2>3. Keyed(item', A)
    BY <2>2 DEF Aged
  <2>4. k \in CacheView!Cached /\ ViewOrder' = Append(CacheView!Without(k), k)
    <3>1. k \in KeysOf(item, A)
      BY <2>2 DEF KeysOf
    <3> HIDE DEF A, i
    <3>2. CacheView!Without(k) = Removal(OrderOf(item, A), item[i].rank)
      BY <1>2, <2>2
    <3> QED BY <1>2, <1>4, <2>2, <3>1, <3>2 DEF Ending
  <2>5. ViewEntry[k].value = item[i].value
    <3>1. ViewEntry[k] = EntryAt(item, i)
      BY <1>4, <1>5, <2>2, EntryIs
    <3> QED BY <3>1 DEF EntryAt
  <2> HIDE DEF A, i, it
  <2>6. ViewEntry' = ViewEntry
    <3>1. /\ Keyed(it, A)
          /\ \A j \in A : it[j].key = item[j].key /\ EntryAt(it, j) = EntryAt(item, j)
      BY <2>2, <2>3 DEF it
    <3>2. EntryOf(it, A) = EntryOf(item, A)
      BY <1>5, <3>1, EntrySame
    <3> QED BY <1>4, <2>2, <3>2 DEF it
  <2>7. (IF Careful THEN answer ELSE {})' = {ViewEntry[k].value}
    BY <1>1, <2>1, <2>5 DEF Careful
  <2> QED BY <1>3, <2>4, <2>6, <2>7 DEF CacheView!CacheGet, ViewOrder, ViewEntry
<1> QED BY <1>6, <1>7

\* Entries whose item has gone.
LEMMA GoneStep ==
  ASSUME Careful, client' = client, Keyed(item, Alive), CacheView!Cached = KeysOf(item, Alive),
         NEW i \in Alive, Alive' = Alive \ {i}, Aged(item', Born', Alive'),
         \A j \in Alive \ {i} : item'[j].key = item[j].key /\ EntryAt(item', j) = EntryAt(item, j)
  PROVE  ViewEntry' = CacheView!Only(CacheView!Cached \ {item[i].key})
<1> DEFINE A == Alive
           it == item'
<1>1. /\ ViewEntry = EntryOf(item, A) /\ ViewEntry' = EntryOf(item', Alive')
  BY ViewNext
<1>2. Keyed(item', A \ {i})
  BY DEF Aged
<1> HIDE DEF A, it
<1>3. EntryOf(it, A \ {i}) = [x \in KeysOf(item, A) \ {item[i].key} |-> EntryOf(item, A)[x]]
  <2>1. /\ i \in A /\ Keyed(item, A) /\ Keyed(it, A \ {i})
        /\ \A j \in A \ {i} : it[j].key = item[j].key /\ EntryAt(it, j) = EntryAt(item, j)
    BY <1>2 DEF A, it
  <2> QED BY <2>1, EntryLoss
<1>4. ViewEntry' = [x \in CacheView!Cached \ {item[i].key} |-> ViewEntry[x]]
  BY <1>1, <1>3 DEF A, it
<1>5. CacheView!Only(CacheView!Cached \ {item[i].key}) = [x \in CacheView!Cached \ {item[i].key} |-> ViewEntry[x]]
  BY Zenon DEF CacheView!Only, ViewEntry
<1> QED BY <1>4, <1>5

LEMMA RemoveStep ==
  ASSUME TypeInv, ListInv, RankInv, MemInv, Careful, AliveFacts', NEW k \in Key, Remove(k)
  PROVE  CacheView!CacheRemove(k)
<1> DEFINE A == Alive
<1>1. /\ pc = "idle" /\ pc' = pc /\ client' = client /\ Stops(k) # {} /\ answer' = {}
      /\ free_items = Null
  BY DEF Remove, MayRemove
<1>2. /\ CacheView!Cached = KeysOf(item, A)
      /\ CacheView!Fits <=> free_memory >= Due
      /\ \A i \in A : CacheView!Without(item[i].key) = Removal(OrderOf(item, A), item[i].rank)
      /\ \A x : x \notin KeysOf(item, A) => CacheView!Without(x) = OrderOf(item, A)
  BY <1>1, ViewState
<1>3. CacheView!Fits
  BY <1>1, <1>2 DEF Due, TypeInv
<1>4. /\ ViewOrder = OrderOf(item, A) /\ ViewEntry = EntryOf(item, A)
      /\ ViewOrder' = OrderOf(item', Alive') /\ ViewEntry' = EntryOf(item', Alive')
  BY <1>1, ViewNext
<1>5. Keyed(item, A)
  BY <1>1 DEF RankInv, Aged
<1>6. (IF Careful THEN answer ELSE {})' = {}
  BY <1>1
<1>7. CASE StopAt(k) = Null
  <2>1. item' = item /\ free_items' = free_items
    BY <1>7 DEF Remove
  <2>2. Alive' = A
    BY <1>1, <2>1, StillView
  <2>3. \A i \in A : item[i].key # k
    BY <1>1, <1>7, SearchFinds
  <2> HIDE DEF A
  <2>4. k \notin KeysOf(item, A)
    BY <2>3 DEF KeysOf
  <2>5. ViewOrder' = CacheView!Without(k)
    BY <1>2, <1>4, <2>1, <2>2, <2>4
  <2>6. ViewEntry' = CacheView!Only(CacheView!Cached \ {k})
    <3>1. ViewEntry' = ViewEntry /\ CacheView!Cached \ {k} = KeysOf(item, A)
      BY <1>2, <1>4, <2>1, <2>2, <2>4
    <3>2. ViewEntry = [x \in KeysOf(item, A) |-> ViewEntry[x]]
      BY <1>4, <1>5, EntryIs
    <3>3. CacheView!Only(CacheView!Cached \ {k}) = [x \in CacheView!Cached \ {k} |-> ViewEntry[x]]
      BY Zenon DEF CacheView!Only, ViewEntry
    <3> QED BY <3>1, <3>2, <3>3
  <2> QED BY <1>3, <1>6, <2>5, <2>6 DEF CacheView!CacheRemove, ViewOrder, ViewEntry
<1>8. CASE StopAt(k) # Null
  <2> DEFINE i == StopAt(k)
  <2>1. ItemRemove(Hash[k], PrevOf(k), i)
    BY <1>8 DEF Remove
  <2>2. i \in A /\ item[i].key = k
    BY <1>1, <1>8, SearchFinds
  <2>3. Hash[k] \in Chains /\ PrevOf(k) \in Born \cup {Null}
    BY <1>1, StopPlace
  <2> HIDE DEF StopAt, PrevOf, Alive, i
  <2>4. /\ Alive' = Alive \ {i}
        /\ Aged(item', Born', Alive')
        /\ OrderOf(item', Alive') = Removal(OrderOf(item, Alive), item[i].rank)
        /\ \A j \in Alive \ {i} : item'[j].key = item[j].key /\ EntryAt(item', j) = EntryAt(item, j)
    BY <1>1, <2>1, <2>2, <2>3, RemoveView
  <2>5. ViewOrder' = CacheView!Without(k)
    BY <1>2, <1>4, <2>2, <2>4
  <2>6. ViewEntry' = CacheView!Only(CacheView!Cached \ {item[i].key})
    BY <1>1, <1>2, <1>5, <2>2, <2>4, GoneStep
  <2>7. ViewEntry' = CacheView!Only(CacheView!Cached \ {k})
    BY <2>2, <2>6
  <2> QED BY <1>3, <1>6, <2>5, <2>7 DEF CacheView!CacheRemove, ViewOrder, ViewEntry
<1> QED BY <1>7, <1>8

\* Without its first place a sequence is its tail.
LEMMA FirstGone ==
  ASSUME NEW S, NEW s \in Seq(S), s # <<>>
  PROVE  Removal(s, 1) = Tail(s) /\ Head(s) = s[1]
<1>1. 1 \in 1..Len(s) /\ Len(s) \in Nat
  BY EmptySeq, LenProperties
<1>2. /\ Removal(s, 1) \in Seq(S) /\ Len(Removal(s, 1)) = Len(s) - 1
      /\ \A q \in 1..Len(s)-1 : Removal(s, 1)[q] = IF q < 1 THEN s[q] ELSE s[q+1]
  BY <1>1, RemovalIs
<1>3. /\ Head(s) = s[1] /\ Tail(s) \in Seq(S) /\ Len(Tail(s)) = Len(s) - 1
      /\ \A q \in 1..Len(s)-1 : Tail(s)[q] = s[q+1]
  BY HeadTailProperties
<1>4. \A q \in 1..Len(Tail(s)) : Removal(s, 1)[q] = Tail(s)[q]
  BY <1>1, <1>2, <1>3
<1> QED BY <1>2, <1>3, <1>4, SeqEqual

LEMMA EvictStep ==
  ASSUME TypeInv, ListInv, RankInv, MemInv, Careful, AliveFacts', Evict
  PROVE  CacheView!CacheEvict
<1> DEFINE A == Alive
           s == OrderOf(item, A)
<1>1. /\ pc = "fit" /\ client' = client /\ answer' = answer /\ free_memory < required
      /\ \E i \in A :
           /\ item[i].rank = 1 /\ Alive' = A \ {i}
           /\ Aged(item', Born', Alive')
           /\ OrderOf(item', Alive') = Removal(OrderOf(item, A), item[i].rank)
           /\ \A j \in A \ {i} : /\ item'[j].key = item[j].key
                                 /\ EntryAt(item', j) = EntryAt(item, j)
  BY EvictView DEF Evict
<1>2. PICK i \in A :
           /\ item[i].rank = 1 /\ Alive' = A \ {i}
           /\ Aged(item', Born', Alive')
           /\ OrderOf(item', Alive') = Removal(OrderOf(item, A), item[i].rank)
           /\ \A j \in A \ {i} : /\ item'[j].key = item[j].key
                                 /\ EntryAt(item', j) = EntryAt(item, j)
  BY <1>1
<1>3. /\ CacheView!Cached = KeysOf(item, A)
      /\ CacheView!Fits <=> free_memory >= Due
  BY <1>1, ViewState
<1>4. ~CacheView!Fits
  BY <1>1, <1>3, LruSizes DEF Due, TypeInv
<1>5. /\ ViewOrder = s /\ ViewOrder' = OrderOf(item', Alive')
  BY <1>1, ViewNext
<1>6. IsFiniteSet(A) /\ Ranked(item, A) /\ Keyed(item, A)
  BY <1>1, AliveIs DEF AliveFacts, RankInv, Aged
<1>7. s \in Seq(Key) /\ Len(s) = Cardinality(A) /\ \A j \in A : s[item[j].rank] = item[j].key
  BY <1>6, OrderIs
<1>8. s # <<>> /\ s[1] = item[i].key
  BY <1>2, <1>6, <1>7 DEF Ranked
<1>9. ViewOrder' = Tail(ViewOrder) /\ Head(ViewOrder) = item[i].key
  <2> HIDE DEF A, s
  <2>1. Removal(s, 1) = Tail(s) /\ Head(s) = s[1]
    BY <1>7, <1>8, FirstGone
  <2>2. ViewOrder' = Removal(s, 1)
    BY <1>2, <1>5 DEF s
  <2> QED BY <1>5, <1>8, <2>1, <2>2
<1>10. ViewEntry' = CacheView!Only(CacheView!Cached \ {Head(ViewOrder)})
  <2> HIDE DEF Alive
  <2>1. ViewEntry' = CacheView!Only(CacheView!Cached \ {item[i].key})
    BY <1>1, <1>2, <1>3, <1>6, GoneStep
  <2> QED BY <1>9, <2>1
<1>11. UNCHANGED (IF Careful THEN answer ELSE {})
  BY <1>1 DEF Careful
<1> QED BY <1>4, <1>9, <1>10, <1>11 DEF CacheView!CacheEvict, ViewOrder, ViewEntry


\* Where no item was ever allocated, the cache is empty.
NothingThere == TypeInv /\ Born = {} => ViewOrder = <<>> /\ ViewEntry = [k \in {} |-> {}]

LEMMA EmptyView == NothingThere
<1> SUFFICES ASSUME TypeInv, Born = {}, Careful
             PROVE  ViewOrder = <<>> /\ ViewEntry = [k \in {} |-> {}]
  BY ViewIs DEF NothingThere
<1>1. Alive = {}
  <2>1. \A h \in Chains : OnWalk(items[h]) = {}
    <3> SUFFICES ASSUME NEW h \in Chains PROVE OnWalk(items[h]) = {}
      OBVIOUS
    <3>1. items[h] \in Born \cup {Null}
      BY CarefulType
    <3>2. Walk(items[h]) \in [0..MaxItems -> Born \cup {Null}]
      BY <3>1, WalkSteps
    <3> QED BY <3>2 DEF OnWalk
  <2> QED BY <2>1 DEF Alive, Chains
<1> DEFINE A == Alive
<1>2. /\ Careful => ViewOrder = OrderOf(item, A) /\ ViewEntry = EntryOf(item, A)
      /\ ~Careful => ViewOrder = <<>> /\ ViewEntry = [k \in {} |-> {}]
  BY ViewIs
<1>3. A = {} /\ Cardinality(A) = 0
  BY <1>1, FS_EmptySet
<1> HIDE DEF A
<1>4. IsFiniteSet(A) /\ Ranked(item, A) /\ Keyed(item, A)
  BY <1>3, FS_EmptySet DEF Ranked, Keyed
<1>5. OrderOf(item, A) \in Seq(Key) /\ Len(OrderOf(item, A)) = 0
  BY <1>3, <1>4, OrderIs
<1>6. OrderOf(item, A) = <<>>
  BY <1>5, EmptySeq
<1>7. EntryOf(item, A) = [k \in {} |-> {}]
  <2>1. KeysOf(item, A) = {}
    BY <1>3 DEF KeysOf
  <2> QED BY <2>1, Zenon DEF EntryOf
<1> QED BY <1>2, <1>6, <1>7

LEMMA FreeStep ==
  ASSUME TypeInv', Careful, Free
  PROVE  CacheView!CacheFree
<1>1. answer' = {}
  BY DEF Free
<1>2. Born' = {}
  BY DEF Free, Born
<1>3. NothingThere'
  BY EmptyView, PTL
<1>4. ViewOrder' = <<>> /\ ViewEntry' = [k \in {} |-> {}]
  BY <1>2, <1>3 DEF NothingThere
<1>5. (IF Careful THEN answer ELSE {})' = {}
  BY <1>1
<1> QED BY <1>4, <1>5 DEF CacheView!CacheFree, ViewOrder, ViewEntry

\* A step that neither moves an item nor answers.
LEMMA StillStep ==
  ASSUME UNCHANGED <<client, items, item, answer>>
  PROVE  UNCHANGED CacheView!lruVars
<1>1. Careful' = Careful
  BY DEF Careful
<1>2. \A h \in Chains : OnWalk(items[h])' = OnWalk(items[h])
  BY DEF OnWalk, Walk, Born
<1>3. Alive' = Alive
  BY DEF Alive, OnWalk, Walk, Born
<1>4. Order' = Order /\ Entry' = Entry
  BY <1>3 DEF Order, Entry
<1> QED BY <1>1, <1>4 DEF CacheView!lruVars

LEMMA CacheStep ==
  ASSUME TypeInv, ListInv, RankInv, MemInv, AliveFacts', TypeInv', [Next]_vars
  PROVE  [CacheView!CacheNext]_(CacheView!lruVars)
<1>1. client' = client
  BY DEF Next, Step, SetUpdate, SetInsert, Search, Get, Remove, Evict, Fit, Free, vars
<1>2. CASE ~Careful
  <2>1. ~Careful'
    BY <1>1, <1>2 DEF Careful
  <2> QED BY <1>2, <2>1 DEF CacheView!lruVars
<1>3. CASE Careful
  <2> USE <1>3 DEF CacheView!CacheNext
  <2>1. ASSUME NEW k \in Key, NEW v \in Value, NEW n \in Lengths, SetUpdate(k, v, n)
        PROVE  CacheView!CacheNext
    BY <2>1, UpdateStep
  <2>2. ASSUME NEW k \in Key, NEW v \in Value, NEW n \in Lengths, SetInsert(k, v, n)
        PROVE  CacheView!CacheNext
    BY <2>2, InsertStep
  <2>3. ASSUME NEW k \in Key, Search(k) PROVE UNCHANGED CacheView!lruVars
    BY <2>3, StillStep DEF Search
  <2>4. ASSUME NEW k \in Key, Get(k) PROVE CacheView!CacheNext
    BY <2>4, GetStep
  <2>5. ASSUME NEW k \in Key, Remove(k) PROVE CacheView!CacheNext
    BY <2>5, RemoveStep
  <2>6. ASSUME Evict PROVE CacheView!CacheNext
    BY <2>6, EvictStep
  <2>7. ASSUME Fit PROVE UNCHANGED CacheView!lruVars
    BY <2>7, StillStep DEF Fit
  <2>8. ASSUME Free PROVE CacheView!CacheNext
    BY <2>8, FreeStep
  <2>9. ASSUME UNCHANGED vars PROVE UNCHANGED CacheView!lruVars
    BY <2>9, StillStep DEF vars
  <2> QED BY <2>1, <2>2, <2>3, <2>4, <2>5, <2>6, <2>7, <2>8, <2>9 DEF Next, Step
<1> QED BY <1>2, <1>3

(***************************************************************************)
(* For a careful client, whose memory is zeroed, the cache is one that     *)
(* keeps the values set last within its capacity: the eviction loop drops  *)
(* the least recently used entry and nothing else, only while too much is  *)
(* held; a get finds what was set last, unless it was evicted or removed,  *)
(* and makes it the most recently used.                                    *)
(***************************************************************************)
THEOREM CacheRefinement == Spec => CacheSpec
<1>1. Init => TypeInv /\ ListInv /\ MemInv /\ RankInv /\ CacheView!CacheInit
  <2>1. Init => TypeInv /\ ListInv /\ MemInv /\ RankInv
    BY TypeInit, ListInit, MemInit, RankInit
  <2>2. Init => Born = {} /\ answer = {}
    BY DEF Init, Born
  <2>3. Init => ViewOrder = <<>> /\ ViewEntry = [k \in {} |-> {}]
    BY <2>1, <2>2, EmptyView DEF NothingThere
  <2> QED BY <2>1, <2>2, <2>3 DEF CacheView!CacheInit, ViewOrder, ViewEntry
<1>2. TypeInv /\ ListInv /\ MemInv /\ RankInv /\ [Next]_vars
      => (TypeInv /\ ListInv /\ MemInv /\ RankInv)' /\ [CacheView!CacheNext]_(CacheView!lruVars)
  <2> SUFFICES ASSUME TypeInv, ListInv, MemInv, RankInv, [Next]_vars
               PROVE  (TypeInv /\ ListInv /\ MemInv /\ RankInv)' /\ [CacheView!CacheNext]_(CacheView!lruVars)
    OBVIOUS
  <2>1. TypeInv' /\ ListInv' /\ MemInv'
    BY TypeKept, ListKept, MemKept
  <2>2. (TypeInv /\ ListInv => AliveFacts)'
    BY AliveIs, PTL
  <2>3. AliveFacts'
    BY <2>1, <2>2
  <2>4. RankInv'
    BY <2>3, RankKept
  <2> QED BY <2>1, <2>3, <2>4, CacheStep
<1> QED BY <1>1, <1>2, PTL DEF Spec, CacheSpec, CacheView!CacheSpec
=============================================================================
