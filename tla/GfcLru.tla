------------------------------- MODULE GfcLru -------------------------------
(***************************************************************************)
(* The cache of src/gfc_lru.c: a hash table of linked chains of items, a   *)
(* list of free items that are used again, and an eviction loop that looks *)
(* for the least access count in all chains.                               *)
(*                                                                         *)
(* set, get and remove hold the mutex from their first statement to their  *)
(* last, so calls of several threads are calls one after another; the      *)
(* eviction loop is a machine of its own, because it may not end, with the *)
(* mutex held.  An access count is only ever compared with others and is   *)
(* kept as its rank among the items alive, 0 after the memset of           *)
(* gfc_lru_item_remove.  The code initialises neither the table, nor       *)
(* access_count, nor the next pointer of a new item, and gfc_gc_malloc     *)
(* gives them what malloc left there (fresh): zeros while the pages come   *)
(* from the system, and pointers of an earlier cache when memory is        *)
(* recycled.                                                               *)
(***************************************************************************)
EXTENDS Integers, FiniteSetsExt

CONSTANTS Key, Value,
          Lengths,      \* value lengths clients use
          MaxItems,     \* bound: items ever allocated
          Null,
          HashSize,     \* hash_table_size
          Hash,         \* the chain of each key
          TotalMemory,  \* total_memory
          Word,         \* 2^32: required is a uint32_t
          Memories,     \* the pointers malloc may leave in new memory, {Null} if it is zeroed
          Clients       \* how the program uses the cache, see MayRemove

ASSUME LruSizes == /\ MaxItems \in Nat /\ TotalMemory \in Nat
                   /\ Word \in Nat \ {0} /\ Lengths \subseteq 0..Word-1
ASSUME LruHash == HashSize \in Nat \ {0} /\ Hash \in [Key -> 0..HashSize-1]
ASSUME LruNull == Null \notin Key \cup Value \cup (1..MaxItems)
ASSUME LruMemories == \A memory \in Memories : memory \subseteq (1..MaxItems) \cup {Null}
ASSUME LruClients == Clients \subseteq {"careful", "any"}

VARIABLES client,
          fresh,       \* pointers found in memory from malloc
          pc,          \* "idle", "fit", "freed", "aborted"; "stuck" in a walk without end
          items,       \* lru->items
          item,        \* the items allocated so far
          free_items,  \* lru->free_items
          free_memory, \* lru->free_memory
          required,    \* of the set under way
          answer       \* values the last call handed out

vars == <<client, fresh, pc, items, item, free_items, free_memory, required, answer>>

Zeroed == fresh = {Null}

\* A client that sets values of one length only and removes a key only while no
\* item is free, in a process that finds the memory from malloc zeroed.
Careful == client = "careful" /\ Cardinality(Lengths) = 1

Born == DOMAIN item
NoItem == [key |-> Null, value |-> Null, len |-> 0, rank |-> 0, next |-> Null]

\* Following next from item i; a walk that is not at its end after as many
\* steps as there are items never ends.  Nor does one that a pointer left in the
\* memory leads to where no item is yet.
Walk(i) ==
  LET w[n \in 0..MaxItems] ==
        IF n = 0 THEN i
        ELSE IF w[n-1] \in Born THEN item[w[n-1]].next ELSE w[n-1]
  IN  w
Endless(i) == Walk(i)[MaxItems] # Null
OnWalk(i) == LET w == Walk(i) IN {w[n] : n \in 0..MaxItems} \ {Null}

\* Where the search for k stops: at its item or at the end of its chain.
Stops(k) == LET w == Walk(items[Hash[k]])
            IN  {n \in 0..MaxItems :
                   w[n] = Null \/ (w[n] \in Born /\ item[w[n]].key = k)}
StopAt(k) == Walk(items[Hash[k]])[Min(Stops(k))]
PrevOf(k) == IF Min(Stops(k)) = 0 THEN Null ELSE Walk(items[Hash[k]])[Min(Stops(k)) - 1]

\* Mutant: only the first use counts.
Touch_not_counted(f, i) ==
  IF f[i].rank > 0 THEN f
  ELSE [f EXCEPT ![i].rank = Cardinality({j \in DOMAIN f : f[j].rank > 0}) + 1]

\* ++lru->access_count goes to item i of f; the ranks above its own close up.
Touch(f, i) ==
  LET top == Cardinality({j \in DOMAIN f : f[j].rank > 0} \cup {i})
  IN  [j \in DOMAIN f |->
         IF j = i THEN [f[j] EXCEPT !.rank = top]
         ELSE IF f[i].rank > 0 /\ f[j].rank > f[i].rank
              THEN [f[j] EXCEPT !.rank = @ - 1]
         ELSE f[j]]

Init ==
  /\ client \in Clients
  /\ fresh \in Memories /\ (Careful => Zeroed)
  /\ pc = "idle"
  /\ items \in [0..HashSize-1 -> fresh]
  /\ item = [i \in {} |-> NoItem]
  /\ free_items = Null
  /\ free_memory = TotalMemory
  /\ required = 0
  /\ answer = {}

\* A search that has no end never returns, nor does any later call.
Search(k) ==
  /\ pc = "idle"
  /\ Stops(k) = {}
  /\ pc' = "stuck"
  /\ UNCHANGED <<client, fresh, items, item, free_items, free_memory, required, answer>>

\* The update half of gfc_lru_set; required wraps when the value gets shorter.
SetUpdate(k, v, n) ==
  /\ pc = "idle"
  /\ Stops(k) # {} /\ StopAt(k) # Null
  /\ LET i == StopAt(k)
     IN  /\ required' = (n - item[i].len + Word) % Word
         /\ item' = Touch([item EXCEPT ![i].value = v, ![i].len = n], i)
  /\ pc' = "fit"
  /\ answer' = {}
  /\ UNCHANGED <<client, fresh, items, free_items, free_memory>>

\* gfc_lru_item_pop: the first free item with its next pointer as it is, or a
\* new one.
Popped ==
  IF free_items # Null THEN free_items ELSE CHOOSE i \in 1..MaxItems : i \notin Born

\* The next pointer of i, left being what malloc left there in a new item.
NextOf(i, left) == IF i \in Born THEN item[i].next ELSE left

\* item->key = key and the fields beside it; next is not assigned.
Filled(i, k, v, n, left) ==
  [j \in Born \cup {i} |->
     IF j = i THEN [key |-> k, value |-> v, len |-> n, rank |-> 0, next |-> NextOf(i, left)]
     ELSE item[j]]

Link(f, p, i) == IF p = Null THEN f ELSE [f EXCEPT ![p].next = i]

\* The insert half: the item goes to the end of its chain.
SetInsert(k, v, n) ==
  /\ pc = "idle"
  /\ Stops(k) # {} /\ StopAt(k) = Null
  /\ free_items # Null \/ Born # 1..MaxItems       \* bound
  /\ \E left \in fresh :
       /\ item' = Touch(Link(Filled(Popped, k, v, n, left), PrevOf(k), Popped), Popped)
       /\ free_items' = IF free_items # Null THEN NextOf(free_items, left) ELSE Null
  /\ items' = IF PrevOf(k) = Null THEN [items EXCEPT ![Hash[k]] = Popped] ELSE items
  /\ required' = n
  /\ pc' = "fit"
  /\ answer' = {}
  /\ UNCHANGED <<client, fresh, free_memory>>

\* gfc_lru_item_remove of item i, whose predecessor in chain h is p.
\* Mutant: the predecessor still points to the item.
ItemRemove_linked(h, p, i) ==
  /\ items' = IF p = Null THEN [items EXCEPT ![h] = item[i].next] ELSE items
  /\ free_memory' = free_memory + item[i].len
  /\ item' = [j \in Born |->
                IF j = i THEN [NoItem EXCEPT !.next = free_items]
                ELSE IF item[i].rank > 0 /\ item[j].rank > item[i].rank
                     THEN [item[j] EXCEPT !.rank = @ - 1]
                ELSE item[j]]
  /\ free_items' = i

\* Mutant: the length is read after the memset.
ItemRemove_cleared_first(h, p, i) ==
  /\ items' = IF p = Null THEN [items EXCEPT ![h] = item[i].next] ELSE items
  /\ UNCHANGED free_memory
  /\ item' = LET linked == Link(item, p, item[i].next)
             IN  [j \in Born |->
                    IF j = i THEN [NoItem EXCEPT !.next = free_items]
                    ELSE IF item[i].rank > 0 /\ item[j].rank > item[i].rank
                         THEN [linked[j] EXCEPT !.rank = @ - 1]
                    ELSE linked[j]]
  /\ free_items' = i

ItemRemove(h, p, i) ==
  /\ items' = IF p = Null THEN [items EXCEPT ![h] = item[i].next] ELSE items
  /\ free_memory' = free_memory + item[i].len
  /\ item' = LET linked == Link(item, p, item[i].next)
             IN  [j \in Born |->
                    IF j = i THEN [NoItem EXCEPT !.next = free_items]
                    ELSE IF item[i].rank > 0 /\ item[j].rank > item[i].rank
                         THEN [linked[j] EXCEPT !.rank = @ - 1]
                    ELSE linked[j]]
  /\ free_items' = i

\* The places gfc_lru_item_abandon looks at: step n of chain h.
At(pl) == Walk(items[pl[1]])[pl[2]]
Places == {pl \in (0..HashSize-1) \X (0..MaxItems) : At(pl) # Null}
Before(pl) == IF pl[2] = 0 THEN Null ELSE Walk(items[pl[1]])[pl[2] - 1]
Earlier(a, b) == a[1] < b[1] \/ (a[1] = b[1] /\ a[2] <= b[2])

\* The first place with the least access count.  Counts from what malloc left in
\* lru->access_count may go past the largest one, so that any may be the least.
Oldest ==
  LET places == Places
  IN  {pl \in places : ~Zeroed \/ \A b \in places :
         \/ item[At(pl)].rank < item[At(b)].rank
         \/ item[At(pl)].rank = item[At(b)].rank /\ Earlier(pl, b)}

\* One turn of the loop; with nothing left to abandon it turns for ever.
Evict ==
  /\ pc = "fit"
  /\ free_memory < required
  /\ \/ /\ \E h \in 0..HashSize-1 : Endless(items[h])
        /\ pc' = "stuck"
        /\ UNCHANGED <<items, item, free_items, free_memory>>
     \/ /\ \A h \in 0..HashSize-1 : ~Endless(items[h])
        /\ \E pl \in Oldest : ItemRemove(pl[1], Before(pl), At(pl))
        /\ UNCHANGED pc
  /\ UNCHANGED <<client, fresh, required, answer>>

\* Mutant: the memory the value takes is not subtracted.
Fit_unaccounted ==
  /\ pc = "fit"
  /\ free_memory >= required
  /\ pc' = "idle"
  /\ required' = 0
  /\ UNCHANGED <<client, fresh, items, item, free_items, free_memory, answer>>

Fit ==
  /\ pc = "fit"
  /\ free_memory >= required
  /\ free_memory' = free_memory - required
  /\ pc' = "idle"
  /\ required' = 0
  /\ UNCHANGED <<client, fresh, items, item, free_items, answer>>

Get(k) ==
  /\ pc = "idle"
  /\ Stops(k) # {}
  /\ IF StopAt(k) = Null THEN answer' = {} /\ UNCHANGED item
     ELSE answer' = {item[StopAt(k)].value} /\ item' = Touch(item, StopAt(k))
  /\ UNCHANGED <<client, fresh, pc, items, free_items, free_memory, required>>

\* A "careful" client keeps the list of free items down to one.
MayRemove == Careful => free_items = Null

Remove(k) ==
  /\ pc = "idle"
  /\ MayRemove
  /\ Stops(k) # {}
  /\ IF StopAt(k) = Null THEN UNCHANGED <<items, item, free_items, free_memory>>
     ELSE ItemRemove(Hash[k], PrevOf(k), StopAt(k))
  /\ answer' = {}
  /\ UNCHANGED <<client, fresh, pc, required>>

\* gfc_lru_free asserts that gfc_gc_free knows each item: one that lies in two
\* chains aborts.  The free items and the mutex object are not freed.
Free ==
  /\ pc = "idle"
  /\ pc' = IF \E h \in 0..HashSize-1 :
                \/ Endless(items[h])
                \/ \E g \in 0..h-1 : OnWalk(items[g]) \cap OnWalk(items[h]) # {}
           THEN "aborted" ELSE "freed"
  /\ items' = [h \in 0..HashSize-1 |-> Null]
  /\ item' = [i \in {} |-> NoItem]
  /\ free_items' = Null
  /\ answer' = {}
  /\ UNCHANGED <<client, fresh, free_memory, required>>

Step == Evict \/ Fit

Next ==
  \/ \E k \in Key, v \in Value, n \in Lengths : SetUpdate(k, v, n) \/ SetInsert(k, v, n)
  \/ \E k \in Key : Search(k) \/ Get(k) \/ Remove(k)
  \/ Step \/ Free

Spec == Init /\ [][Next]_vars /\ WF_vars(Step)

-----------------------------------------------------------------------------
Alive == UNION {OnWalk(items[h]) : h \in 0..HashSize-1}

(***************************************************************************)
(* As long as new memory is zeroed, no call of a careful client is caught  *)
(* in a cycle and gfc_lru_free does not abort, because every item ever     *)
(* allocated is in the chain its key hashes to, or in the list of free     *)
(* items, and in one place only: evictions, removals and items used again  *)
(* never let two lists share an item.  With pointers left in new memory,   *)
(* or another client, the lists may run into each other.                   *)
(***************************************************************************)
ListsPartition ==
  Careful =>
    /\ pc \notin {"stuck", "aborted"}
    /\ pc \in {"idle", "fit"} =>
         /\ ~Endless(free_items) /\ \A h \in 0..HashSize-1 : ~Endless(items[h])
         /\ Born = Alive \cup OnWalk(free_items)
         /\ Alive \cap OnWalk(free_items) = {}
         /\ \A h \in 0..HashSize-1 : \A i \in OnWalk(items[h]) :
              item[i].key # Null /\ Hash[item[i].key] = h

(***************************************************************************)
(* free_memory never wraps below zero and between calls is not above the   *)
(* total, whatever the client and whatever malloc left in new memory; for  *)
(* a careful client, as long as new memory is zeroed, it is then the       *)
(* capacity less the lengths of what is cached, after any inserts,         *)
(* updates, evictions and removals.  (A value longer than the whole cache  *)
(* is itself evicted while its set makes room, and its length counted as   *)
(* free.)                                                                  *)
(***************************************************************************)
MemoryBalanced ==
  /\ free_memory >= 0 /\ (pc = "idle" => free_memory <= TotalMemory)
  /\ Careful /\ pc = "idle" =>
       free_memory + MapThenSumSet(LAMBDA i : item[i].len, Alive) = TotalMemory

(***************************************************************************)
(* For a careful client, as long as new memory is zeroed, every set        *)
(* returns and gives the mutex back, and no call is caught in a chain.     *)
(***************************************************************************)
CarefulSetReturns == Careful /\ pc = "fit" ~> pc = "idle"

(***************************************************************************)
(* "remove as many items as necessary to free enough space": a set returns *)
(* and gives the mutex back.                                               *)
(***************************************************************************)
SetReturns == pc = "fit" ~> pc = "idle"

-----------------------------------------------------------------------------
\* The view of a careful client, as long as new memory is zeroed: the items alive, by
\* rank.
Order ==
  LET alive == Alive
  IN  [r \in 1..Cardinality(alive) |->
         item[CHOOSE i \in alive : item[i].rank = r].key]
Entry ==
  LET alive == Alive
  IN  [k \in {item[i].key : i \in alive} |->
         LET i == CHOOSE j \in alive : item[j].key = k
         IN  [value |-> item[i].value, len |-> item[i].len]]

CacheView == INSTANCE LruCache
               WITH order <- IF Careful THEN Order ELSE <<>>,
                    entry <- IF Careful THEN Entry ELSE [k \in {} |-> {}],
                    answer <- IF Careful THEN answer ELSE {},
                    Capacity <- TotalMemory

CacheSpec == CacheView!CacheSpec
=============================================================================
