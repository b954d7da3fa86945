------------------------------ MODULE LruCache ------------------------------
(***************************************************************************)
(* What an LRU cache promises: it holds the values set last, within its    *)
(* capacity, and makes room by dropping the entry whose last use is the    *)
(* oldest.                                                                 *)
(***************************************************************************)
EXTENDS Integers, FiniteSetsExt, SequencesExt

CONSTANTS Key, Value, Lengths,
          Capacity   \* bytes of values

VARIABLES order,  \* the keys in the cache, the least recently used first
          entry,  \* value and length of each key in the cache
          answer  \* what the last call handed out: the set of values found

lruVars == <<order, entry, answer>>

Cached == {order[i] : i \in 1..Len(order)}
Weight == MapThenSumSet(LAMBDA k : entry[k].len, Cached)
Fits == Weight <= Capacity

Place(k) == CHOOSE i \in 1..Len(order) : order[i] = k
Without(k) == IF k \in Cached THEN RemoveAt(order, Place(k)) ELSE order
Only(S) == [k \in S |-> entry[k]]

CacheInit ==
  /\ order = <<>>
  /\ entry = [k \in {} |-> {}]
  /\ answer = {}

\* The new entry may exceed the capacity until enough old ones are dropped.
CacheSet(k) ==
  /\ answer' = {}
  /\ order' = Append(Without(k), k)
  /\ Fits
  /\ DOMAIN entry' = Cached \cup {k}
  /\ entry'[k] \in [value : Value, len : Lengths]
  /\ \A x \in Cached \ {k} : entry'[x] = entry[x]

CacheEvict ==
  /\ ~Fits
  /\ order' = Tail(order)
  /\ entry' = Only(Cached \ {Head(order)})
  /\ UNCHANGED answer

CacheGet(k) ==
  /\ Fits
  /\ IF k \in Cached
     THEN order' = Append(Without(k), k) /\ answer' = {entry[k].value}
     ELSE UNCHANGED order /\ answer' = {}
  /\ UNCHANGED entry

CacheRemove(k) ==
  /\ Fits
  /\ order' = Without(k)
  /\ entry' = Only(Cached \ {k})
  /\ answer' = {}

CacheFree ==
  /\ order' = <<>>
  /\ entry' = [k \in {} |-> {}]
  /\ answer' = {}

CacheNext ==
  \/ \E k \in Key : CacheSet(k) \/ CacheGet(k) \/ CacheRemove(k)
  \/ CacheEvict \/ CacheFree

CacheSpec == CacheInit /\ [][CacheNext]_lruVars
=============================================================================
