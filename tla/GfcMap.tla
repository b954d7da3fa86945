------------------------------- MODULE GfcMap -------------------------------
(***************************************************************************)
(* The hash map of src/gfc_map.c: open addressing with chains of at most   *)
(* MAX_CHAIN_LENGTH cells, a table that doubles when it is half full or a  *)
(* chain is exhausted, and a rehash that puts every entry again and may    *)
(* itself have to rehash.  The map has no lock and is modelled for one     *)
(* thread; a put is a machine of its own, because each rehash inside it    *)
(* may find no memory.                                                     *)
(*                                                                         *)
(* A table is a function from 0..n-1 to cells.  The hash of a key is a     *)
(* constant (gfc_map_hash_int reduces it by the table size).  A rehash     *)
(* blanks the upper half of the new table only: the lower half holds what  *)
(* malloc left there (Junk), which is blank while pages come from the      *)
(* system and old entries when the allocator reuses memory.                *)
(***************************************************************************)
EXTENDS Integers, Sequences, FiniteSets

CONSTANTS Key,           \* keys clients use
          EmptyKey,      \* the key "", also the key of a blank cell
          Data,          \* values clients put
          Null,          \* the NULL value
          Hash,          \* hash of each key before the reduction
          InitialSize,   \* INITIAL_SIZE
          MaxChain,      \* MAX_CHAIN_LENGTH
          FullCode,      \* GFC_ERROR_MAP_FULL, 3001
          MaxTable,      \* bound: no table of more cells can be allocated
          MallocMayFail, \* a smaller table may be refused as well
          Junk,          \* cells malloc may leave in a new table
          Clients        \* how the program uses the map, see TheClient

CellOf(u, k, v) == [in_use |-> u, key |-> k, data |-> v]
Blank == CellOf(0, EmptyKey, Null)
Cells == [in_use : 0..2, key : Key, data : Data \cup {Null}]

ASSUME MapHash == Hash \in [Key -> Nat] /\ EmptyKey \in Key
ASSUME MapSizes == InitialSize \in Nat /\ InitialSize >= 2 /\ MaxTable \in Nat
ASSUME MapChain == MaxChain \in Nat \ {0}
ASSUME MapFullCode == FullCode \in Nat
ASSUME MapNull == Null \notin Data
ASSUME MapMayFail == MallocMayFail \in BOOLEAN
ASSUME MapJunk == Junk \subseteq Cells
ASSUME MapClients == Clients \subseteq {"overwriter", "remover", "any"}

VARIABLES client,     \* the kind of client
          pc,         \* "idle", "put", "rehash", "freed"
          key, val,   \* arguments of the put under way, or of the last call
          table_size, \* map->table_size
          size,       \* map->size
          data,       \* map->data
          frames,     \* the rehashes under way, outermost first
          answer      \* what the last call answered

mapVars == <<client, pc, key, val, table_size, size, data, frames, answer>>

\* rc names the return code; pairs are the key and data pointers handed out.
Answer(rc, pairs) == [rc |-> rc, pairs |-> pairs]

\* The d-th cell a search for k looks at in a table of n cells.
Probe(k, d, n) == ((Hash[k] % n) + d) % n
Chain == 0..MaxChain-1

Matches(t, n, k) ==
  {d \in Chain : t[Probe(k, d, n)].in_use = 1 /\ t[Probe(k, d, n)].key = k}
Least(S) == CHOOSE d \in S : \A e \in S : d <= e

\* What gfc_map_get finds: the first match, whatever lies before it.
Lookup(t, n, k) ==
  IF Matches(t, n, k) = {} THEN Null
  ELSE t[Probe(k, Least(Matches(t, n, k)), n)].data

\* gfc_map_hash takes the first cell of the chain that is free or has the key.
\* Mutant: a cell that has the key is not recognised.
Usable_free_only(t, n, k) == {d \in Chain : t[Probe(k, d, n)].in_use = 0}

\* Mutant: the chain is one longer than in gfc_map_get.
Usable_off_by_one(t, n, k) ==
  {d \in 0..MaxChain : t[Probe(k, d, n)].in_use = 0} \cup Matches(t, n, k)

Usable(t, n, k) ==
  {d \in Chain : t[Probe(k, d, n)].in_use = 0} \cup Matches(t, n, k)

\* gfc_map_hash answers GFC_ERROR_MAP_FULL or the first usable cell, in one and the same int: in
\* a table long enough, the cell of that number is taken for a full table.
HashResult ==
  IF size >= table_size \div 2 \/ Usable(data, table_size, key) = {} THEN FullCode
  ELSE Probe(key, Least(Usable(data, table_size, key)), table_size)

Full == HashResult = FullCode

Init ==
  /\ client \in Clients
  /\ pc = "idle"
  /\ key = EmptyKey /\ val = Null
  /\ table_size = InitialSize
  /\ size = 0
  /\ data = [i \in 0..InitialSize-1 |-> Blank]
  /\ frames = <<>>
  /\ answer = Answer("none", {})

\* "overwriter" never removes a key, "remover" puts only keys that are absent.
TheClient(k) == client = "remover" => Lookup(data, table_size, k) = Null

Put(k, v) ==
  /\ pc = "idle"
  /\ TheClient(k)
  /\ pc' = "put"
  /\ key' = k /\ val' = v
  /\ answer' = Answer("none", {})
  /\ UNCHANGED <<client, table_size, size, data, frames>>

Top == frames[Len(frames)]
Below == SubSeq(frames, 1, Len(frames) - 1)

\* The put of line 267 returns: to the client, or to the rehash that called it.
Return ==
  IF frames = <<>>
  THEN pc' = "idle" /\ answer' = Answer("ok", {}) /\ UNCHANGED frames
  ELSE /\ pc' = "rehash"
       /\ frames' = [frames EXCEPT ![Len(frames)].i = @ + 1]
       /\ UNCHANGED answer

Store ==
  /\ pc = "put"
  /\ ~Full
  /\ \E d \in Usable(data, table_size, key) :
       /\ \A e \in Usable(data, table_size, key) : d <= e
       /\ data' = [data EXCEPT ![Probe(key, d, table_size)] = CellOf(1, key, val)]
  /\ size' = size + 1
  /\ Return
  /\ UNCHANGED <<client, key, val, table_size>>

\* Mutant: size is not reset before the entries are put again.
Rehash_size_kept ==
  /\ pc = "put"
  /\ Full
  /\ 2 * table_size <= MaxTable
  /\ \E junk \in [0..table_size-1 -> Junk] :
       data' = [i \in 0..2*table_size-1 |->
                  IF i < table_size THEN junk[i] ELSE Blank]
  /\ frames' = Append(frames,
       [old |-> data, n |-> table_size, i |-> 0, key |-> key, val |-> val])
  /\ table_size' = 2 * table_size
  /\ pc' = "rehash"
  /\ UNCHANGED <<client, key, val, size, answer>>

\* gfc_map_rehash up to its loop.
Rehash ==
  /\ pc = "put"
  /\ Full
  /\ 2 * table_size <= MaxTable
  /\ \E junk \in [0..table_size-1 -> Junk] :
       data' = [i \in 0..2*table_size-1 |->
                  IF i < table_size THEN junk[i] ELSE Blank]
  /\ frames' = Append(frames,
       [old |-> data, n |-> table_size, i |-> 0, key |-> key, val |-> val])
  /\ table_size' = 2 * table_size
  /\ size' = 0
  /\ pc' = "rehash"
  /\ UNCHANGED <<client, key, val, answer>>

\* Mutant: the last cell of the old table is forgotten.
ToPut_off_by_one == {j \in Top.i..Top.n-2 : Top.old[j].in_use # 0}

\* The cells of the old table the loop still has to put.
ToPut == {j \in Top.i..Top.n-1 : Top.old[j].in_use # 0}

\* The loop puts the next cell in use.
RehashPut ==
  /\ pc = "rehash"
  /\ \E j \in ToPut :
       /\ \A e \in ToPut : j <= e
       /\ frames' = [frames EXCEPT ![Len(frames)].i = j]
       /\ key' = Top.old[j].key /\ val' = Top.old[j].data
  /\ pc' = "put"
  /\ UNCHANGED <<client, table_size, size, data, answer>>

\* The loop ends; the put that asked for the rehash hashes its key once more.
RehashDone ==
  /\ pc = "rehash"
  /\ ToPut = {}
  /\ key' = Top.key /\ val' = Top.val
  /\ frames' = Below
  /\ pc' = "put"
  /\ UNCHANGED <<client, table_size, size, data, answer>>

\* Mutant: the put does not give up when the rehash found no memory.
OutOfMemory_retried ==
  /\ pc = "put"
  /\ Full
  /\ MallocMayFail \/ 2 * table_size > MaxTable
  /\ UNCHANGED mapVars

\* malloc answers NULL: the put and every rehash and put that called it return
\* GFC_ERROR_MAP_OUT_OF_MEMORY at once, with the table as it is.
OutOfMemory ==
  /\ pc = "put"
  /\ Full
  /\ MallocMayFail \/ 2 * table_size > MaxTable
  /\ pc' = "idle"
  /\ frames' = <<>>
  /\ answer' = Answer("oom", {})
  /\ UNCHANGED <<client, key, val, table_size, size, data>>

Get(k) ==
  /\ pc = "idle"
  /\ answer' = IF Matches(data, table_size, k) = {} THEN Answer("missing", {})
               ELSE Answer("found", {<<k, Lookup(data, table_size, k)>>})
  /\ key' = k /\ val' = Null
  /\ UNCHANGED <<client, pc, table_size, size, data, frames>>

\* gfc_map_iterate passes the callback every cell whose key is not "", up to
\* the cell at which the callback answers an error.
Visited(last) ==
  {<<data[i].key, data[i].data>> : i \in {j \in 0..last : data[j].key # EmptyKey}}

Iterate ==
  /\ pc = "idle"
  /\ IF size <= 0 THEN answer' = Answer("missing", {})
     ELSE \/ answer' = Answer("iterated", Visited(table_size - 1))
          \/ \E i \in 0..table_size-1 :
               data[i].key # EmptyKey /\ answer' = Answer("refused", Visited(i))
  /\ UNCHANGED <<client, pc, key, val, table_size, size, data, frames>>

\* Mutant: size goes down although nothing was removed.
Remove_always_counted(k) ==
  /\ pc = "idle"
  /\ client # "overwriter"
  /\ IF Matches(data, table_size, k) = {}
     THEN answer' = Answer("missing", {}) /\ UNCHANGED data
     ELSE /\ \E d \in Matches(data, table_size, k) :
               /\ \A e \in Matches(data, table_size, k) : d <= e
               /\ data' = [data EXCEPT ![Probe(k, d, table_size)] = Blank]
          /\ answer' = Answer("removed", {})
  /\ size' = size - 1
  /\ key' = k /\ val' = Null
  /\ UNCHANGED <<client, pc, table_size, frames>>

Remove(k) ==
  /\ pc = "idle"
  /\ client # "overwriter"
  /\ IF Matches(data, table_size, k) = {}
     THEN answer' = Answer("missing", {}) /\ UNCHANGED <<size, data>>
     ELSE /\ \E d \in Matches(data, table_size, k) :
               /\ \A e \in Matches(data, table_size, k) : d <= e
               /\ data' = [data EXCEPT ![Probe(k, d, table_size)] = Blank]
          /\ size' = size - 1
          /\ answer' = Answer("removed", {})
  /\ key' = k /\ val' = Null
  /\ UNCHANGED <<client, pc, table_size, frames>>

\* gfc_map_free; gfc_map_deep_free when something is in the map.
Release ==
  /\ pc' = "freed"
  /\ table_size' = 0
  /\ size' = 0
  /\ data' = [i \in {} |-> Blank]
  /\ answer' = Answer("freed", {})
  /\ UNCHANGED <<client, key, val, frames>>

MapFree == pc = "idle" /\ Release

\* gfc_map_deep_free of an empty map returns and frees nothing.
DeepFree ==
  /\ pc = "idle"
  /\ IF size <= 0 THEN UNCHANGED mapVars ELSE Release

Step == Store \/ Rehash \/ RehashPut \/ RehashDone \/ OutOfMemory

Next ==
  \/ \E k \in Key, v \in Data : Put(k, v)
  \/ \E k \in Key : Get(k) \/ Remove(k)
  \/ Iterate \/ MapFree \/ DeepFree
  \/ Step

Spec == Init /\ [][Next]_mapVars /\ WF_mapVars(Step)

-----------------------------------------------------------------------------
TypeOK ==
  /\ client \in Clients
  /\ pc \in {"idle", "put", "rehash", "freed"}
  /\ key \in Key /\ val \in Data \cup {Null}
  /\ table_size \in Nat
  /\ size \in 0..(table_size \div 2)
  /\ data \in [0..table_size-1 -> Cells]
  /\ \A f \in 1..Len(frames) :
       /\ frames[f].n \in Nat /\ frames[f].i \in 0..frames[f].n
       /\ frames[f].old \in [0..frames[f].n-1 -> Cells]
       /\ frames[f].key \in Key
       /\ frames[f].val \in Data \cup {Null}

(***************************************************************************)
(* A put that answered GFC_ERROR_MAP_OK is seen by the next get of its     *)
(* key, through any rehash it took, with holes in the chain, with several  *)
(* cells that have the key and with junk in the table.                     *)
(***************************************************************************)
ReadYourPut ==
  pc = "idle" /\ answer.rc = "ok" => Lookup(data, table_size, key) = val

(***************************************************************************)
(* Every entry lies within MAX_CHAIN_LENGTH cells of its hash in the table *)
(* of the current size, so get and remove can reach it, and size counts at *)
(* least the entries (it counts an overwritten one twice), so a table that *)
(* is not full by size has free cells.                                     *)
(***************************************************************************)
Reachable ==
  /\ \A i \in 0..table_size-1 : data[i].in_use # 0 =>
       \E d \in Chain : Probe(data[i].key, d, table_size) = i
  /\ Cardinality({i \in 0..table_size-1 : data[i].in_use # 0}) <= size

(***************************************************************************)
(* "Gets the size of map": for a client that never puts a key that is      *)
(* present, gfc_map_size answers the number of keys, whatever was removed  *)
(* and rehashed.                                                           *)
(***************************************************************************)
SizeIsKeys ==
  client = "remover" /\ pc = "idle" =>
    size = Cardinality({k \in Key : Lookup(data, table_size, k) # Null})

(***************************************************************************)
(* "Remove an element with that key from the map": a key that was removed  *)
(* is not there.                                                           *)
(***************************************************************************)
RemovedIsGone ==
  pc = "idle" /\ answer.rc = "removed" => Lookup(data, table_size, key) = Null

(***************************************************************************)
(* A put returns: whatever chains collide, the rehashes it starts end, for *)
(* there is room or there is no memory for a larger table.  The second is  *)
(* all that ends the put of a key whose free cell is number 3001 in every  *)
(* table from some size on, for gfc_map_hash answers that number for a     *)
(* full table too: the put then takes all memory and answers               *)
(* GFC_ERROR_MAP_OUT_OF_MEMORY with a table almost empty.                  *)
(***************************************************************************)
PutReturns == pc \in {"put", "rehash"} ~> pc = "idle"

-----------------------------------------------------------------------------
\* The clients' view: during a rehash, the table it started from.
Contents ==
  IF frames = <<>> THEN [k \in Key |-> Lookup(data, table_size, k)]
  ELSE [k \in Key |-> Lookup(frames[1].old, frames[1].n, k)]

DictView == INSTANCE Dictionary WITH Absent <- Null,
              dict <- IF pc = "freed" THEN [k \in Key |-> Null] ELSE Contents

DictSpec == DictView!DictSpec
=============================================================================
