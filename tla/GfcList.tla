------------------------------- MODULE GfcList -------------------------------
(***************************************************************************)
(* The growing array of src/gfc_list.c, beside the sequence of elements    *)
(* its program has put and not removed.  The table of pointers is one      *)
(* block, which gfc_gc_realloc is taken to enlarge without failing: the    *)
(* code stores NULL otherwise, and the next call dereferences it.  An      *)
(* empty list is not sorted: size - 1 is unsigned, and the loop reads far  *)
(* behind the table.                                                       *)
(***************************************************************************)
EXTENDS Integers, Sequences, SequencesExt

CONSTANTS Item,          \* elements a program appends
          NoItem,        \* the NULL pointer
          Increment,     \* INCREMENTAL_CAPACITY
          MaxElements    \* bound: elements in a list

ASSUME ListSizes == Increment \in Nat \ {0} /\ MaxElements \in Nat
ASSUME ListNull == NoItem \notin Item

VARIABLES size, capacity,
          pointers,   \* the table, of no places once the list is freed
          inside,     \* every access so far was within the table
          got,        \* what the last gfc_list_get answered
          content     \* the elements put and not removed

listVars == <<size, capacity, pointers, inside, got, content>>

ListInit ==
  /\ size = 0
  /\ capacity = Increment
  /\ pointers = [i \in 0..Increment-1 |-> NoItem]
  /\ inside = TRUE
  /\ got = NoItem
  /\ content = <<>>

\* A program does not use a list it has freed.
Usable == pointers # <<>>

\* Mutant: the table grows one element late.
Grows_late == size = capacity

Grows == size + 1 = capacity

ListAppend(d) ==
  /\ Usable
  /\ Len(content) < MaxElements
  /\ size' = size + 1
  /\ capacity' = IF Grows THEN capacity + Increment ELSE capacity
  /\ pointers' = [i \in 0..capacity'-1 |->
                    IF i = size THEN d
                    ELSE IF i \in DOMAIN pointers THEN pointers[i] ELSE NoItem]
  /\ inside' = (inside /\ size \in DOMAIN pointers)
  /\ content' = Append(content, d)
  /\ UNCHANGED got

\* The table after k removals at index n.
\* Mutant: the last element is not moved.
Closed_short(n, k) ==
  [i \in DOMAIN pointers |->
     IF i < n \/ i >= size THEN pointers[i]
     ELSE IF i + k < size - 1 THEN pointers[i + k] ELSE NoItem]

Closed(n, k) ==
  [i \in DOMAIN pointers |->
     IF i < n \/ i >= size THEN pointers[i]
     ELSE IF i + k < size THEN pointers[i + k] ELSE NoItem]

ListRemove(n) ==
  /\ Usable
  /\ IF n >= size THEN UNCHANGED <<size, pointers, inside, content>>
     ELSE /\ size' = size - 1
          /\ pointers' = Closed(n, 1)
          /\ inside' = (inside /\ size - 1 \in DOMAIN pointers)
          /\ content' = RemoveAt(content, n + 1)
  /\ UNCHANGED <<capacity, got>>

ListGet(n) ==
  /\ Usable
  /\ got' = IF n >= size THEN NoItem ELSE pointers[n]
  /\ UNCHANGED <<size, capacity, pointers, inside, content>>

\* The loop compares pairs and exchanges none of them.
ListSort ==
  /\ Usable
  /\ size > 0
  /\ UNCHANGED listVars

\* The loop counts up while size goes down and meets it half way; then size is
\* set to zero.
ListClear ==
  /\ Usable
  /\ pointers' = Closed(0, (size + 1) \div 2)
  /\ size' = 0
  /\ content' = <<>>
  /\ UNCHANGED <<capacity, inside, got>>

\* gfc_list_free, and gfc_list_deep_free, which frees the elements as well.
ListFree ==
  /\ Usable
  /\ pointers' = <<>>
  /\ content' = <<>>
  /\ size' = 0
  /\ got' = NoItem
  /\ UNCHANGED <<capacity, inside>>

ListNext ==
  \/ \E d \in Item : ListAppend(d)
  \/ \E n \in 0..MaxElements : ListRemove(n) \/ ListGet(n)
  \/ ListSort \/ ListClear \/ ListFree

ListSpec == ListInit /\ [][ListNext]_listVars

-----------------------------------------------------------------------------
\* After any calls the table holds the elements put and not removed, in the order in which they
\* were put, across growth, removals and clears; and no append or removal touched a place behind
\* the table.
ListHolds ==
  /\ inside
  /\ Usable => /\ size = Len(content)
               /\ \A i \in 1..Len(content) : i - 1 \in DOMAIN pointers
                                             /\ pointers[i-1] = content[i]
=============================================================================
