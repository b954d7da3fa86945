------------------------------- MODULE GfcRing -------------------------------
(***************************************************************************)
(* The ring buffer of gfc_ring.c.  Its table is allocated with room for    *)
(* Capacity pointers, but its items are three pointers long, so that only  *)
(* the data of the first third of them lie in the block.  What is behind   *)
(* it is malloc's, which may put anything there.  A write or read behind   *)
(* the block, or a free of something that is no block, may end the         *)
(* process; or nothing is noticed and the program goes on.                 *)
(***************************************************************************)
EXTENDS Integers, Sequences

CONSTANTS
  Capacity,      \* the count gfc_ring_new is given
  Datum,         \* what a program pushes
  Nothing,       \* NULL
  MaxPushes      \* bound: calls of gfc_ring_push

ASSUME RingAssumption == Capacity \in Nat \ {0} /\ Nothing \notin Datum /\ MaxPushes \in Nat

VARIABLES
  head,          \* the data of the items
  setter,        \* the item the next push writes
  getter,        \* the item the next pop reads, or Invalid
  alive,         \* has nothing ended the process, or freed the ring?
  pushed,        \* every datum that was pushed since the ring was new or cleared
  popped,        \* how many were popped since the ring was last empty
  emptied        \* has the ring been empty after a pop?

ringVars == <<head, setter, getter, alive, pushed, popped, emptied>>

Invalid == -1
Cells == 0..(Capacity - 1)

\* Does the data field of item i, the first of its three pointers, lie in the block?
InBlock(i) == 3 * i + 1 <= Capacity

\* malloc leaves anything in the items.
RingInit ==
  /\ \E junk \in Datum \cup {Nothing} : head = [i \in Cells |-> junk]
  /\ setter = 0 /\ getter = Invalid /\ alive = TRUE
  /\ pushed = <<>> /\ popped = 0 /\ emptied = FALSE

\* Where getter is put by the first push into an empty ring.
FirstItem == 0

\* Mutant: the setter wraps one item early.
NextSetter_early == IF setter + 2 >= Capacity THEN 0 ELSE setter + 1

NextSetter == IF setter + 1 = Capacity THEN 0 ELSE setter + 1

\* A push looks at the setter only: in a full ring it overwrites the oldest datum.
RingPush(data) ==
  /\ alive /\ Len(pushed) < MaxPushes
  /\ alive' \in {TRUE, InBlock(setter)}
  /\ head' = [head EXCEPT ![setter] = data]
  /\ setter' = NextSetter
  /\ getter' = IF getter = Invalid THEN FirstItem ELSE getter
  /\ pushed' = Append(pushed, data)
  /\ UNCHANGED <<popped, emptied>>

\* The getter is compared with the setter but never wraps.
RingPop ==
  /\ alive /\ getter # Invalid
  /\ getter < 2 * Capacity                      \* bound
  /\ alive' \in {TRUE, InBlock(getter)}
  /\ getter' = IF getter + 1 = setter THEN Invalid ELSE getter + 1
  /\ popped' = IF getter' = Invalid THEN 0 ELSE popped + 1
  /\ emptied' = (emptied \/ getter' = Invalid)
  /\ UNCHANGED <<head, setter, pushed>>

\* gfc_ring_clear hands every item whose datum is not NULL to free: the first is the table itself, any
\* other is no block.  What the ring does after either is not defined.
RingClear ==
  /\ alive
  /\ alive' = \A i \in Cells : head[i] = Nothing
  /\ setter' = 0 /\ getter' = Invalid
  /\ pushed' = <<>> /\ popped' = 0 /\ emptied' = FALSE
  /\ UNCHANGED head

\* gfc_ring_free clears the ring and frees the handle.
RingFree ==
  /\ alive /\ alive' = FALSE
  /\ setter' = 0 /\ getter' = Invalid
  /\ pushed' = <<>> /\ popped' = 0 /\ emptied' = FALSE
  /\ UNCHANGED head

\* The memory behind the block is another's, who writes there.
RingOverwritten(i) ==
  /\ alive /\ ~InBlock(i)
  /\ \E other \in Datum \cup {Nothing} : head' = [head EXCEPT ![i] = other]
  /\ UNCHANGED <<setter, getter, alive, pushed, popped, emptied>>

RingNext ==
  \/ \E data \in Datum : RingPush(data)
  \/ \E i \in Cells : RingOverwritten(i)
  \/ RingPop \/ RingClear \/ RingFree

RingSpec == RingInit /\ [][RingNext]_ringVars

-------------------------------------------------------------------------------
(* Properties *)

\* The item that was written n pushes before the last one.
Written(n) == IF n < setter THEN setter - 1 - n ELSE setter - 1 - n + Capacity

(***************************************************************************)
(* Of the last Capacity data pushed each is still in its item, as far as   *)
(* that lies in the block; and as many items as were popped since the ring *)
(* was last empty are behind the getter, counted from the first item of    *)
(* the table.  So the ring is a queue until it is first emptied, the push  *)
(* after that brings back everything from the very first item on, and of a *)
(* ring that was pushed full the oldest datum comes out as the one that    *)
(* took its place.                                                         *)
(***************************************************************************)
RingReplays ==
  alive =>
    /\ setter \in Cells /\ \E round \in 0..Len(pushed) : Len(pushed) = round * Capacity + setter
    /\ \A n \in Cells : n < Len(pushed) /\ InBlock(Written(n)) =>
         head[Written(n)] = pushed[Len(pushed) - n]
    /\ getter # Invalid => getter = popped
    /\ getter = Invalid => popped = 0 /\ (emptied \/ pushed = <<>>)
===============================================================================
