-------------------------------- MODULE Heap --------------------------------
(***************************************************************************)
(* What gfc_gc promises its clients: blocks that do not overlap, freed and *)
(* resized by the pointer that was handed out, and a running total of the  *)
(* bytes that are out.  GfcGc refines it as long as no slot is lost.       *)
(***************************************************************************)
EXTENDS Integers

CONSTANTS Addr,   \* addresses
          Sizes   \* sizes in bytes, all positive

VARIABLES blocks,   \* size of the client's block at each address, 0 if none
          reported, \* what gfc_gc_total answers
          found     \* the last free or realloc recognised its pointer

heapVars == <<blocks, reported, found>>

HeapInit ==
  /\ blocks = [a \in Addr |-> 0]
  /\ reported = 0
  /\ found = TRUE

\* A client gets a block, or the system has no memory left.
Allocate(a, n) ==
  /\ blocks[a] = 0
  /\ blocks' = [blocks EXCEPT ![a] = n]
  /\ reported' = reported + n
  /\ found' = TRUE

\* The block moves to address b, or grows in place.
Resize(a, b, n) ==
  /\ blocks[a] # 0
  /\ b = a \/ blocks[b] = 0
  /\ blocks' = [blocks EXCEPT ![a] = 0, ![b] = n]
  /\ reported' = reported + n - blocks[a]
  /\ found' = TRUE

Release(a) ==
  /\ blocks[a] # 0
  /\ blocks' = [blocks EXCEPT ![a] = 0]
  /\ reported' = reported - blocks[a]
  /\ found' = TRUE

\* A pointer that is not a block is refused and nothing changes.
Refuse ==
  /\ found' = FALSE
  /\ UNCHANGED <<blocks, reported>>

Accept ==
  /\ found' = TRUE
  /\ UNCHANGED <<blocks, reported>>

\* The tracker is closed and forgets the blocks.
Forget ==
  /\ blocks' = [a \in Addr |-> 0]
  /\ reported' = 0
  /\ found' = TRUE

HeapNext ==
  \/ \E a \in Addr, n \in Sizes : Allocate(a, n)
  \/ \E a, b \in Addr, n \in Sizes : Resize(a, b, n)
  \/ \E a \in Addr : Release(a)
  \/ \E a \in Addr : blocks[a] = 0 /\ Refuse
  \/ Accept \/ Forget

HeapSpec == HeapInit /\ [][HeapNext]_heapVars
=============================================================================
