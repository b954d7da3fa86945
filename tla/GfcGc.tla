------------------------------- MODULE GfcGc --------------------------------
(***************************************************************************)
(* The allocation tracker of src/gfc_gc.c: a bitmap of slots in use and a  *)
(* table of {ptr, size, len, total, ts} cells, kept beside the libc heap.  *)
(* It is modelled for one thread at a time, as its interface demands: it   *)
(* has no lock.                                                            *)
(*                                                                         *)
(* A slot is a number; slot i is bit i % 8 of byte i \div 8, bit 0 being   *)
(* the mask 0b10000000.  Of a cell only ptr and total are ever read back.  *)
(* The width of a byte, 8 in the code, is a constant, so that tables of    *)
(* several bytes can be small.                                             *)
(*                                                                         *)
(* When the table grows, one of its new cells is written.  The others hold *)
(* whatever realloc left there, which may be the address of a block, and   *)
(* the zero byte meant for the bitmap (line 192) falls behind it, on some  *)
(* cell of the table or on nothing the tracker reads.  (What that byte may *)
(* do to the data of clients, to gc_ctx itself or to libc is left out.)    *)
(* Which cells the tracker wrote itself is recorded beside the table, in a *)
(* variable the code does not have.  gfc_gc_close leaves gc_ctx dangling,  *)
(* so nothing may be called after it.                                      *)
(***************************************************************************)
EXTENDS Integers, FiniteSets

CONSTANTS Addr,           \* addresses libc may hand out
          Null,           \* the NULL pointer
          Wild,           \* a pointer value that is no block of the heap
          Sizes,          \* byte sizes clients ask for
          SizeMax,        \* largest size_t
          ByteLength,     \* bits of a byte of the bitmap, 8 in the code
          WrongCase,      \* the bit whose case clears bit 0 too, 6 in the code
          IncCount,       \* GFC_GC_INC_COUNT
          Junk,           \* what realloc may leave in the new cells behind the first
          Spoil(_),       \* what a zeroed byte may make of a cell
          MaxLen,         \* bound: slots of the table
          Unresizable,    \* addresses of blocks that realloc of libc may fail to resize
          Pick(_)         \* the free addresses libc chooses from

ASSUME GcNull == Null \notin Addr /\ Wild \notin Addr \cup {Null}
ASSUME GcSizes == SizeMax \in Nat /\ Sizes \subseteq 1..SizeMax
ASSUME GcBytes == ByteLength \in Nat \ {0} /\ WrongCase \in 0..ByteLength-1
ASSUME GcIncCount == IncCount \in Nat \ {0} /\ IncCount % ByteLength = 0
ASSUME GcMaxLen == MaxLen \in Nat
ASSUME GcUnresizable == Unresizable \subseteq Addr
ASSUME GcPick == \A S \in SUBSET Addr : Pick(S) \subseteq S

AnyCell == [ptr : Addr \cup {Null, Wild}, total : 0..SizeMax]

ASSUME GcJunk == Junk \subseteq [1..IncCount-1 -> AnyCell]
ASSUME GcSpoil == \A cell \in AnyCell : Spoil(cell) \subseteq AnyCell

VARIABLES ctx,    \* gc_ctx: "null", "ready", "closed"; "aborted" after an assert
          len,    \* gc_ctx->len, the number of slots
          bits,   \* the bitmap: 1 for a slot in use
          ptrs,   \* the cell of each slot
          total,  \* gc_ctx->total
          heap,   \* the libc heap: size of the block at each address, 0 if none
          held,   \* pointers the clients have and may still use
          rc,     \* what the last call answered
          writer, \* what wrote each cell last: "tracker", "realloc" or the "stray" byte
          misled  \* has a search ended at a cell the tracker had not written?

gcVars == <<ctx, len, bits, ptrs, total, heap, held, rc, writer, misled>>

Cell(p, n) == [ptr |-> p, total |-> n]
NoCell == Cell(Null, 0)

\* size_t arithmetic.
Wrap(x) == IF x < 0 THEN x + SizeMax + 1
           ELSE IF x > SizeMax THEN x - SizeMax - 1 ELSE x

FreeAddr == {a \in Addr : heap[a] = 0}

\* The first 0 bit of the first byte that has one; the slot past the table
\* when all bytes are 0b11111111.
FirstFree ==
  LET zero == {i \in 0..len-1 : bits[i] = 0}
  IN  IF zero = {} THEN len ELSE CHOOSE i \in zero : \A k \in zero : i <= k

Slots(p) == {i \in 0..len-1 : ptrs[i].ptr = p}

\* The linear search of gfc_gc_free and gfc_gc_realloc stops at the first match.
SlotOf(p) == CHOOSE i \in Slots(p) : \A k \in Slots(p) : i <= k

\* The bits of its byte that gfc_gc_free clears for bit position b: the mask
\* of case 6 is 0b01111101.
\* Mutant: another case of the switch has a wrong mask.
Cleared_case_1(b) == IF b \in {1, WrongCase} THEN {0, b} ELSE {b}

Cleared(b) == IF b = WrongCase THEN {0, b} ELSE {b}

Init ==
  /\ ctx = "null"
  /\ len = 0
  /\ bits = [i \in {} |-> 0]
  /\ ptrs = [i \in {} |-> NoCell]
  /\ total = 0
  /\ heap = [a \in Addr |-> 0]
  /\ held = {}
  /\ rc = "none"
  /\ writer = [i \in {} |-> "tracker"]
  /\ misled = FALSE

GcInit ==
  /\ ctx = "null"
  /\ ctx' = "ready"
  /\ len' = IncCount
  /\ bits' = [i \in 0..IncCount-1 |-> 0]
  /\ ptrs' = [i \in 0..IncCount-1 |-> NoCell]
  /\ total' = 0
  /\ writer' = [i \in 0..IncCount-1 |-> "tracker"]
  /\ UNCHANGED <<heap, held, rc, misled>>

\* The tables go, the blocks of the clients stay behind.
GcClose ==
  /\ ctx = "ready"
  /\ ctx' = "closed"
  /\ len' = 0
  /\ bits' = [i \in {} |-> 0]
  /\ ptrs' = [i \in {} |-> NoCell]
  /\ total' = 0
  /\ held' = {}
  /\ rc' = "none"
  /\ writer' = [i \in {} |-> "tracker"]
  /\ UNCHANGED <<heap, misled>>

\* gc_ctx == NULL, no memory, an empty string for gfc_gc_dup, a NULL pointer
\* for gfc_gc_realloc: the answer is NULL.
NullAnswer ==
  /\ ctx \in {"null", "ready"}
  /\ rc' = "null"
  /\ UNCHANGED <<ctx, len, bits, ptrs, total, heap, held, writer, misled>>

\* What every successful gfc_gc_malloc does beside the tables.
Obtain(a, n) ==
  /\ heap' = [heap EXCEPT ![a] = n]
  /\ held' = held \cup {a}
  /\ total' = Wrap(total + n)
  /\ rc' = "ok"
  /\ UNCHANGED <<ctx, misled>>

\* gfc_gc_malloc with a slot free.
Malloc(a, n) ==
  /\ ctx = "ready"
  /\ FirstFree < len
  /\ Obtain(a, n)
  /\ bits' = [bits EXCEPT ![FirstFree] = 1]
  /\ ptrs' = [ptrs EXCEPT ![FirstFree] = Cell(a, n)]
  /\ writer' = [writer EXCEPT ![FirstFree] = "tracker"]
  /\ UNCHANGED len

\* The bitmap after growing: the byte of the first new slot is 0b10000000,
\* the bytes behind it are as realloc left them.
GrownBits(rest) ==
  [i \in 0..len+IncCount-1 |->
     IF i < len THEN bits[i]
     ELSE IF i = len THEN 1
     ELSE IF i < len + ByteLength THEN 0 ELSE rest[i]]

\* The new slots whose bits are not assigned.
LeftBits == len + ByteLength .. len + IncCount - 1

\* The cells in use, with one of them hit by the stray byte or none.
Struck == {ptrs} \cup
  UNION {{[ptrs EXCEPT ![i] = cell] : cell \in Spoil(ptrs[i])} : i \in 0..len-1}

\* gfc_gc_malloc with the table full: it grows by GFC_GC_INC_COUNT slots.
MallocGrow(a, n) ==
  /\ ctx = "ready"
  /\ FirstFree = len
  /\ len + IncCount <= MaxLen                    \* bound
  /\ Obtain(a, n)
  /\ len' = len + IncCount
  /\ \E rest \in [LeftBits -> {0, 1}] : bits' = GrownBits(rest)
  /\ \E junk \in Junk, table \in Struck :
       /\ ptrs' = [i \in 0..len+IncCount-1 |->
                    IF i < len THEN table[i]
                    ELSE IF i = len THEN Cell(a, n) ELSE junk[i - len]]
       /\ writer' = [i \in 0..len+IncCount-1 |->
                      IF i < len THEN IF table[i] = ptrs[i] THEN writer[i] ELSE "stray"
                      ELSE IF i = len THEN "tracker" ELSE "realloc"]

\* A search for p has ended at a cell, which the call writes.
CellWritten(p) ==
  /\ misled' = (misled \/ writer[SlotOf(p)] # "tracker")
  /\ writer' = [writer EXCEPT ![SlotOf(p)] = "tracker"]

\* Mutant: the difference in size is not added to the total.
Realloc_untotalled(p, a, n) ==
  /\ ctx = "ready"
  /\ Slots(p) # {}
  /\ heap' = [heap EXCEPT ![p] = 0, ![a] = n]
  /\ held' = (held \ {p}) \cup {a}
  /\ ptrs' = [ptrs EXCEPT ![SlotOf(p)] = Cell(a, n)]
  /\ rc' = "ok"
  /\ CellWritten(p)
  /\ UNCHANGED <<ctx, len, bits, total>>

\* Mutant: the cell keeps the old pointer.
Realloc_ptr_kept(p, a, n) ==
  /\ ctx = "ready"
  /\ Slots(p) # {}
  /\ heap' = [heap EXCEPT ![p] = 0, ![a] = n]
  /\ held' = (held \ {p}) \cup {a}
  /\ total' = Wrap(total + n - ptrs[SlotOf(p)].total)
  /\ ptrs' = [ptrs EXCEPT ![SlotOf(p)].total = n]
  /\ rc' = "ok"
  /\ CellWritten(p)
  /\ UNCHANGED <<ctx, len, bits>>

\* gfc_gc_realloc, libc having moved the block to a or left it there.
Realloc(p, a, n) ==
  /\ ctx = "ready"
  /\ Slots(p) # {}
  /\ heap' = [heap EXCEPT ![p] = 0, ![a] = n]
  /\ held' = (held \ {p}) \cup {a}
  /\ total' = Wrap(total + n - ptrs[SlotOf(p)].total)
  /\ ptrs' = [ptrs EXCEPT ![SlotOf(p)] = Cell(a, n)]
  /\ rc' = "ok"
  /\ CellWritten(p)
  /\ UNCHANGED <<ctx, len, bits>>

\* libc could not resize: the block stays, its cell is overwritten all the same.
ReallocNull(p, n) ==
  /\ ctx = "ready"
  /\ p \in Unresizable
  /\ Slots(p) # {}
  /\ total' = Wrap(total + n - ptrs[SlotOf(p)].total)
  /\ ptrs' = [ptrs EXCEPT ![SlotOf(p)] = Cell(Null, n)]
  /\ rc' = "null"
  /\ CellWritten(p)
  /\ UNCHANGED <<ctx, len, bits, heap, held>>

\* No cell has the pointer: "never be here if correct", assert(1 == 0).
ReallocAssert(p) ==
  /\ ctx = "ready"
  /\ Slots(p) = {}
  /\ ctx' = "aborted"
  /\ rc' = "assert"
  /\ UNCHANGED <<len, bits, ptrs, total, heap, held, writer, misled>>

\* Mutant: the bit is not cleared.
Free_bit_kept(p) ==
  /\ ctx = "ready"
  /\ Slots(p) # {}
  /\ total' = Wrap(total - ptrs[SlotOf(p)].total)
  /\ ptrs' = [ptrs EXCEPT ![SlotOf(p)] = NoCell]
  /\ heap' = [heap EXCEPT ![p] = 0]
  /\ held' = held \ {p}
  /\ rc' = IF heap[p] = 0 THEN "double_free" ELSE "ok"
  /\ CellWritten(p)
  /\ UNCHANGED <<ctx, len, bits>>

\* Mutant: the cell keeps the pointer.
Free_ptr_kept(p) ==
  /\ ctx = "ready"
  /\ Slots(p) # {}
  /\ total' = Wrap(total - ptrs[SlotOf(p)].total)
  /\ bits' = [i \in 0..len-1 |->
                IF /\ i \div ByteLength = SlotOf(p) \div ByteLength
                   /\ i % ByteLength \in Cleared(SlotOf(p) % ByteLength)
                THEN 0 ELSE bits[i]]
  /\ ptrs' = [ptrs EXCEPT ![SlotOf(p)] = Cell(p, 0)]
  /\ heap' = [heap EXCEPT ![p] = 0]
  /\ held' = held \ {p}
  /\ rc' = IF heap[p] = 0 THEN "double_free" ELSE "ok"
  /\ CellWritten(p)
  /\ UNCHANGED <<ctx, len>>

\* gfc_gc_free of a pointer some cell has; libc aborts if it has no such block.
Free(p) ==
  /\ ctx = "ready"
  /\ Slots(p) # {}
  /\ total' = Wrap(total - ptrs[SlotOf(p)].total)
  /\ bits' = [i \in 0..len-1 |->
                IF /\ i \div ByteLength = SlotOf(p) \div ByteLength
                   /\ i % ByteLength \in Cleared(SlotOf(p) % ByteLength)
                THEN 0 ELSE bits[i]]
  /\ ptrs' = [ptrs EXCEPT ![SlotOf(p)] = NoCell]
  /\ heap' = [heap EXCEPT ![p] = 0]
  /\ held' = held \ {p}
  /\ rc' = IF heap[p] = 0 THEN "double_free" ELSE "ok"
  /\ CellWritten(p)
  /\ UNCHANGED <<ctx, len>>

FreeNotFound(p) ==
  /\ ctx = "ready"
  /\ Slots(p) = {}
  /\ rc' = "not_found"
  /\ UNCHANGED <<ctx, len, bits, ptrs, total, heap, held, writer, misled>>

FreeNull ==
  /\ ctx = "ready"
  /\ rc' = "is_null"
  /\ UNCHANGED <<ctx, len, bits, ptrs, total, heap, held, writer, misled>>

\* Clients resize only what they hold; they may free any pointer.
Next ==
  \/ GcInit \/ GcClose \/ NullAnswer \/ FreeNull
  \/ \E a \in Pick(FreeAddr), n \in Sizes : Malloc(a, n) \/ MallocGrow(a, n)
  \/ \E p \in held, n \in Sizes :
       \/ \E a \in Pick(FreeAddr \cup {p}) : Realloc(p, a, n)
       \/ ReallocNull(p, n)
  \/ \E p \in held : ReallocAssert(p)
  \/ \E p \in Addr : Free(p) \/ FreeNotFound(p)

Spec == Init /\ [][Next]_gcVars

-----------------------------------------------------------------------------
TypeOK ==
  /\ ctx \in {"null", "ready", "closed", "aborted"}
  /\ len \in Nat /\ len % ByteLength = 0
  /\ bits \in [0..len-1 -> {0, 1}]
  /\ ptrs \in [0..len-1 -> AnyCell]
  /\ total \in 0..SizeMax
  /\ heap \in [Addr -> {0} \cup Sizes]
  /\ held \subseteq Addr
  /\ rc \in {"none", "ok", "null", "not_found", "is_null", "double_free", "assert"}
  /\ writer \in [0..len-1 -> {"tracker", "realloc", "stray"}]
  /\ misled \in BOOLEAN

\* The cells that hold what the tracker wrote there.
Own == {i \in 0..len-1 : writer[i] = "tracker"}

\* Slots of a growth behind its first byte: the code leaves their bits as realloc left them.
Unzeroed(i) == i >= IncCount /\ i % IncCount >= ByteLength

(***************************************************************************)
(* As long as no search has ended at a cell the tracker had not written, a *)
(* pointer the tracker wrote into its table is a block of the libc heap,   *)
(* held by a client and recorded with its size, and in one such cell only, *)
(* whatever slots were reused or lost before, and whatever lies in the     *)
(* other cells.  And a search for a block that is in such a cell ends      *)
(* there, unless a growth spoiled a cell before it: one hit by the stray   *)
(* byte of line 192, or a slot behind the first byte of a growth, whose    *)
(* bit realloc had left set.                                               *)
(***************************************************************************)
TableIsAllocated ==
  /\ \A p \in held : heap[p] # 0
  /\ ~misled =>
       /\ \A i \in Own : ptrs[i].ptr \in Addr =>
            /\ ptrs[i].ptr \in held
            /\ ptrs[i].total = heap[ptrs[i].ptr]
       /\ \A i, k \in Own :
            ptrs[i].ptr = ptrs[k].ptr /\ ptrs[i].ptr \in Addr => i = k
       /\ \A i \in Own : ptrs[i].ptr \in Addr =>
            LET s == SlotOf(ptrs[i].ptr)
            IN  s = i \/ writer[s] = "stray" \/ Unzeroed(s)

(***************************************************************************)
(* libc's free gets a pointer that is not allocated (line 346) only from a *)
(* program in which a search has ended, then or before, at a cell the      *)
(* tracker had not written: slots reused, slots lost to the mask of case 6 *)
(* and failing reallocs never lead there.                                  *)
(***************************************************************************)
NoDoubleFree == rc = "double_free" => misled

(***************************************************************************)
(* "free memory which the ptr points to": a pointer a client holds is in   *)
(* the table, in a slot whose bit is set, so gfc_gc_free finds it and no   *)
(* later malloc takes its slot.                                            *)
(***************************************************************************)
HeldIsTracked ==
  ctx = "ready" =>
    \A p \in held : \E i \in 0..len-1 : ptrs[i].ptr = p /\ bits[i] = 1

(***************************************************************************)
(* Slots do not leak: the table grows only when every cell of it has a     *)
(* block (or what a failed realloc left in it), so its length is bounded   *)
(* by the blocks in use and not by the number of calls.  The only slots    *)
(* that may stay empty for ever are those whose bit realloc left set, and  *)
(* one that the stray byte of line 192 emptied.                            *)
(***************************************************************************)
GrowsOnlyWhenFull ==
  [][len # 0 /\ len' > len =>
       \A i \in 0..len-1 : ptrs[i] # NoCell \/ Unzeroed(i) \/ writer[i] = "stray"]_gcVars

-----------------------------------------------------------------------------
\* The clients' view of the tracker: while it is ready, their blocks.
HeapView == INSTANCE Heap
              WITH blocks   <- [a \in Addr |-> IF a \in held THEN heap[a] ELSE 0],
                   reported <- total,
                   found    <- rc # "not_found"

HeapSpec == HeapView!HeapSpec
=============================================================================
