------------------------------ MODULE MCGfcGc -------------------------------
(* Instances of GfcGc for TLC.  Addresses are numbers.                     *)
EXTENDS GfcGc

\* libc may return any free address, or (for long tables) the lowest one: what
\* the tracker does depends only on which pointers are equal.
AnyFree(S) == S
LowestFree(S) == {a \in S : \A b \in S : a <= b}

\* The new cells behind the first: all zero; or one of them, in the first byte of the growth or
\* behind it, has the address of a block.
CleanCells == [k \in 1..IncCount-1 |-> NoCell]
CleanMemory == {CleanCells}
DirtyMemory == CleanMemory \cup
  {[CleanCells EXCEPT ![k] = Cell(2, 1)] : k \in {1, ByteLength} \cap (1..IncCount-1)}

\* The stray byte hits no cell; or it turns the pointer to a block into that to another.
Spared(cell) == {}
Hit(cell) == IF cell.ptr = 1 THEN {[cell EXCEPT !.ptr = 3]} ELSE {}

\* States that differ only in the total and in an answer other than an abort of libc have the
\* same steps before them, and no property of the growing table tells them apart.
GrowingView == <<ctx, len, bits, ptrs, heap, held, writer, misled, rc = "double_free">>
=============================================================================
