------------------------------ MODULE MCGfcMap ------------------------------
(* Instances of GfcMap for TLC.                                            *)
EXTENDS GfcMap, TLC

CONSTANTS k1, k2, k3, k4

\* k2 and k3 share the last cell up to tables of 16, and their chain wraps around
\* to k1: putting them again in the order of the cells may exhaust it, so that a
\* rehash has to rehash in its turn.  k1 and k4 share a chain in tables of 4 and
\* 8 cells; in longer ones the cell of k4 has the number that stands for a full
\* table, and its put rehashes until there is no memory.
SomeHash == (k1 :> 0) @@ (k2 :> 15) @@ (k3 :> 31) @@ (k4 :> 8)

\* New memory is zeroed.
CleanMemory == {Blank}
=============================================================================
