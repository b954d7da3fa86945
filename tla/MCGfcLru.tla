------------------------------ MODULE MCGfcLru ------------------------------
(* Instances of GfcLru for TLC.                                            *)
EXTENDS GfcLru, TLC

CONSTANTS k1, k2, k3, k4

\* Two chains: three keys share the first one.
SomeHash == (k1 :> 0) @@ (k2 :> 0) @@ (k3 :> 1) @@ (k4 :> 0)

\* New memory is zeroed, or has pointers to where the first items will be.
OnlyZeroed == {{Null}}
ZeroedOrNot == {{Null}, {Null, 1, 2}}
=============================================================================
