------------------------------- MODULE MCPmm -------------------------------
(* Memory maps of ten pages: page zero usable and holding the bitmap, a    *)
(* hole in the middle, and a reserved start.                                 *)
EXTENDS Pmm

R(first, end) == [first |-> first, end |-> end]

MCMaps == {{R(0, 10)}, {R(0, 1), R(2, 4), R(5, 10)}, {R(1, 10)}}

=============================================================================
