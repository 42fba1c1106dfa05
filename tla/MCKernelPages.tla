--------------------------- MODULE MCKernelPages ---------------------------
(* KernelPages on a small region: a stack of one page between two guards and *)
(* heap arenas of one and two pages.                                         *)
EXTENDS KernelPages, TLC

Shape(before, pages, after, alignment) ==
    [before |-> before, pages |-> pages, after |-> after, alignment |-> alignment]

MCShapes == {Shape(1, 1, 1, 1), Shape(0, 2, 0, 1), Shape(0, 1, 0, 2)}
Symmetry == Permutations(Thread) \cup Permutations(Frame)
=============================================================================
