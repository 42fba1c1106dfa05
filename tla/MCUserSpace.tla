---------------------------- MODULE MCUserSpace ----------------------------
(* UserSpace with pages of two bytes: page 0 below the null guard, pages 1   *)
(* to 5 for programs, the framebuffer at 3 and 4, the stack below 6.         *)
EXTENDS UserSpace, TLC

Segment(flags, offset, va, filesz, memsz, align) ==
    [load |-> TRUE, flags |-> flags, offset |-> offset, va |-> va, filesz |-> filesz,
     memsz |-> memsz, align |-> align]

Executable(size, entry, segments) == [header |-> TRUE, size |-> size, entry |-> entry, segments |-> segments]

Code == Segment({"exec"}, 0, 2, 2, 2, 2)

MCFiles ==
    { Executable(4, 2, {Code, Segment({"write"}, 2, 4, 1, 2, 2)}),
      Executable(4, 3, {Segment({"exec"}, 1, 3, 2, 2, 1)}),
      Executable(4, 2, {Code, Segment({}, 2, 3, 1, 1, 1), Segment({"write"}, 3, 6, 1, 2, 1)}),
      Executable(4, 2, {Code, Segment({"write"}, 1, 3, 1, 1, 1)}),
      Executable(4, 2, {Code, Segment({"write"}, 2, 9, 1, 3, 1)}),
      Executable(4, 2, {Code, Segment({"write"}, 2, 11, 1, 2, 1)}),
      Executable(4, 2, {Code, Segment({}, 1, 1, 1, 1, 1)}) }

Symmetry == Permutations(Process)
=============================================================================
