------------------------------- MODULE MCVmm -------------------------------
(* An instance of Vmm for TLC.  Index 0 is the lower half; 1 the heap       *)
(* region, empty at boot; 2 the kernel image with a 4 KiB and a large page; *)
(* 3 is the recursive entry.                                                *)
EXTENDS Vmm, TLC

BootEntry(kind, at) == [kind |-> kind, at |-> at, owned |-> FALSE, user |-> FALSE, writable |-> TRUE]

MCBoot ==
    [f \in 51..54 |->
       [i \in 0..3 |->
          CASE f = 51 /\ i = 2 -> BootEntry("table", 52)
            [] f = 51 /\ i = 3 -> BootEntry("table", 51)
            [] f = 52 /\ i = 0 -> BootEntry("large", 101)
            [] f = 52 /\ i = 1 -> BootEntry("table", 53)
            [] f = 53 /\ i = 0 -> BootEntry("table", 54)
            [] f = 54 /\ i = 0 -> BootEntry("page", 101)
            [] OTHER -> [kind |-> "absent", at |-> 0, owned |-> FALSE, user |-> FALSE, writable |-> FALSE]]]

MCBootFrame == 51..54
MCData == 101..102
MCPermanent == <<1, 0, 0, 0>>
MCKernelRuns == {<< <<1, 0, 0, 0>> >>, << <<1, 0, 0, 1>>, <<1, 0, 1, 0>> >>, << <<2, 0, 0, 1>> >>}
MCUserRuns == {<< <<0, 0, 0, 0>> >>, << <<0, 0, 0, 1>>, <<0, 0, 1, 0>> >>}
MCSymmetry == Permutations(Process)
=============================================================================
