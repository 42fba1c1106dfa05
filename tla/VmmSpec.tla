------------------------------ MODULE VmmSpec ------------------------------
(***************************************************************************)
(* What the virtual memory manager promises, without page tables: a set of *)
(* mappings, each of a virtual page of an address space to a physical page *)
(* with its effective rights.  A call names a space, pages, frames and     *)
(* rights, and changes those or nothing: a run is mapped to consecutive    *)
(* frames as a whole, one page is unmapped, one page gets the rights asked *)
(* for.  The upper half is one and the same in every space and never open  *)
(* to ring 3 in a process; the kernel's pages of boot stay.                *)
(*                                                                         *)
(* Which calls are refused is not said: that depends on the frames left    *)
(* for tables, which are no part of this view.                             *)
(***************************************************************************)
EXTENDS Integers, Sequences, FiniteSets

CONSTANTS
    Kernel,         \* kernel_space
    Process,        \* the other address spaces
    UpperPages,     \* the virtual pages of the upper half
    BootPages,      \* the virtual pages mapped when the kernel starts
    KernelRuns,     \* the runs of pages the kernel maps in its own space
    UserRuns,       \* the runs of pages mapped in a process
    Bases,          \* the frames a run may be mapped to, by the first one
    KernelRights,   \* the rights [user, writable] the kernel asks for
    UserRights      \* those asked for a process

VARIABLES
    view,    \* the mappings [space, va, at, user, writable]
    live,    \* the address spaces that exist
    loaded   \* the address space in CR3

specVars == <<view, live, loaded>>

Of(mappings, s) == {m \in mappings : m.space = s}

PagesOf(mappings) == {m.va : m \in mappings}

\* A page of the upper half changes in every space at once.
Sharers(s, va) == IF va \in UpperPages THEN live ELSE {s}

SpecInit ==
    /\ PagesOf(view) = BootPages
    /\ view = Of(view, Kernel)
    /\ live = {Kernel}
    /\ loaded = Kernel

\* The operations, from the mappings before to those after.

Create(p, before, after) ==
    LET upper == {m \in Of(before, Kernel) : m.va \in UpperPages} IN
    /\ p \notin live
    /\ live' = live \cup {p}
    /\ after = before \cup {[m EXCEPT !.space = p, !.user = FALSE] : m \in upper}
    /\ UNCHANGED loaded

Destroy(p, before, after) ==
    /\ p \in live \ {loaded}
    /\ PagesOf(Of(before, p)) \subseteq UpperPages
    /\ live' = live \ {p}
    /\ after = before \ Of(before, p)
    /\ UNCHANGED loaded

\* The pages of run are mapped to the frames from base on, none of them mapped before.
\* A page of a process has the rights asked for; one of the kernel may be less writable,
\* as the tables Limine left grant no more.
MapPages(s, run, base, rights, before, after) ==
    /\ s \in live
    /\ \/ after = before
       \/ /\ \A k \in 1..Len(run) : run[k] \notin PagesOf(Of(before, s))
          /\ \E granted \in [1..Len(run) -> BOOLEAN] :
               /\ \A k \in 1..Len(run) : granted[k] => rights.writable
               /\ rights.user => \A k \in 1..Len(run) : granted[k] = rights.writable
               /\ after = before \cup UNION {{[space |-> q, va |-> run[k], at |-> base + k - 1,
                                             user |-> rights.user, writable |-> granted[k]] :
                                               q \in Sharers(s, run[k])} : k \in 1..Len(run)}
    /\ UNCHANGED <<live, loaded>>

UnmapPage(s, va, before, after) ==
    /\ s \in live
    /\ va \in PagesOf(Of(before, s))
    /\ Kernel \in Sharers(s, va) => va \notin BootPages
    /\ after = {m \in before : m.va # va \/ m.space \notin Sharers(s, va)}
    /\ UNCHANGED <<live, loaded>>

ProtectPage(s, va, rights, before, after) ==
    /\ s \in live
    /\ va \in PagesOf(Of(before, s))
    /\ Kernel \in Sharers(s, va) => va \notin BootPages
    /\ after = {IF m.va = va /\ m.space \in Sharers(s, va)
                THEN [m EXCEPT !.user = rights.user, !.writable = rights.writable]
                ELSE m : m \in before}
    /\ UNCHANGED <<live, loaded>>

Activate(s) ==
    /\ s \in live
    /\ loaded' = s
    /\ UNCHANGED <<view, live>>

PagesIn(runs) == UNION {{r[k] : k \in 1..Len(r)} : r \in runs}

SpecStep(before, after) ==
    \/ \E run \in KernelRuns, base \in Bases, rights \in KernelRights : MapPages(Kernel, run, base, rights, before, after)
    \/ \E va \in PagesIn(KernelRuns) : UnmapPage(Kernel, va, before, after)
    \/ \E p \in Process :
        \/ Create(p, before, after)
        \/ Destroy(p, before, after)
        \/ \E run \in UserRuns, base \in Bases, rights \in UserRights : MapPages(p, run, base, rights, before, after)
        \/ \E va \in PagesIn(UserRuns) :
            UnmapPage(p, va, before, after) \/ \E rights \in UserRights : ProtectPage(p, va, rights, before, after)

SpecNext ==
    \/ \E s \in live : Activate(s)
    \/ \E before \in {view}, after \in {view'} : SpecStep(before, after)

VmmSpecification == SpecInit /\ [][SpecNext]_specVars
=============================================================================
