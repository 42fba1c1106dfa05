----------------------------- MODULE MCChannel -----------------------------
(* Two deliverable messages of different sizes, an empty and an oversized one. *)
EXTENDS Channel

CONSTANTS short, long, empty, oversized

MCMessage == {short, long, empty, oversized}

MCSize == [m \in MCMessage |->
    CASE m = short -> 1 [] m = long -> 2 [] m = empty -> 0 [] m = oversized -> 3]

=============================================================================
