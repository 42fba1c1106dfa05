------------------------------- MODULE MCPs2 -------------------------------
(* One report with the button held and both signs whose data bytes cannot    *)
(* begin a packet, and one that overflowed whose data bytes can.             *)
EXTENDS Ps2

Movement(left, dx, dy, overflow) == [left |-> left, dx |-> dx, dy |-> dy, overflow |-> overflow]

MCMovements == {Movement(TRUE, -9, 2, FALSE), Movement(FALSE, 12, -1, TRUE)}
=============================================================================
