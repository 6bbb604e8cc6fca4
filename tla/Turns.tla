-------------------------------- MODULE Turns --------------------------------
(***************************************************************************)
(* What processes that take turns promise: 1, 2, ..., Cycle are printed in *)
(* this order, again and again. SemSequence and Dekker implement it.       *)
(***************************************************************************)
EXTENDS Naturals

CONSTANT Cycle

VARIABLE last       \* the number printed last

TurnsSpec == last = 0 /\ [][last' = (last % Cycle) + 1]_last
=============================================================================
