--------------------------- MODULE WorkConserving ---------------------------
(***************************************************************************)
(* What every scheduling algorithm promises: no tick is lost while there   *)
(* is work. In each tick one of the processes that are there and not done  *)
(* is served, whichever; if there is none, nobody is.                      *)
(***************************************************************************)
EXTENDS Integers

CONSTANT Procs

VARIABLES clock, arrival, left     \* what each process still needs

There(tick) == {p \in Procs : arrival[p] <= tick /\ left[p] > 0}

Tick ==
    /\ clock' = clock + 1
    /\ IF There(clock') = {} THEN UNCHANGED left
       ELSE \E p \in There(clock') : left' = [left EXCEPT ![p] = @ - 1]
    /\ UNCHANGED arrival
=============================================================================
