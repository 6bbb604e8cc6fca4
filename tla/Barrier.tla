------------------------------- MODULE Barrier -------------------------------
(***************************************************************************)
(* What a rendezvous promises: nobody passes before everybody has arrived. *)
(* Rendezvous implements it.                                               *)
(***************************************************************************)
CONSTANT Everybody

VARIABLES arrived, passed

barrierVars == <<arrived, passed>>

BarrierInit == arrived = {} /\ passed = {}

Arrive(p) ==
    /\ p \in Everybody \ arrived
    /\ arrived' = arrived \cup {p}
    /\ UNCHANGED passed

Pass(p) ==
    /\ arrived = Everybody
    /\ p \in Everybody \ passed
    /\ passed' = passed \cup {p}
    /\ UNCHANGED arrived

BarrierNext == \E p \in Everybody : Arrive(p) \/ Pass(p)

BarrierSpec == BarrierInit /\ [][BarrierNext]_barrierVars
=============================================================================
