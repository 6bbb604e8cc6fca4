----------------------------- MODULE BoundedFifo -----------------------------
(***************************************************************************)
(* What a bounded buffer promises its producers and consumers: the numbers *)
(* 1, 2, 3, ... go in one at a time, at most Size of them are inside, and  *)
(* they come out in the order in which they went in, each of them once.    *)
(* ProducerConsumer and BaBuffer implement it.                             *)
(***************************************************************************)
EXTENDS Naturals, Sequences

CONSTANT Size

VARIABLES
    last,       \* the last number that went in
    inside      \* the numbers that have not come out yet

fifoVars == <<last, inside>>

FifoInit == last = 0 /\ inside = <<>>

Put ==
    /\ Len(inside) < Size
    /\ last' = last + 1
    /\ inside' = Append(inside, last')

Get ==
    /\ inside # <<>>
    /\ inside' = Tail(inside)
    /\ UNCHANGED last

FifoNext == Put \/ Get

FifoSpec == FifoInit /\ [][FifoNext]_fifoVars
=============================================================================
