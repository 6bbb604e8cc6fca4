--------------------- MODULE ProducerConsumerProperties ---------------------
(* What producer.c and consumer.c guarantee each other.                    *)
EXTENDS ProducerConsumer, FiniteSets

Spec == Init /\ [][Next]_vars

Labels == {"create", "menu", "work", "enter", "inside", "leave", "announce", "pause",
           "reset", "remove", "off", "open"}

\* Every variable has its type.
TypeOK ==
    /\ made \in 0..Len(Creation) /\ unmade \in 0..Len(Removal)
    /\ sem \in [{"e", "n", "s"} -> 0..Size]
    /\ sem["s"] <= 1
    /\ buffer \in [Places -> 0..MaxData]
    /\ in \in Nat /\ data \in 0..MaxData
    /\ alarm \in BOOLEAN
    /\ pc \in [Procs -> Labels]
    /\ step \in [Procs -> Nat]
    /\ out \in [Consumers -> Nat]
    /\ taken \in Seq(0..MaxData)
    /\ starts \in 0..MaxStarts

At(labels) == {p \in Procs : pc[p] \in labels}

\* Between the two semaphores of a place, and of the buffer.
Hands == At({"enter", "inside", "leave", "announce"})
Owners == At({"inside", "leave"})

\* Every place is empty, or has a number inside, or is in the hands of a process
\* between its two semaphores: the sums of work() are right whatever the users
\* of all programs do.
SemaphoreAccounts ==
    /\ sem["e"] + sem["n"] + Cardinality(Hands) = Size
    /\ sem["s"] + Cardinality(Owners) = 1

\* With one consumer, which is not started again, the producer never finds the
\* place it writes to filled.
NoAlarm == ~alarm

\* One consumer prints what was produced, in order, nothing twice and nothing left
\* out.
TakenInOrder == \A k \in DOMAIN taken : taken[k] = k

\* The buffer is a bounded FIFO: what is inside are the places from the one behind
\* what was taken to in.
Inside == [k \in 1 .. in - Len(taken) |-> buffer[(Len(taken) + k - 1) % Size]]
Fifo == INSTANCE BoundedFifo WITH last <- data, inside <- Inside
ImplementsFifo == Fifo!FifoSpec

-----------------------------------------------------------------------------
(* The strengthening of the invariants above that every step preserves.    *)

\* The producer is where its other variables say it is.
WhereInv ==
    /\ pc[P] = "create" => made < Len(Creation)
    /\ pc[P] = "remove" => unmade < Len(Removal)
    /\ pc[P] \notin {"remove", "off"} => unmade = 0
    /\ pc[P] \in {"work", "enter", "inside"} => data < MaxData
    /\ pc[P] # "open" /\ step[P] <= Size /\ (pc[P] # "reset" => step[P] = 0)
    /\ pc[P] = "reset" => Resets
    /\ \A c \in Consumers : pc[c] \notin {"create", "reset", "remove"}

\* The numbers that the producer has not announced, and those a consumer has been
\* promised, are inside, next to the n that anybody may take; with any number of
\* consumers.
Coming == (At({"leave", "announce"}) \cap {P}) \cup (At({"enter", "inside"}) \cap Consumers)
InsideInv ==
    ~Resets => in = data /\ in = Len(taken) + sem["n"] + Cardinality(Coming)

\* The one consumer is as far as the numbers it has taken, the places from there to
\* in hold the numbers that follow, and the rest of the ring is empty.
RingInv ==
    ~Resets /\ MaxStarts = 1 =>
        /\ starts = 0 => taken = <<>> /\ \A c \in Consumers : pc[c] = "off"
        /\ \A c \in Consumers : pc[c] # "off" =>
                out[c] = Len(taken) /\ \A d \in Consumers : pc[d] # "off" => d = c
        /\ \A k \in Len(taken) .. in - 1 : buffer[k % Size] = k + 1
        /\ \A x \in Places : buffer[x] = 0 \/ \E k \in Len(taken) .. in - 1 : x = k % Size
        /\ NoAlarm /\ TakenInOrder

IInv == TypeOK /\ WhereInv /\ SemaphoreAccounts /\ InsideInv /\ RingInv

-----------------------------------------------------------------------------
(* Liveness.                                                               *)

\* A producer that waits for a place gets one, unless all consumers are at rest; a
\* consumer that waits for a number gets one, unless the producer is at rest (or
\* at its bound).
Resting(p) == pc[p] \in {"create", "off", "open", "menu", "reset", "remove"}
NobodyWaitsInVain ==
    /\ pc[P] = "work" ~> (pc[P] # "work" \/ \A c \in Consumers : Resting(c))
    /\ \A c \in Consumers :
        pc[c] = "work" ~> (pc[c] # "work" \/ Resting(P) \/ data = MaxData)
=============================================================================
