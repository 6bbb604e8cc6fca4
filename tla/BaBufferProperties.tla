------------------------- MODULE BaBufferProperties -------------------------
(* What baproducer.c and baconsumer.c guarantee.                           *)
EXTENDS BaBuffer, FiniteSets

\* The size all producers agree on.
TheSize == SizeOf[CHOOSE p \in Producers : TRUE]

Labels == {"menu", "create", "open", "remove", "off", "work", "enter", "inside",
           "write", "leave", "announce", "pause"}

\* Every variable has its type. Several producers may see that there is still a number
\* to produce.
TypeOK ==
    /\ names \subseteq Names /\ gone \subseteq Names \ names
    /\ len \in {0, TheSize} /\ pcSized \in BOOLEAN
    /\ sem \in [{"e", "n", "s"} -> 0..TheSize]
    /\ buffer \in [Places -> Nat]
    /\ {value, in, out} \subseteq 0 .. MaxData + Cardinality(Producers)
    /\ at \in [Procs -> Labels]
    /\ step \in [Procs -> 1..Len(Opening)]
    /\ has \in [Procs -> SUBSET Names]
    /\ size \in [Procs -> {0, TheSize}]
    /\ read \in [Procs -> Nat \X Nat]
    /\ crashed \subseteq Producers
    /\ creations \in 0..MaxCreations
    /\ taken \in Seq(Nat) /\ alarm \in BOOLEAN

At(labels) == {p \in Procs : at[p] \in labels}

\* Between the two semaphores of a place, and of the buffer.
Hands == At({"enter", "inside", "write", "leave", "announce"})
Owners == At({"inside", "write", "leave"})

\* The names that have been made.
Known == names \cup gone

\* Whatever the users do, also when producers fail halfway, a place is empty, or has
\* a number inside, or is in somebody's hands; the memory is in one process's hands
\* only.
SemaphoreAccounts ==
    "s" \in Known =>
        /\ sem["e"] + sem["n"] + Cardinality(Hands) = TheSize
        /\ sem["s"] + Cardinality(Owners) = 1

\* Unless two users have chosen "c", no producer uses a name it does not have.
CrashedAfterTwo == crashed # {} => creations > 1

\* Producers that agree on the size never find the place they write to filled.
NoAlarm == ~alarm

\* Whoever takes it, the numbers come out in the order 1, 2, 3, ... in which they
\* were produced by all producers together.
TakenInOrder == \A k \in DOMAIN taken : taken[k] = k

\* Producers and consumers together make a bounded FIFO.
Inside == [k \in 1 .. in - out |-> buffer[(out + k - 1) % TheSize]]
Fifo == INSTANCE BoundedFifo WITH last <- value, inside <- Inside, Size <- TheSize
ImplementsFifo == Fifo!FifoSpec

-----------------------------------------------------------------------------
(* The strengthening of the invariants above that every step preserves.    *)

\* How far each process is with the names. The three semaphores are made in an order,
\* and who is at work has found or made the last of them.
NamesInv ==
    /\ "s" \in Known => {"e", "n"} \subseteq Known
    /\ "s" \notin Known => sem["e"] = (IF "e" \in Known THEN TheSize ELSE 0) /\ sem["n"] = 0
    /\ \A p \in Procs :
        /\ has[p] \subseteq Known
        /\ at[p] \notin {"create", "open", "off"} /\ has[p] # {} => "s" \in Known
        /\ p \in Hands => has[p] # {}
        /\ at[p] = "create" =>
            step[p] <= 7 /\ (step[p] > 5 => "e" \in Known) /\ (step[p] > 6 => "n" \in Known)
        /\ at[p] = "remove" => step[p] <= 5
        /\ at[p] \notin {"create", "open", "remove"} => step[p] = 1

\* Everybody at work has the size of the buffer.
SizeInv ==
    \A p \in Procs :
        /\ p \in Producers => size[p] = TheSize
        /\ p \in Consumers => at[p] \notin {"menu", "create", "remove"}
        /\ at[p] = "open" /\ step[p] > 2 => len = TheSize
        /\ (at[p] = "open" /\ step[p] > 3) \/ at[p] \notin {"open", "off"} => size[p] = TheSize

\* With one creator, what there is is what it has made, and nobody gets to work without
\* all of it.
Made(k) == {Creation[j] : j \in 1 .. k - 1} \cap Names
Found(k) == {Opening[j] : j \in 1 .. k - 1} \cap Names
CreatorInv ==
    creations <= 1 =>
        /\ creations = 0 => Known = {}
        /\ \A p \in Procs :
            /\ at[p] = "create" =>
                /\ creations = 1 /\ Known = Made(step[p]) /\ has[p] = Made(step[p])
                /\ \A q \in Procs : at[q] = "create" => q = p
            /\ at[p] = "open" => Found(step[p]) \subseteq has[p]
            /\ at[p] \notin {"create", "open", "off"} /\ has[p] # {} => has[p] = Names
            /\ at[p] \in {"work", "pause"} => has[p] # {}
        /\ crashed = {}

\* What is inside, and who has been promised a number or has not announced one.
Coming ==
    (At({"leave", "announce"}) \cap Producers) \cup (At({"enter", "inside", "write"}) \cap Consumers)
InsideInv ==
    /\ in = value /\ out = Len(taken)
    /\ in = out + sem["n"] + Cardinality(Coming)

\* Every producer at work may put in one number more.
Producing == At({"work", "enter", "inside", "write"}) \cap Producers
ValueInv == value + Cardinality(Producing) <= MaxData + Cardinality(Producers)

\* Who has read the indices is alone with them; the places from out to in hold the
\* numbers that follow, and the rest of the ring is empty.
RingInv ==
    /\ \A p \in Procs : at[p] = "write" =>
            read[p] = IF p \in Producers THEN <<in, value + 1>> ELSE <<out, out + 1>>
    /\ \A k \in out .. in - 1 : buffer[k % TheSize] = k + 1
    /\ \A x \in 0 .. TheSize - 1 : buffer[x] = 0 \/ \E k \in out .. in - 1 : x = k % TheSize
    /\ NoAlarm /\ TakenInOrder

IInv ==
    /\ TypeOK /\ NamesInv /\ SizeInv /\ CreatorInv
    /\ SemaphoreAccounts /\ InsideInv /\ ValueInv /\ RingInv
=============================================================================
