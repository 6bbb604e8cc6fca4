-------------------------- MODULE ProducerConsumer --------------------------
(***************************************************************************)
(* producer.c and consumer.c: a buffer in shared memory and three          *)
(* semaphores, e (empty places), n (numbers inside) and s (the buffer).    *)
(* The producer creates the four names, in one run of it, and takes them   *)
(* away when it quits; consumers open them, and keep what they have opened *)
(* when the names are gone. in is a variable of the producer, out one of   *)
(* each consumer.                                                          *)
(*                                                                         *)
(* A definition whose comment starts with "Fault:" is not part of the      *)
(* model: it is the definition after it with a bug.                        *)
(***************************************************************************)
EXTENDS Naturals, Sequences

CONSTANTS
    P, Consumers,   \* the producer's process and the consumers'
    Size,           \* the producer's argument
    MaxData,        \* bound: numbers produced between two resets
    Resets,         \* whether the user of the producer chooses "r"; bound: only as
                    \* long as no more than MaxData numbers have been taken
    MaxStarts       \* bound: how often consumers are started, all together

VARIABLES
    made,       \* how many of Creation's steps the producer has taken
    unmade,     \* how many of Removal's
    sem,        \* the values of the three semaphores
    buffer,     \* shm_buffer
    in, data,   \* the producer's
    pc,         \* where each process is
    step,       \* how many steps a consumer has taken to open what it needs; how
                \* many places the producer has reset
    out,        \* each consumer's out
    taken,      \* the numbers the consumers have printed, in order
    alarm,      \* the producer has printed "Position to write not 0"
    starts      \* how often a consumer has been started

objVars == <<made, unmade>>
bufVars == <<buffer, in, data, alarm>>
conVars == <<out, taken, starts>>
vars == <<objVars, sem, bufVars, pc, step, conVars>>

Procs == {P} \cup Consumers
Places == 0 .. Size - 1
Creation == <<"buffer", "size", "e", "n", "s">>
Removal == <<"buffer", "e", "s", "n">>

\* Whether the name is bound, and for "size" whether mmap has anything to map.
Bound(name) ==
    /\ \E k \in 1..made : Creation[k] = name
    /\ ~ \E k \in 1..unmade : Removal[k] = name

Init ==
    /\ made = 0 /\ unmade = 0
    /\ sem = [e |-> Size, n |-> 0, s |-> 1]
    /\ buffer = [k \in Places |-> 0]
    /\ in = 0 /\ data = 0
    /\ alarm = FALSE
    /\ pc = [p \in Procs |-> IF p = P THEN "create" ELSE "off"]
    /\ step = [p \in Procs |-> 0]
    /\ out = [c \in Consumers |-> 0]
    /\ taken = <<>>
    /\ starts = 0

-----------------------------------------------------------------------------
Goes(p, from, to) == pc[p] = from /\ pc' = [pc EXCEPT ![p] = to]

SemWait(x) == sem[x] > 0 /\ sem' = [sem EXCEPT ![x] = @ - 1]

SemPost(x) == sem' = [sem EXCEPT ![x] = @ + 1]

\* Fault: two semaphores swapped in work().
SwappedLocks(p, mine, other) ==
    /\ \/ Goes(p, "work", "enter") /\ SemWait("s")
       \/ Goes(p, "enter", "inside") /\ SemWait(mine)
       \/ Goes(p, "leave", "announce") /\ SemPost("s")
       \/ Goes(p, "announce", "pause") /\ SemPost(other)
    /\ UNCHANGED <<objVars, bufVars, step, conVars>>

\* Fault: s is not waited for.
Unlocked(p, mine, other) ==
    /\ \/ Goes(p, "work", "enter") /\ SemWait(mine)
       \/ Goes(p, "enter", "inside") /\ UNCHANGED sem
       \/ Goes(p, "leave", "announce") /\ UNCHANGED sem
       \/ Goes(p, "announce", "pause") /\ SemPost(other)
    /\ UNCHANGED <<objVars, bufVars, step, conVars>>

\* work() of both programs, around append() and take().
Locks(p, mine, other) ==
    /\ \/ Goes(p, "work", "enter") /\ SemWait(mine)
       \/ Goes(p, "enter", "inside") /\ SemWait("s")
       \/ Goes(p, "leave", "announce") /\ SemPost("s")
       \/ Goes(p, "announce", "pause") /\ SemPost(other)
    /\ UNCHANGED <<objVars, bufVars, step, conVars>>

-----------------------------------------------------------------------------
(* The producer.                                                           *)

\* createSHM, mapSHM, createSemaphore, none of whose names is taken.
Creates ==
    /\ Goes(P, "create", IF made + 1 = Len(Creation) THEN "menu" ELSE "create")
    /\ made' = made + 1
    /\ UNCHANGED <<unmade, sem, bufVars, step, conVars>>

\* "s"
StartsProducing ==
    /\ Goes(P, "menu", "work") /\ data < MaxData
    /\ UNCHANGED <<objVars, sem, bufVars, step, conVars>>

\* The loop goes on until "p".
GoesOnProducing ==
    /\ \/ Goes(P, "pause", "work") /\ data < MaxData
       \/ Goes(P, "pause", "menu")
    /\ UNCHANGED <<objVars, sem, bufVars, step, conVars>>

\* append
Appends ==
    /\ Goes(P, "inside", "leave")
    /\ alarm' = (alarm \/ buffer[in % Size] # 0)
    /\ buffer' = [buffer EXCEPT ![in % Size] = data + 1]
    /\ data' = data + 1
    /\ in' = in + 1
    /\ UNCHANGED <<objVars, sem, step, conVars>>

\* resetAll, one place at a time and without a semaphore.
ResetsAll ==
    /\ Resets
    /\ \/ /\ pc[P] = "menu" /\ Len(taken) <= MaxData
          /\ buffer' = [buffer EXCEPT ![step[P]] = 0]
          /\ pc' = [pc EXCEPT ![P] = "reset"]
          /\ step' = [step EXCEPT ![P] = 1]
          /\ UNCHANGED <<in, data>>
       \/ /\ pc[P] = "reset" /\ step[P] < Size
          /\ buffer' = [buffer EXCEPT ![step[P]] = 0]
          /\ step' = [step EXCEPT ![P] = @ + 1]
          /\ UNCHANGED <<in, data, pc>>
       \/ /\ Goes(P, "reset", "menu") /\ step[P] = Size
          /\ data' = 0
          /\ in' = 0
          /\ step' = [step EXCEPT ![P] = 0]
          /\ UNCHANGED buffer
    /\ UNCHANGED <<objVars, sem, alarm, conVars>>

\* "q": the names go one after another.
Quits ==
    /\ \/ Goes(P, "menu", "remove") /\ UNCHANGED unmade
       \/ /\ Goes(P, "remove", IF unmade + 1 = Len(Removal) THEN "off" ELSE "remove")
          /\ unmade' = unmade + 1
    /\ UNCHANGED <<made, sem, bufVars, step, conVars>>

-----------------------------------------------------------------------------
(* A consumer.                                                             *)

Starts(c) ==
    /\ Goes(c, "off", "open")
    /\ starts < MaxStarts /\ starts' = starts + 1
    /\ step' = [step EXCEPT ![c] = 0]
    /\ out' = [out EXCEPT ![c] = 0]
    /\ UNCHANGED <<objVars, sem, bufVars, taken>>

\* openSHM, mapSHM, openSemaphore. It exits where something is missing.
Opens(c) ==
    /\ pc[c] = "open"
    /\ IF Bound(Creation[step[c] + 1])
       THEN pc' = [pc EXCEPT ![c] = IF step[c] + 1 = Len(Creation) THEN "menu" ELSE "open"]
       ELSE pc' = [pc EXCEPT ![c] = "off"]
    /\ step' = [step EXCEPT ![c] = @ + 1]
    /\ UNCHANGED <<objVars, sem, bufVars, conVars>>

\* "s" and "q"
Chooses(c) ==
    /\ \/ Goes(c, "menu", "work")
       \/ Goes(c, "menu", "off")
    /\ UNCHANGED <<objVars, sem, bufVars, step, conVars>>

GoesOnConsuming(c) ==
    /\ \/ Goes(c, "pause", "work")
       \/ Goes(c, "pause", "menu")
    /\ UNCHANGED <<objVars, sem, bufVars, step, conVars>>

\* Fault: the index is not kept.
TakesFirst(c) ==
    /\ Goes(c, "inside", "leave")
    /\ taken' = Append(taken, buffer[0])
    /\ buffer' = [buffer EXCEPT ![0] = 0]
    /\ UNCHANGED <<objVars, sem, in, data, alarm, step, out, starts>>

\* take
Takes(c) ==
    /\ Goes(c, "inside", "leave")
    /\ taken' = Append(taken, buffer[out[c] % Size])
    /\ buffer' = [buffer EXCEPT ![out[c] % Size] = 0]
    /\ out' = [out EXCEPT ![c] = @ + 1]
    /\ UNCHANGED <<objVars, sem, in, data, alarm, step, starts>>

-----------------------------------------------------------------------------
Produces == Locks(P, "e", "n") \/ Appends \/ GoesOnProducing
Consumes(c) == Locks(c, "n", "e") \/ Takes(c) \/ GoesOnConsuming(c)

Next ==
    \/ Creates \/ StartsProducing \/ Produces \/ ResetsAll \/ Quits
    \/ \E c \in Consumers : Starts(c) \/ Opens(c) \/ Chooses(c) \/ Consumes(c)

\* A process inside work() goes on when it can; users need not do anything. Numbers
\* are bounded, so that nobody can be overtaken at a semaphore for ever.
Fairness ==
    /\ WF_vars(Produces)
    /\ \A c \in Consumers : WF_vars(Consumes(c))
=============================================================================
