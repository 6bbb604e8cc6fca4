------------------------------ MODULE BaBuffer ------------------------------
(***************************************************************************)
(* baproducer.c and baconsumer.c: the buffer of ProducerConsumer for many  *)
(* producers and consumers. The last value and both indices are in a       *)
(* second piece of shared memory, "pc". One producer creates the names     *)
(* ("c"), the others open them ("o"); each of them may take them away      *)
(* ("Q"). A name is made once: the bound is one set of objects.            *)
(***************************************************************************)
EXTENDS Naturals, Sequences

CONSTANTS
    Producers, Consumers,
    SizeOf,         \* the argument of each producer
    Places,         \* bound: the bytes the memory may be given
    MaxData,        \* bound: numbers produced
    MaxCreations    \* bound: how often users choose "c"

VARIABLES
    names, gone,    \* the names that are bound, and those that have been removed
    len, pcSized,   \* the length of "buffer", and whether "pc" has its own
    sem, buffer,    \* the semaphores and the numbers in "buffer"
    value, in, out, \* shm_pc[0], shm_pc[1] and shm_pc[2]
    at, step,       \* where each process is, and how far with the names
    has,            \* the names each process has a valid descriptor or pointer of
    size,           \* each process's size
    read,           \* what append() and take() have read: an index and a number
    crashed,        \* the producers that have used a pointer they do not have
    creations,      \* how often "c" has been chosen
    taken, alarm    \* as in ProducerConsumer

nameVars == <<names, gone, len, pcSized>>
bufVars == <<buffer, value, in, out, taken, alarm>>
ownVars == <<step, has, size, creations>>
vars == <<nameVars, sem, bufVars, ownVars, at, read, crashed>>

Procs == Producers \cup Consumers
Names == {"buffer", "pc", "e", "n", "s"}
Creation == <<"buffer", "map", "pc", "pcmap", "e", "n", "s">>
Opening == <<"buffer", "map", "size", "pc", "pcmap", "e", "n", "s">>
Removal == <<"buffer", "pc", "e", "s", "n">>

Init ==
    /\ names = {} /\ gone = {}
    /\ len = 0 /\ pcSized = FALSE
    /\ sem = [x \in {"e", "n", "s"} |-> 0]
    /\ buffer = [k \in Places |-> 0]
    /\ value = 0 /\ in = 0 /\ out = 0
    /\ at = [p \in Procs |-> IF p \in Producers THEN "menu" ELSE "off"]
    /\ step = [p \in Procs |-> 1]
    /\ has = [p \in Procs |-> {}]
    /\ size = [p \in Procs |-> IF p \in Producers THEN SizeOf[p] ELSE 0]
    /\ read = [p \in Procs |-> <<0, 0>>]
    /\ crashed = {}
    /\ creations = 0
    /\ taken = <<>> /\ alarm = FALSE

-----------------------------------------------------------------------------
(* The names.                                                              *)

Goes(p, from, to) ==
    /\ p \notin crashed
    /\ at[p] = from
    /\ at' = [at EXCEPT ![p] = to]

\* The step after this one in a list of them, or where the list ends.
Continues(p, here, list, end) ==
    /\ Goes(p, here, IF step[p] = Len(list) THEN end ELSE here)
    /\ step' = [step EXCEPT ![p] = IF @ = Len(list) THEN 1 ELSE @ + 1]

Truncates(bytes) ==
    /\ len' = bytes
    /\ buffer' = [k \in Places |-> IF k < bytes THEN buffer[k] ELSE 0]

\* createSHM, mapSHM, createSemaphore: a name that is taken leaves the producer
\* without, and it goes on.
Creates(p) ==
    LET x == Creation[step[p]] IN
    /\ Continues(p, "create", Creation, "menu")
    /\ x \notin gone
    /\ \/ /\ x \in Names
          /\ names' = names \cup {x}
          /\ has' = [has EXCEPT ![p] = IF x \in names THEN @ \ {x} ELSE @ \cup {x}]
          /\ sem' = IF x \in DOMAIN sem /\ x \notin names
                    THEN [sem EXCEPT ![x] = CASE x = "e" -> size[p] [] x = "n" -> 0 [] x = "s" -> 1]
                    ELSE sem
          /\ UNCHANGED <<len, buffer, pcSized>>
       \/ /\ x \notin Names
          /\ IF x = "map" /\ "buffer" \in has[p]
             THEN Truncates(SizeOf[p])
             ELSE UNCHANGED <<len, buffer>>
          /\ pcSized' = (pcSized \/ (x = "pcmap" /\ "pc" \in has[p]))
          /\ UNCHANGED <<names, has, sem>>
    /\ UNCHANGED <<gone, value, in, out, taken, alarm, size, read, crashed, creations>>

\* Whether a process that opens the names gets past x; a consumer does not give
\* the memory its length.
Opened(p, x) ==
    CASE x \in Names -> x \in names
      [] x = "map" -> p \in Producers \/ len > 0
      [] x = "pcmap" -> p \in Producers \/ pcSized
      [] OTHER -> TRUE

\* openSHM, mapSHM, openSemaphore: they exit where a name is missing.
Opens(p) ==
    LET x == Opening[step[p]]
        end == IF p \in Producers THEN "menu" ELSE "work" IN
    /\ IF Opened(p, x)
       THEN /\ Continues(p, "open", Opening, end)
            /\ has' = [has EXCEPT ![p] = @ \cup ({x} \cap Names)]
            /\ IF x = "map" /\ p \in Producers
               THEN Truncates(SizeOf[p])
               ELSE UNCHANGED <<len, buffer>>
            /\ size' = IF x = "size" THEN [size EXCEPT ![p] = len] ELSE size
            /\ pcSized' = (pcSized \/ x = "pcmap")
       ELSE /\ Goes(p, "open", "off")
            /\ step' = [step EXCEPT ![p] = 1]
            /\ UNCHANGED <<has, len, buffer, size, pcSized>>
    /\ UNCHANGED <<names, gone, sem, value, in, out, taken, alarm, read, crashed, creations>>

\* "Q": a name somebody else has removed is no longer there to remove.
Removes(p) ==
    /\ Continues(p, "remove", Removal, "off")
    /\ names' = names \ {Removal[step[p]]}
    /\ gone' = gone \cup (names \cap {Removal[step[p]]})
    /\ UNCHANGED <<len, pcSized, sem, bufVars, has, size, read, crashed, creations>>

-----------------------------------------------------------------------------
(* The menu of a producer, and a consumer's beginning.                     *)

\* Producers open what they have not created before they produce; a producer that
\* has quit is not started again.
Chooses(p) ==
    /\ \/ Goes(p, "menu", "create") /\ creations < MaxCreations
       \/ Goes(p, "menu", "open") /\ names \cup gone # {}
       \/ Goes(p, "menu", "work") /\ (has[p] # {} \/ creations > 1) /\ value < MaxData
       \/ Goes(p, "menu", "off")
       \/ Goes(p, "menu", "remove") /\ has[p] # {}
    /\ creations' = creations + (IF at'[p] = "create" THEN 1 ELSE 0)
    /\ UNCHANGED <<nameVars, sem, bufVars, step, has, size, read, crashed>>

Starts(c) ==
    /\ Goes(c, "off", "open")
    /\ has' = [has EXCEPT ![c] = {}]
    /\ UNCHANGED <<nameVars, sem, bufVars, step, size, creations, read, crashed>>

GoesOn(p) ==
    /\ \/ Goes(p, "pause", "work") /\ (p \in Producers => value < MaxData)
       \/ Goes(p, "pause", IF p \in Producers THEN "menu" ELSE "off")
    /\ UNCHANGED <<nameVars, sem, bufVars, ownVars, read, crashed>>

-----------------------------------------------------------------------------
(* work(), append() and take().                                            *)

SemWait(x) == sem[x] > 0 /\ sem' = [sem EXCEPT ![x] = @ - 1]

SemPost(x) == sem' = [sem EXCEPT ![x] = @ + 1]

\* work() of both programs.
Locks(p, mine, other) ==
    /\ \/ Goes(p, "work", "enter") /\ mine \in has[p] /\ SemWait(mine)
       \/ Goes(p, "enter", "inside") /\ "s" \in has[p] /\ SemWait("s")
       \/ Goes(p, "leave", "announce") /\ SemPost("s")
       \/ Goes(p, "announce", "pause") /\ other \in has[p] /\ SemPost(other)
    /\ UNCHANGED <<nameVars, bufVars, ownVars, read, crashed>>

\* A null semaphore, or memory that was not mapped.
Crashes(p) ==
    /\ p \in Producers \ crashed
    /\ \/ at[p] = "work" /\ "e" \notin has[p]
       \/ at[p] = "enter" /\ "s" \notin has[p]
       \/ at[p] = "inside" /\ ~ {"buffer", "pc"} \subseteq has[p]
       \/ at[p] = "announce" /\ "n" \notin has[p]
    /\ crashed' = crashed \cup {p}
    /\ UNCHANGED <<nameVars, sem, bufVars, ownVars, at, read>>

\* append and take, up to their first write.
Reads(p) ==
    /\ Goes(p, "inside", "write")
    /\ {"buffer", "pc"} \subseteq has[p]
    /\ read' = [read EXCEPT ![p] = IF p \in Producers THEN <<in, value + 1>>
                                   ELSE <<out, buffer[out % size[p]]>>]
    /\ alarm' = (alarm \/ (p \in Producers /\ buffer[in % size[p]] # 0))
    /\ UNCHANGED <<nameVars, sem, buffer, value, in, out, taken, ownVars, crashed>>

Appends(p) ==
    LET x == read[p] IN
    /\ Goes(p, "write", "leave")
    /\ buffer' = [buffer EXCEPT ![x[1] % size[p]] = x[2]]
    /\ value' = x[2]
    /\ in' = x[1] + 1
    /\ UNCHANGED <<nameVars, sem, out, taken, alarm, ownVars, read, crashed>>

Takes(p) ==
    LET x == read[p] IN
    /\ Goes(p, "write", "leave")
    /\ buffer' = [buffer EXCEPT ![x[1] % size[p]] = 0]
    /\ out' = x[1] + 1
    /\ taken' = Append(taken, x[2])
    /\ UNCHANGED <<nameVars, sem, value, in, alarm, ownVars, read, crashed>>

Next ==
    \/ \E p \in Procs : Opens(p) \/ Reads(p) \/ GoesOn(p) \/ Crashes(p)
    \/ \E p \in Producers :
        Chooses(p) \/ Creates(p) \/ Removes(p) \/ Locks(p, "e", "n") \/ Appends(p)
    \/ \E c \in Consumers : Starts(c) \/ Locks(c, "n", "e") \/ Takes(c)

Spec == Init /\ [][Next]_vars
=============================================================================
