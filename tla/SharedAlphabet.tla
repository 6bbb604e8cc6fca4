--------------------------- MODULE SharedAlphabet ---------------------------
(***************************************************************************)
(* shm_a.c and shm_b.c: a creates a piece of memory, writes the alphabet   *)
(* into it and waits for a capital A in front; b opens it, waits for a     *)
(* small a, reads everything and writes the capital. Both give up waiting  *)
(* after so many polls, and go on all the same. b is started any time.     *)
(***************************************************************************)
EXTENDS Integers

CONSTANTS
    Letters,        \* SHM_SIZE; the k-th letter is k
    PollsA, PollsB, \* the TIME_OUT of each, in polls of a second
    Runs            \* bound: how often b is started

Capital == -1
Blank == 0          \* new memory, and what is behind it in its page

VARIABLES
    name,           \* "none", "empty" (no length yet), "sized", "removed"
    store,          \* the memory and the byte behind it
    at,             \* where a and b are
    index, cntr,    \* of each
    read,           \* what b has read
    seen,           \* whether b's last poll saw the small a
    runs

vars == <<name, store, at, index, cntr, read, seen, runs>>

Init ==
    /\ name = "none"
    /\ store = [k \in 0..Letters |-> Blank]
    /\ at = [a |-> "create", b |-> "off"]
    /\ index = [a |-> 0, b |-> 0] /\ cntr = [a |-> 0, b |-> 0]
    /\ read = <<>> /\ seen = FALSE
    /\ runs = 0

Goes(p, from, to) == at[p] = from /\ at' = [at EXCEPT ![p] = to]

\* my_shm_create.
Creates ==
    /\ \/ Goes("a", "create", "size") /\ name' = "empty"
       \/ Goes("a", "size", "write") /\ name' = "sized"
    /\ UNCHANGED <<store, index, cntr, read, seen, runs>>

Writes ==
    /\ Goes("a", "write", IF index.a + 1 = Letters THEN "poll" ELSE "write")
    /\ store' = [store EXCEPT ![index.a] = index.a + 1]
    /\ index' = [index EXCEPT !.a = @ + 1]
    /\ UNCHANGED <<name, cntr, read, seen, runs>>

\* The do-while loops, whose condition looks after the second of sleep.
Polls(p, wanted, most, next) ==
    /\ Goes(p, "poll", IF store[0] # wanted /\ cntr[p] + 1 < most THEN "poll" ELSE next)
    /\ cntr' = [cntr EXCEPT ![p] = @ + 1]
    /\ UNCHANGED <<name, store, index, read, runs>>

Removes ==
    /\ Goes("a", "unlink", "end")
    /\ name' = "removed"
    /\ UNCHANGED <<store, index, cntr, read, seen, runs>>

Starts ==
    /\ Goes("b", "off", "open") /\ runs < Runs
    /\ runs' = runs + 1
    /\ index' = [index EXCEPT !.b = 0] /\ cntr' = [cntr EXCEPT !.b = 0]
    /\ read' = <<>> /\ seen' = FALSE
    /\ UNCHANGED <<name, store>>

\* my_shm_open. Without a name or a length the first poll crashes.
Opens ==
    /\ Goes("b", "open", IF name = "sized" THEN "poll" ELSE "off")
    /\ UNCHANGED <<name, store, index, cntr, read, seen, runs>>

\* The loop to size, which is one byte too far.
Reads ==
    /\ Goes("b", "read", IF index.b = Letters THEN "answer" ELSE "read")
    /\ read' = [k \in 0..index.b |-> IF k = index.b THEN store[k] ELSE read[k]]
    /\ index' = [index EXCEPT !.b = @ + 1]
    /\ UNCHANGED <<name, store, cntr, seen, runs>>

Answers ==
    /\ Goes("b", "answer", "off")
    /\ store' = [store EXCEPT ![0] = Capital]
    /\ UNCHANGED <<name, index, cntr, read, seen, runs>>

Next ==
    \/ Creates \/ Writes \/ Removes \/ Starts \/ Opens \/ Reads \/ Answers
    \/ Polls("a", Capital, PollsA, "unlink") /\ UNCHANGED seen
    \/ Polls("b", 1, PollsB, "read") /\ seen' = (store[0] = 1)

-----------------------------------------------------------------------------
\* b that has seen the small a reads the letters in their places, or nothing where a
\* has not been yet, and its capital is there for a to see until the end; only a b that
\* gave up can have its capital written over.
ReadsTheAlphabet ==
    seen =>
        /\ \A k \in DOMAIN read : read[k] \in {Blank, k + 1}
        /\ index.b > 0 => read[0] = 1
        /\ at.b = "off" => store[0] = Capital
=============================================================================
