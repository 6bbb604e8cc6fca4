----------------------------- MODULE SemSequence -----------------------------
(***************************************************************************)
(* semseq.c: four processes in a ring, each of which waits for its own     *)
(* semaphore and posts the next one's. The user makes the semaphores A to  *)
(* D beforehand (with sem.c), A with the value 1; some may be missing.     *)
(*                                                                         *)
(* A definition whose comment starts with "Fault:" is not part of the      *)
(* model: it is the definition after it with a bug.                        *)
(***************************************************************************)
EXTENDS Naturals

Procs == 0..3
After(p) == (p + 1) % 4

\* prnchars
Prints(p, half) == IF half = 1 THEN p + 1 ELSE p + 5

VARIABLES
    present,    \* the semaphores the user has made
    sem,        \* their values
    at, half,   \* where each process is, and which of its two numbers is next
    last        \* the number printed last

vars == <<present, sem, at, half, last>>

Init ==
    /\ present \in SUBSET Procs
    /\ sem = [p \in Procs |-> IF p = 0 THEN 1 ELSE 0]
    /\ at = [p \in Procs |-> "off"]
    /\ half = [p \in Procs |-> 1]
    /\ last = 0

Goes(p, from, to) == at[p] = from /\ at' = [at EXCEPT ![p] = to]

\* init_params. It goes on without a semaphore that is missing.
Starts(p) ==
    /\ Goes(p, "off", "wait")
    /\ UNCHANGED <<present, sem, half, last>>

Waits(p) ==
    /\ Goes(p, "wait", "print")
    /\ p \in present
    /\ sem[p] > 0 /\ sem' = [sem EXCEPT ![p] = @ - 1]
    /\ UNCHANGED <<present, half, last>>

Outputs(p) ==
    /\ Goes(p, "print", "post")
    /\ last' = Prints(p, half[p])
    /\ UNCHANGED <<present, sem, half>>

\* Fault: a process posts its own semaphore between its two numbers.
PostsOwn(p) ==
    LET q == IF half[p] = 1 THEN p ELSE After(p) IN
    /\ Goes(p, "post", "wait")
    /\ q \in present
    /\ sem' = [sem EXCEPT ![q] = @ + 1]
    /\ half' = [half EXCEPT ![p] = 3 - @]
    /\ UNCHANGED <<present, last>>

Posts(p) ==
    /\ Goes(p, "post", "wait")
    /\ After(p) \in present
    /\ sem' = [sem EXCEPT ![After(p)] = @ + 1]
    /\ half' = [half EXCEPT ![p] = 3 - @]
    /\ UNCHANGED <<present, last>>

\* A semaphore that is missing is a null pointer.
Crashes(p) ==
    /\ \/ Goes(p, "wait", "crashed") /\ p \notin present
       \/ Goes(p, "post", "crashed") /\ After(p) \notin present
    /\ UNCHANGED <<present, sem, half, last>>

Runs(p) == Waits(p) \/ Outputs(p) \/ Posts(p) \/ Crashes(p)

Next == \E p \in Procs : Starts(p) \/ Runs(p)

\* Users start what they like; what is started, the kernel runs.
Fairness == \A p \in Procs : WF_vars(Runs(p))

-----------------------------------------------------------------------------
TypeOK ==
    /\ sem \in [Procs -> 0..1]
    /\ half \in [Procs -> 1..2]
    /\ last \in 0..8

\* Two numbers of each process, one turn after the other, make 1 to 8, in order and
\* for ever, also where the ring breaks for want of a semaphore.
Ring == INSTANCE Turns WITH Cycle <- 8
ImplementsTurns == Ring!TurnsSpec

\* With all semaphores and all processes there, the numbers never stop.
GoesRound ==
    present = Procs => \A k \in 1..8 : (\A p \in Procs : at[p] # "off") ~> (last = k)
=============================================================================
