------------------------------- MODULE Dekker -------------------------------
(***************************************************************************)
(* dekker_p0.c and dekker_p1.c: two programs that take turns through a     *)
(* byte of shared memory, three times each. Program 0 creates the memory   *)
(* and removes its name when its turn comes a fourth time; program 1 opens *)
(* it. The users start each of them Runs times, one instance at a time.    *)
(***************************************************************************)
EXTENDS Naturals

CONSTANT Runs

VARIABLES
    name,       \* the piece of memory "shm_dekkers" names, or 0
    sized,      \* the pieces that have their byte
    turn,       \* the byte of each piece
    mine,       \* the piece each program has mapped
    at, round,  \* where each program is, and how often it has printed
    runs,       \* how often each has been started
    last        \* the number printed last

vars == <<name, sized, turn, mine, at, round, runs, last>>

Pieces == 1..Runs

Init ==
    /\ name = 0 /\ sized = {}
    /\ turn = [x \in Pieces |-> 0]
    /\ mine = [p \in 0..1 |-> 0]
    /\ at = [p \in 0..1 |-> "off"]
    /\ round = [p \in 0..1 |-> 0]
    /\ runs = [p \in 0..1 |-> 0]
    /\ last = 0

Goes(p, from, to) == at[p] = from /\ at' = [at EXCEPT ![p] = to]

Starts(p) ==
    /\ Goes(p, "off", "open") /\ runs[p] < Runs
    /\ runs' = [runs EXCEPT ![p] = @ + 1]
    /\ round' = [round EXCEPT ![p] = 0]
    /\ mine' = [mine EXCEPT ![p] = 0]
    /\ UNCHANGED <<name, sized, turn, last>>

\* my_shm_create, and set_turn(0); the name is free.
Creates ==
    /\ \/ /\ Goes(0, "open", "size")
          /\ name' = runs[0]
          /\ mine' = [mine EXCEPT ![0] = runs[0]]
          /\ UNCHANGED <<sized, turn>>
       \/ /\ Goes(0, "size", "clear")
          /\ sized' = sized \cup {mine[0]}
          /\ UNCHANGED <<name, mine, turn>>
       \/ /\ Goes(0, "clear", "wait")
          /\ turn' = [turn EXCEPT ![mine[0]] = 0]
          /\ UNCHANGED <<name, mine, sized>>
    /\ UNCHANGED <<round, runs, last>>

\* my_shm_open. Without a name, or with a length of 0, the first read crashes.
Opens ==
    /\ \/ Goes(1, "open", "map") /\ name # 0
       \/ Goes(1, "open", "off") /\ name = 0
       \/ Goes(1, "map", "wait") /\ mine[1] \in sized
       \/ Goes(1, "map", "off") /\ mine[1] \notin sized
    /\ mine' = IF at[1] = "open" THEN [mine EXCEPT ![1] = name] ELSE mine
    /\ UNCHANGED <<name, sized, turn, round, runs, last>>

\* wait_for_turn, the last one of program 0 included.
Waits(p) ==
    /\ Goes(p, "wait", IF round[p] = 3 THEN "close" ELSE "print")
    /\ turn[mine[p]] = p
    /\ UNCHANGED <<name, sized, turn, mine, round, runs, last>>

Outputs(p) ==
    /\ Goes(p, "print", "set")
    /\ round' = [round EXCEPT ![p] = @ + 1]
    /\ last' = 2 * round[p] + p + 1
    /\ UNCHANGED <<name, sized, turn, mine, runs>>

\* set_turn
Sets(p) ==
    /\ Goes(p, "set", IF p = 1 /\ round[p] = 3 THEN "off" ELSE "wait")
    /\ turn' = [turn EXCEPT ![mine[p]] = 1 - p]
    /\ UNCHANGED <<name, sized, mine, round, runs, last>>

Closes ==
    /\ Goes(0, "close", "off")
    /\ name' = 0
    /\ UNCHANGED <<sized, turn, mine, round, runs, last>>

Steps(p) == Waits(p) \/ Outputs(p) \/ Sets(p) \/ (p = 0 /\ (Creates \/ Closes)) \/ (p = 1 /\ Opens)

Next == \E p \in 0..1 : Starts(p) \/ Steps(p)

\* Users start what they like; what is started, the kernel runs.
Fairness == \A p \in 0..1 : WF_vars(Steps(p))

-----------------------------------------------------------------------------
TypeOK ==
    /\ name \in 0..Runs /\ sized \subseteq Pieces
    /\ turn \in [Pieces -> 0..1]
    /\ mine \in [0..1 -> 0..Runs]
    /\ round \in [0..1 -> 0..3]
    /\ last \in 0..6

\* 1 to 6 come in order, in every run, whenever the programs are started.
TwoInTurn == INSTANCE Turns WITH Cycle <- 6
ImplementsTurns == TwoInTurn!TurnsSpec

\* Two programs that have the same memory both come to their end.
BothEnd ==
    \A x \in Pieces :
        (mine = [p \in 0..1 |-> x] /\ round[0] < 3 /\ at[1] = "wait" /\ round[1] = 0)
            ~> (at[0] = "off" /\ name # x)
=============================================================================
