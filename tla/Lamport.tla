------------------------------- MODULE Lamport -------------------------------
(***************************************************************************)
(* lamport.c: a master process makes the shared memory, in which clients   *)
(* write their process ids, and kills them when its user has had enough.   *)
(* lock and unlock are left to the student, and empty; so is what they     *)
(* share. Whoever comes first makes the memory.                            *)
(*                                                                         *)
(* A definition whose comment starts with "Fault:" is not part of the      *)
(* model: it is the definition after it with a bug.                        *)
(***************************************************************************)
EXTENDS Integers

CONSTANTS
    Ids,            \* the client ids, 0 .. NROF_CLIENTS - 1
    Clients         \* the processes users start as clients, each with an id

Nobody == 0
Pieces == 1..2      \* bound: pieces of memory that are made under the name

VARIABLES
    name,           \* the piece the name stands for, or 0
    made,           \* how many have been made
    pid,            \* the array of each piece
    mine,           \* the piece each process has mapped
    id,             \* each client's argument
    at,             \* where each client is
    master, i,      \* where the master is, and its loop
    late            \* the clients that wrote their id behind the master's back

vars == <<name, made, pid, mine, id, at, master, i, late>>
Master == "master"

Init ==
    /\ name = 0 /\ made = 0
    /\ pid = [x \in Pieces |-> [k \in Ids |-> Nobody]]
    /\ mine = [p \in Clients \cup {Master} |-> 0]
    /\ id \in [Clients -> Ids]
    /\ at = [c \in Clients |-> "off"]
    /\ master = "off" /\ i = 0
    /\ late = {}

\* my_shm_open, with O_CREAT and without O_EXCL.
OpensShm(p) ==
    IF name # 0 THEN mine' = [mine EXCEPT ![p] = name] /\ UNCHANGED <<name, made>>
    ELSE /\ made + 1 \in Pieces
         /\ made' = made + 1 /\ name' = made + 1
         /\ mine' = [mine EXCEPT ![p] = made + 1]

\* Fault: memset with its arguments in the other order, after clients have come.
MasterClears ==
    /\ master = "off" /\ master' = "wait"
    /\ OpensShm(Master)
    /\ pid' = [pid EXCEPT ![mine'[Master]] = [k \in Ids |-> Nobody]]
    /\ UNCHANGED <<id, at, i, late>>

\* run_master up to the fgets. Its memset writes no byte.
MasterStarts ==
    /\ master = "off" /\ master' = "wait"
    /\ OpensShm(Master)
    /\ UNCHANGED <<pid, id, at, i, late>>

\* The loop of kills, one slot a step.
MasterKills ==
    /\ master \in {"wait", "kill"} /\ i \in Ids
    /\ master' = "kill" /\ i' = i + 1
    /\ at' = [c \in Clients |-> IF pid[mine[Master]][i] = c THEN "killed" ELSE at[c]]
    /\ UNCHANGED <<name, made, pid, mine, id, late>>

\* my_shm_close.
MasterEnds ==
    /\ master = "kill" /\ i \notin Ids
    /\ master' = "end" /\ name' = 0
    /\ UNCHANGED <<made, pid, mine, id, at, i, late>>

\* run_client.
Starts(c) ==
    /\ at[c] = "off" /\ at' = [at EXCEPT ![c] = "register"]
    /\ OpensShm(c)
    /\ UNCHANGED <<pid, id, master, i, late>>

Registers(c) ==
    /\ at[c] = "register" /\ at' = [at EXCEPT ![c] = "loop"]
    /\ pid' = [pid EXCEPT ![mine[c]][id[c]] = c]
    /\ late' = IF i > id[c] THEN late \cup {c} ELSE late
    /\ UNCHANGED <<name, made, mine, id, master, i>>

Next ==
    \/ MasterStarts \/ MasterKills \/ MasterEnds
    \/ \E c \in Clients : Starts(c) \/ Registers(c)

-----------------------------------------------------------------------------
\* "to stop the client processes": when the master has ended, a client still runs only
\* if it came too late for the loop, or another had its id.
MasterStopsClients ==
    \A c \in Clients :
        master = "end" /\ at[c] = "loop" =>
            c \in late \/ mine[c] # mine[Master] \/ \E x \in Clients \ {c} : id[x] = id[c]
=============================================================================
