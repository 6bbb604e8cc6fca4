----------------------------- MODULE ButtonShm -----------------------------
(***************************************************************************)
(* The shared memory in which the daemon publishes the buttons (shm.c),    *)
(* and the POSIX objects under it: SHM_NAME and SEM_NAME are names, bound  *)
(* to objects that live on, without the name, while a process holds them.  *)
(*                                                                         *)
(* Each operator is one step of process p in one function of shm.c; it     *)
(* says what becomes of every variable of this module. The button struct   *)
(* of a slot is two words, copied one at a time.                           *)
(***************************************************************************)
EXTENDS Naturals

CONSTANTS
    Procs,      \* the processes
    Shms, Sems, \* the shared memories and semaphores the kernel can hold at once
    NoObj,      \* no object: an unbound name, a failed call, SEM_FAILED
    MaxDevs,    \* MAX_DEVS of common.h
    Blank       \* a word of a fresh object: all zeros, avail is 0

VARIABLES
    shmName, semName,   \* the objects bound to SHM_NAME and SEM_NAME
    sized,              \* sized[o]: shared memory o has been given its size
    words,              \* words[o][s]: the two words of slot s in o
    count,              \* count[o]: the value of semaphore o
    fd, sem             \* what each process has open

shmVars == <<shmName, semName, sized, words, count, fd, sem>>

Slots == 0 .. MaxDevs - 1
Zeros == [s \in Slots |-> <<Blank, Blank>>]

ShmInit ==
    /\ shmName = NoObj
    /\ semName = NoObj
    /\ sized = [o \in Shms |-> FALSE]
    /\ words = [o \in Shms |-> Zeros]
    /\ count = [o \in Sems |-> 0]
    /\ fd = [p \in Procs |-> NoObj]
    /\ sem = [p \in Procs |-> NoObj]

\* The objects that have a name or are open in a process. The kernel frees the
\* others, and a free object may be created again.
Used(name, held) == {name} \cup {held[p] : p \in Procs}

\* What becomes of the objects when p closes its own: frees those left unused.
ShmFrees(name, p) ==
    LET used == Used(name, [fd EXCEPT ![p] = NoObj]) IN
    /\ sized' = [o \in Shms |-> o \in used /\ sized[o]]
    /\ words' = [o \in Shms |-> IF o \in used THEN words[o] ELSE Zeros]

SemFrees(name, p) ==
    LET used == Used(name, [sem EXCEPT ![p] = NoObj]) IN
    count' = [o \in Sems |-> IF o \in used THEN count[o] ELSE 0]

-----------------------------------------------------------------------------
(* initButtonSHM. Both names are created exclusively; a call that finds    *)
(* its name bound fails, and the function returns.                         *)

ShmCreates(p) ==
    /\ shmName = NoObj
    /\ \E o \in Shms \ Used(shmName, fd) :
            /\ shmName' = o
            /\ fd' = [fd EXCEPT ![p] = o]
    /\ UNCHANGED <<semName, sized, words, count, sem>>

\* ftruncate; mmap and mlock follow and succeed.
ShmSizes(p) ==
    /\ sized' = [sized EXCEPT ![fd[p]] = TRUE]
    /\ UNCHANGED <<shmName, semName, words, count, fd, sem>>

SemCreates(p) ==
    /\ semName = NoObj
    /\ \E o \in Sems \ Used(semName, sem) :
            /\ semName' = o
            /\ sem' = [sem EXCEPT ![p] = o]
            /\ count' = [count EXCEPT ![o] = 1]
    /\ UNCHANGED <<shmName, sized, words, fd>>

-----------------------------------------------------------------------------
(* closeButtonSHM.                                                         *)

ShmUnlinks(p) ==
    /\ shmName' = NoObj
    /\ fd' = [fd EXCEPT ![p] = NoObj]
    /\ ShmFrees(NoObj, p)
    /\ UNCHANGED <<semName, count, sem>>

SemUnlinks(p) ==
    /\ semName' = NoObj
    /\ sem' = [sem EXCEPT ![p] = NoObj]
    /\ SemFrees(NoObj, p)
    /\ UNCHANGED <<shmName, sized, words, fd>>

-----------------------------------------------------------------------------
(* startButtonSHM. It gives up where a call fails, leaving sem NULL.       *)

ShmOpens(p) ==
    /\ shmName # NoObj
    /\ fd' = [fd EXCEPT ![p] = shmName]
    /\ UNCHANGED <<shmName, semName, sized, words, count, sem>>

SemOpens(p) ==
    /\ semName # NoObj
    /\ sem' = [sem EXCEPT ![p] = semName]
    /\ UNCHANGED <<shmName, semName, sized, words, count, fd>>

-----------------------------------------------------------------------------
(* witeButtonToSHM and readButtonFromSHM: the semaphore around the copy.   *)

SemWait(p) ==
    /\ sem[p] # NoObj
    /\ count[sem[p]] > 0
    /\ count' = [count EXCEPT ![sem[p]] = @ - 1]
    /\ UNCHANGED <<shmName, semName, sized, words, fd, sem>>

SemPost(p) ==
    /\ count' = [count EXCEPT ![sem[p]] = @ + 1]
    /\ UNCHANGED <<shmName, semName, sized, words, fd, sem>>

\* Word k of slot s is copied from a buffer that holds v.
WriteWord(p, s, k, v) ==
    /\ words' = [words EXCEPT ![fd[p]][s][k] = v]
    /\ UNCHANGED <<shmName, semName, sized, count, fd, sem>>

Word(p, s, k) == words[fd[p]][s][k]

\* The process ends: the kernel closes what it has open, names stay bound and a
\* semaphore keeps its value.
ShmReleases(p) ==
    /\ fd' = [fd EXCEPT ![p] = NoObj]
    /\ sem' = [sem EXCEPT ![p] = NoObj]
    /\ ShmFrees(shmName, p)
    /\ SemFrees(semName, p)
    /\ UNCHANGED <<shmName, semName>>

-----------------------------------------------------------------------------
ShmTypeOK ==
    /\ shmName \in Shms \cup {NoObj}
    /\ semName \in Sems \cup {NoObj}
    /\ sized \in [Shms -> BOOLEAN]
    /\ count \in [Sems -> {0, 1}]
    /\ fd \in [Procs -> Shms \cup {NoObj}]
    /\ sem \in [Procs -> Sems \cup {NoObj}]
=============================================================================
