---------------------------- MODULE DaemonHistory ----------------------------
(***************************************************************************)
(* Daemon with a history variable: the abrupt ways in which the daemon has *)
(* been ended so far. It says when the properties below are lost: a daemon *)
(* that was killed in a critical section leaves a semaphore nobody posts   *)
(* and half a struct, and one that did not get to closeAndExit leaves its  *)
(* names bound.                                                            *)
(***************************************************************************)
EXTENDS DaemonProperties

VARIABLE abrupt     \* "EARLY" and "TERM", once the daemon has been ended that way

Early == InterruptedEarly \/ (main = "btnThread" /\ Interrupted)

HistoryInit == Init /\ abrupt = {}

HistoryNext ==
    /\ Next
    /\ abrupt' = abrupt \cup (IF Killed THEN {"TERM"} ELSE {})
                        \cup (IF Early THEN {"EARLY"} ELSE {})

HistorySpec == HistoryInit /\ [][HistoryNext]_<<vars, abrupt>>

-----------------------------------------------------------------------------
(* Safety.                                                                 *)

\* The counter of a semaphore that is in use and the processes in the critical
\* section add up, also for a semaphore whose name is gone or bound to another one:
\* nobody posts what it did not wait for, and nobody is in a critical section that
\* somebody else is in or can enter. Only a daemon that was killed takes a semaphore
\* with it, and even then its counter is never one too high.
SemaphoreAccounts ==
    \A o \in Sems :
        /\ count[o] + Cardinality(Holders(o)) <= 1
        /\ (o = semName \/ \E p \in Procs : sem[p] = o) /\ "TERM" \notin abrupt
            => count[o] + Cardinality(Holders(o)) = 1

\* What readButtonFromSHM copies is one button struct that witeButtonToSHM wrote,
\* never half of one and half of the next, even when the daemon ends and starts
\* again between shm_open and sem_open of the reader, as long as none was killed.
NoTornRead ==
    "TERM" \notin abrupt => \A p \in Cgis : Len(got[p]) = 2 => got[p][1] = got[p][2]

\* The daemon crashes only when it, or one before it, was killed or interrupted
\* before it was up: closeAndExit frees what the threads use when they have ended,
\* and a daemon that starts after an orderly end finds no name bound.
CrashesForCause == fate = "crashed" => abrupt # {}

-----------------------------------------------------------------------------
(* The strengthening of these properties, together with IInv.              *)

\* A semaphore that is in use is free or taken.
AccountsInv ==
    "TERM" \notin abrupt =>
        \A o \in Sems :
            (o = semName \/ \E p \in Procs : sem[p] = o) /\ Holders(o) = {} => count[o] = 1

\* Half a struct is in the memory only where the button thread is copying it, and a
\* reader that has copied one half has copied what is still there.
CopyInv ==
    "TERM" \notin abrupt =>
        /\ \A o \in Shms, s \in Slots :
                words[o][s][1] = words[o][s][2] \/ (btnPc = "high" /\ o = fd[D] /\ s = id)
        /\ btnPc = "high" => words[fd[D]][id][1] = sample
        /\ \A p \in Cgis : cgi[p] = "high" => got[p][1] = words[fd[p]][slot[p]][1]

\* Names are left bound, and a thread is missing, only after an abrupt end.
CauseInv ==
    /\ fate = "killed" => "TERM" \in abrupt
    /\ main \in {"joinCmd", "joinBtn"} /\ btnPc = "none" => "EARLY" \in abrupt
    /\ abrupt = {} =>
        /\ main \in {"off", "create"} => shmName = NoObj
        /\ main \in {"off", "create", "size", "sem"} => semName = NoObj
        /\ main \in {"off", "create", "size", "sem", "unlinkQueue", "exit"} \/ sem[D] # NoObj

HistoryInv == IInv /\ AccountsInv /\ CopyInv /\ NoTornRead /\ CauseInv /\ CrashesForCause
=============================================================================
