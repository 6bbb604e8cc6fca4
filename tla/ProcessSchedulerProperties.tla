--------------------- MODULE ProcessSchedulerProperties ---------------------
(***************************************************************************)
(* What the algorithms of the applet are known for. Two histories go with  *)
(* a run of it: a rival, which serves whom it likes in each tick, and what *)
(* others have had since a process was served last.                        *)
(***************************************************************************)
EXTENDS ProcessScheduler

VARIABLES
    rival,      \* what each process still needs in the hands of the rival of SRT
    since       \* units each other process has had since p came or was served

There(need, tick) == {p \in Procs : arrival[p] <= tick /\ need[p] > 0}

HistoryInit ==
    /\ Init
    /\ rival = service
    /\ since = [p \in Procs |-> [q \in Procs |-> 0]]

HistoryNext ==
    /\ Next
    /\ IF algorithm = "SRT"
       THEN rival' = rival \/ \E p \in There(rival, clock') : rival' = [rival EXCEPT ![p] = @ - 1]
       ELSE rival' = rival
    /\ since' = IF algorithm \notin {"RR1", "RR4"} THEN since ELSE
        [p \in Procs |-> [q \in Procs |->
            IF p \in There(left, clock') /\ left'[p] = left[p]
            THEN since[p][q] + left[q] - left'[q] ELSE 0]]

\* Whether the times entered make sense: nothing checks the service times.
Positive == \A p \in Procs : service[p] > 0

\* No tick is lost as long as a process is there that is not done.
Server == INSTANCE WorkConserving
ImplementsServer == [][Positive => Server!Tick]_<<clock, left>>

\* With processes that need something, the thread ends and the button "run" comes
\* back: after the last arrival there are as many ticks as units to serve.
EndsUnlessZero == clock = MaxClock /\ Positive => Len(finishQ) = Cardinality(Procs)

\* Round robin: who waits sees each other process served for at most one quantum.
NobodyWaitsLong ==
    algorithm \in {"RR1", "RR4"} /\ Positive =>
        \A p, q \in Procs : since[p][q] <= Quantum[algorithm]

\* Shortest remaining time: no other way of serving would have finished more
\* processes by now.
NoRivalAhead ==
    algorithm = "SRT" /\ Positive =>
        Cardinality({p \in Procs : rival[p] = 0}) <= Cardinality({p \in Procs : left[p] = 0})

\* First come, first served: processes end in the order of arrival, and of entry.
InOrderOfArrival ==
    algorithm = "FCFS" =>
        \A j, k \in DOMAIN finishQ : j < k =>
            LET p == finishQ[j] q == finishQ[k] IN
            arrival[p] < arrival[q] \/ (arrival[p] = arrival[q] /\ p < q)

\* FCFS and SPN do not interrupt; a process that is chosen is served to its end.
OneAtATime ==
    algorithm \in {"FCFS", "SPN"} =>
        Cardinality({p \in Procs : left[p] \in 1 .. service[p] - 1}) <= 1

\* What is reported as turnaround time is at least the service time.
TurnaroundCovers ==
    \A k \in DOMAIN finishQ : finish[finishQ[k]] - arrival[finishQ[k]] >= service[finishQ[k]]
=============================================================================
