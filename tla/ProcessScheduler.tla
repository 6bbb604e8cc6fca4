-------------------------- MODULE ProcessScheduler --------------------------
(***************************************************************************)
(* The process scheduler applet: the user enters processes with a time of  *)
(* arrival and a service time, chooses an algorithm and presses "run",     *)
(* which stays disabled until the thread of runAlgorithm.java ends. A step *)
(* is one turn of that thread's loop, one tick of its clock. What it draws *)
(* and prints is left out, and so is how long it sleeps.                   *)
(*                                                                         *)
(* A definition whose comment starts with "Fault:" is not part of the      *)
(* model: it is the definition after it with a bug.                        *)
(***************************************************************************)
EXTENDS Integers, Sequences, SequencesExt

CONSTANTS
    Procs,          \* 1..n, in the order in which they are entered
    Arrivals, Services, \* the times a user enters
    MaxClock        \* bound: ticks

VARIABLES
    algorithm,
    arrival, service,   \* what the user entered
    Q, readyQ, finishQ,
    clock,
    left, finish,   \* TimeLeft and FinishTime of each process
    P,              \* the process that is served
    idle, interrupt, interval, next

entered == <<algorithm, arrival, service>>
vars == <<entered, Q, readyQ, finishQ, clock, left, finish, P, idle, interrupt, interval, next>>

\* In these a process stays in readyQ until it is done, and is served for a quantum.
Quantum == [RR1 |-> 1, RR4 |-> 4, SRT |-> 1]
Preempts == algorithm \in DOMAIN Quantum

\* getParms, which wants a character '0' among the arrivals, and setgrid.
Init ==
    /\ algorithm \in {"FCFS", "RR1", "RR4", "SPN", "SRT"}
    /\ arrival \in [Procs -> Arrivals] /\ service \in [Procs -> Services]
    /\ \E p \in Procs : arrival[p] = 0
    /\ Q = [k \in Procs |-> k] /\ readyQ = <<>> /\ finishQ = <<>>
    /\ clock = -1
    /\ left = service /\ finish = [p \in Procs |-> 0]
    /\ P = 0 /\ idle = TRUE
    /\ interrupt = FALSE /\ interval = 0 /\ next = 0

\* processready, until there is none.
Arrived == SelectSeq(Q, LAMBDA p : arrival[p] <= clock + 1)
Ready == readyQ \o Arrived

\* The loops of SPN and SRT: the first of the processes that need least.
FirstLeast(s, need) ==
    CHOOSE p \in ToSet(s) :
        \E k \in DOMAIN s : s[k] = p /\ \A j \in DOMAIN s :
            need[p] <= need[s[j]] /\ (need[p] = need[s[j]] => k <= j)

\* next, an index from 0.
Next1 == IF next < Len(Ready) - 1 THEN next + 1 ELSE 0

\* Fault: the service times are compared, not what is left.
ChosenByService ==
    CASE algorithm = "FCFS" -> Ready[1]
      [] algorithm \in {"SPN", "SRT"} -> FirstLeast(Ready, service)
      [] OTHER -> Ready[Next1 + 1]

Chosen ==
    CASE algorithm = "FCFS" -> Ready[1]
      [] algorithm = "SPN" -> FirstLeast(Ready, service)
      [] algorithm = "SRT" -> FirstLeast(Ready, left)
      [] OTHER -> Ready[Next1 + 1]

Switches == idle \/ interrupt

Ticks ==
    /\ Len(finishQ) < Cardinality(Procs) /\ clock < MaxClock
    /\ clock' = clock + 1
    /\ Q' = SelectSeq(Q, LAMBDA p : arrival[p] > clock')

\* Nobody is ready: continue.
Idles ==
    /\ Ticks
    /\ Switches /\ Ready = <<>>
    /\ readyQ' = Ready
    /\ interrupt' = FALSE
    /\ interval' = IF interrupt THEN 0 ELSE interval
    /\ UNCHANGED <<entered, finishQ, left, finish, P, idle, next>>

\* One unit of service, to a process that is chosen now or was before.
Serves ==
    /\ Ticks
    /\ Switches => Ready # <<>>
    /\ P' = IF Switches THEN Chosen ELSE P
    /\ left' = [left EXCEPT ![P'] = @ - 1]
    /\ LET done == left'[P'] = 0
           waits == IF Preempts \/ ~Switches THEN Ready ELSE Remove(Ready, P')
           index == IF Switches THEN Next1 ELSE next
           units == (IF interrupt THEN 0 ELSE interval) + 1 IN
       /\ readyQ' = IF done THEN Remove(waits, P') ELSE waits
       /\ finishQ' = IF done THEN Append(finishQ, P') ELSE finishQ
       /\ finish' = IF done THEN [finish EXCEPT ![P'] = clock' + 1] ELSE finish
       /\ idle' = done
       /\ IF Preempts
          THEN /\ next' = IF done THEN index - 1 ELSE index
               /\ interval' = IF done THEN 0 ELSE units
               /\ interrupt' = (~done /\ units = Quantum[algorithm])
          ELSE UNCHANGED <<next, interval, interrupt>>
    /\ UNCHANGED entered

Next == Idles \/ Serves
=============================================================================
