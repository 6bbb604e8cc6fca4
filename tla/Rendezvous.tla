----------------------------- MODULE Rendezvous -----------------------------
(***************************************************************************)
(* rendez.c: processes that meet between their statements 1 and 2. Process *)
(* 0 creates two semaphores and a byte of shared memory, the others open   *)
(* them. Each sets its own bit in the byte; the one that sets the last bit *)
(* opens the semaphore sync, and everybody who gets through lets the next  *)
(* one in. Afterwards everybody removes the names.                         *)
(*                                                                         *)
(* A definition whose comment starts with "Fault:" is not part of the      *)
(* model: it is the definition after it with a bug.                        *)
(***************************************************************************)
EXTENDS Naturals, Sequences, FiniteSets

CONSTANTS
    Procs,          \* the numbers the users start the program with
    Early           \* those that may be started before process 0 is ready

VARIABLES
    names,          \* the names that are bound, and "sized" once the memory has its byte
    semFlags, semSync,  \* the semaphores' values
    store,          \* the bits that are set in the byte
    flags,          \* each process's own copy of it
    at, step,       \* where each process is, and how far with the names
    has             \* what each process has opened

vars == <<names, semFlags, semSync, store, flags, at, step, has>>

Creation == <<"flags", "sync", "flagstore", "sized", "zero">>
Opening == <<"sync", "flags", "flagstore", "sized">>
Removal == << {"flags"}, {"sync"}, {"flagstore", "sized"} >>

\* The bit of a process; 0x0F is all of them. createMask knows no process 4.
Mask(p) == IF p \in 0..3 THEN {p} ELSE {}
Full == 0..3

Init ==
    /\ names = {} /\ semFlags = 1 /\ semSync = 0
    /\ store = {}
    /\ flags = [p \in Procs |-> {}]
    /\ at = [p \in Procs |-> "off"]
    /\ step = [p \in Procs |-> 1]
    /\ has = [p \in Procs |-> {}]

Goes(p, from, to) == at[p] = from /\ at' = [at EXCEPT ![p] = to]

Starts(p) ==
    /\ Goes(p, "off", "init")
    /\ p \notin Early \cup {0} => at[0] \notin {"off", "init"}
    /\ UNCHANGED <<names, semFlags, semSync, store, flags, step, has>>

\* initSemSHM. The memory is new, and zero, when process 0 writes the 0.
Creates ==
    LET x == Creation[step[0]] IN
    /\ Goes(0, "init", IF x = "zero" THEN "wait" ELSE "init")
    /\ step' = [step EXCEPT ![0] = IF x = "zero" THEN 1 ELSE @ + 1]
    /\ names' = (names \cup {x}) \ {"zero"}
    /\ has' = [has EXCEPT ![0] = @ \cup {x}]
    /\ store' = IF x = "zero" THEN flags[0] ELSE store
    /\ UNCHANGED <<semFlags, semSync, flags>>

\* openSemSHM, which goes on without what is not there.
Opens(p) ==
    LET x == Opening[step[p]]
        last == step[p] = Len(Opening) IN
    /\ p # 0
    /\ Goes(p, "init", IF last THEN "wait" ELSE "init")
    /\ step' = [step EXCEPT ![p] = IF last THEN 1 ELSE @ + 1]
    /\ has' = [has EXCEPT ![p] = @ \cup ({x} \cap names)]
    /\ UNCHANGED <<names, semFlags, semSync, store, flags>>

\* sem_wait of a null semaphore, or memory that could not be mapped, perhaps with
\* the flags' semaphore taken.
Crashes(p) ==
    /\ \/ Goes(p, "wait", "crashed") /\ "flags" \notin has[p]
       \/ Goes(p, "read", "crashed") /\ ~ {"flagstore", "sized"} \subseteq has[p]
       \/ Goes(p, "check", "crashed") /\ "sync" \notin has[p]
    /\ UNCHANGED <<names, semFlags, semSync, store, flags, step, has>>

\* The critical section: wait, read, write, post.
Enters(p) ==
    /\ Goes(p, "wait", "read") /\ "flags" \in has[p]
    /\ semFlags > 0 /\ semFlags' = semFlags - 1
    /\ UNCHANGED <<names, semSync, store, flags, step, has>>

\* Fault: the mask is not joined with what was there.
ReadsOwn(p) ==
    /\ Goes(p, "read", "write") /\ {"flagstore", "sized"} \subseteq has[p]
    /\ flags' = [flags EXCEPT ![p] = Mask(p)]
    /\ UNCHANGED <<names, semFlags, semSync, store, step, has>>

ReadsFlags(p) ==
    /\ Goes(p, "read", "write") /\ {"flagstore", "sized"} \subseteq has[p]
    /\ flags' = [flags EXCEPT ![p] = store \cup Mask(p)]
    /\ UNCHANGED <<names, semFlags, semSync, store, step, has>>

WritesFlags(p) ==
    /\ Goes(p, "write", "leave")
    /\ store' = flags[p]
    /\ UNCHANGED <<names, semFlags, semSync, flags, step, has>>

Leaves(p) ==
    /\ Goes(p, "leave", "check")
    /\ semFlags' = semFlags + 1
    /\ UNCHANGED <<names, semSync, store, flags, step, has>>

Checks(p) ==
    /\ "sync" \in has[p]
    /\ Goes(p, "check", "through")
    /\ \/ flags[p] = Full /\ semSync' = semSync + 1
       \/ flags[p] # Full /\ semSync > 0 /\ semSync' = semSync - 1
    /\ UNCHANGED <<names, semFlags, store, flags, step, has>>

\* Fault: who gets through keeps the others out.
Keeps(p) ==
    /\ Goes(p, "through", "passed")
    /\ UNCHANGED <<names, semFlags, semSync, store, flags, step, has>>

LetsIn(p) ==
    /\ Goes(p, "through", "passed")
    /\ semSync' = semSync + 1
    /\ UNCHANGED <<names, semFlags, store, flags, step, has>>

\* cleanupSemSHM, in each process.
Removes(p) ==
    /\ Goes(p, "passed", IF step[p] = Len(Removal) THEN "done" ELSE "passed")
    /\ names' = names \ Removal[step[p]]
    /\ step' = [step EXCEPT ![p] = @ + 1]
    /\ UNCHANGED <<semFlags, semSync, store, flags, has>>

Runs(p) ==
    \/ Opens(p) \/ Crashes(p) \/ Enters(p) \/ ReadsFlags(p) \/ WritesFlags(p) \/ Leaves(p)
    \/ Checks(p) \/ LetsIn(p) \/ Removes(p)

Next == Creates \/ \E p \in Procs : Starts(p) \/ Runs(p)

\* Users start what they like; what is started, the kernel runs.
Fairness == WF_vars(Creates) /\ \A p \in Procs : WF_vars(Runs(p))

-----------------------------------------------------------------------------
TypeOK ==
    /\ names \subseteq {"flags", "sync", "flagstore", "sized"}
    /\ semFlags \in 0..1 /\ semSync \in 0..2
    /\ store \subseteq Full
    /\ flags \in [Procs -> SUBSET Full]
    /\ has \in [Procs -> SUBSET ({"zero"} \cup {Creation[k] : k \in 1..4})]

At(labels) == {p \in Procs : at[p] \in labels}
Passed == At({"passed", "done"})
Arrived == At({"leave", "check", "through", "passed", "done"})

\* Nobody executes statement 2 before everybody has executed statement 1 and said so.
Meeting == INSTANCE Barrier WITH Everybody <- Procs, arrived <- Arrived, passed <- Passed

\* When all have been started, process 0 in time, everybody gets to statement 2, and
\* no name is left behind for the next round to find.
EverybodyPasses == At({"off"}) = {} /\ Early = {} ~> At({"done"}) = Procs /\ names = {}

\* Also when processes are started too early and crash: nobody passes before
\* everybody has read the flags and added its own.
NobodyPassesAlone == Passed # {} => \A p \in Procs : p \in flags[p]
=============================================================================
