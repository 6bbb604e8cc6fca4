-------------------------- MODULE DaemonProperties --------------------------
(***************************************************************************)
(* What the daemon and the CGI processes (Daemon) must satisfy together.   *)
(***************************************************************************)
EXTENDS Daemon, FiniteSets

-----------------------------------------------------------------------------
(* Safety.                                                                 *)

\* Every variable has its type.
TypeOK ==
    /\ Shm!ShmTypeOK
    /\ words \in [Shms -> [Slots -> Samples \X Samples]]
    /\ Queue!QueueTypeOK
    /\ msgs \in [Queues -> Seq(Cmds)]
    /\ main \in {"off", "create", "size", "sem", "queue", "cmdThread", "btnThread", "up",
                 "joinCmd", "joinBtn", "unlinkShm", "unlinkSem", "unlinkQueue", "exit"}
    /\ running \in BOOLEAN
    /\ fate \in {"exit", "killed", "crashed"}
    /\ cmdPc \in {"none", "test", "receive", "act", "ended"}
    /\ cmd \in Cmds \cup {NoCmd}
    /\ btnPc \in {"none", "test", "input", "wait", "low", "high", "post", "ended"}
    /\ id \in Slots
    /\ sample \in Samples
    /\ cgi \in [Cgis -> {"idle", "open", "map", "openSem", "wait", "low", "high", "post",
                         "end", "openQueue", "send", "closeQueue"}]
    /\ slot \in [Cgis -> Slots]
    /\ ask \in [Cgis -> Cmds \cup {NoCmd}]
    /\ got \in [Cgis -> Seq(Samples)]
    /\ \A p \in Cgis : Len(got[p]) <= 2

\* Between sem_wait and the end of sem_post.
Copying == {"low", "high", "post"}

\* Who is between sem_wait and the end of sem_post on semaphore o.
Holders(o) ==
    {p \in Cgis : sem[p] = o /\ cgi[p] \in Copying}
        \cup (IF sem[D] = o /\ btnPc \in Copying THEN {D} ELSE {})

\* What the daemon works with is what a CGI process that opens the names now gets:
\* a daemon that has a semaphore has both names, also when it found one of them
\* bound by a daemon that ended half way; and its queue has the name.
NamesAreTheDaemons ==
    /\ sem[D] # NoObj /\ main # "unlinkSem" => shmName = fd[D] /\ semName = sem[D]
    /\ mq[D] # NoObj => mqName = mq[D]

\* When the daemon has ended through closeAndExit, none of its names is left,
\* whatever it found when it started: the next one can create them all.
ExitLeavesNothing ==
    main = "off" /\ fate = "exit" => shmName = NoObj /\ semName = NoObj /\ mqName = NoObj

\* The daemon does not crash.
NeverCrashes == fate # "crashed"

\* What docs.dox and controller.h say: what is published as the state of a
\* controller was reported by the controller.
PublishedWasReported ==
    \A o \in Shms, s \in Slots : \A k \in {1, 2} : words[o][s][k] # Garbage

\* The daemon acts on what nobody sent only when it has no queue: getCommand fails at
\* once, and leaves a command nobody has initialized, though initQueue has said
\* "Not listening to commands".
ActsOnReceived == cmdPc = "act" /\ cmd = NoCmd => mq[D] = NoObj

-----------------------------------------------------------------------------
(* The strengthening of the invariants above that every step preserves.    *)

\* What the daemon has open is what it has named, from its creation to the end.
StageInv ==
    /\ main \in {"off", "create", "unlinkSem", "unlinkQueue", "exit"} => fd[D] = NoObj
    /\ main \in {"size", "sem"} => fd[D] # NoObj
    /\ main \in {"off", "create", "size", "sem", "unlinkQueue", "exit"} => sem[D] = NoObj
    /\ main \in {"off", "create", "size", "sem", "queue", "exit"} => mq[D] = NoObj
    /\ main \in {"unlinkSem", "unlinkQueue", "exit"} => shmName = NoObj
    /\ main \in {"unlinkQueue", "exit"} => semName = NoObj
    /\ main = "exit" => mqName = NoObj
    /\ fd[D] # NoObj => shmName = fd[D]
    /\ sem[D] # NoObj => semName = sem[D] /\ (main = "unlinkSem" \/ fd[D] # NoObj)
    /\ mq[D] # NoObj => mqName = mq[D]

\* The threads run while the main thread waits for them at most; the button thread
\* is past sem_wait only with a semaphore.
ThreadInv ==
    /\ main \in {"off", "create", "size", "sem", "queue", "cmdThread"} => cmdPc = "none"
    /\ main \in {"off", "create", "size", "sem", "queue", "cmdThread", "btnThread"}
        => btnPc = "none"
    /\ main = "up" => btnPc # "none"
    /\ main \in {"unlinkShm", "unlinkSem", "unlinkQueue", "exit"} => btnPc = "ended"
    /\ btnPc \in Copying => sem[D] # NoObj

\* A CGI process opens the memory before the semaphore, and copies with both.
CgiInv ==
    \A p \in Cgis :
        /\ cgi[p] \in {"idle", "open", "map", "openSem"} => sem[p] = NoObj
        /\ cgi[p] \in {"map", "openSem"} \/ sem[p] # NoObj => fd[p] # NoObj
        /\ cgi[p] \in Copying => sem[p] # NoObj
        /\ cgi[p] = "high" => Len(got[p]) = 1
        /\ cgi[p] \in {"openQueue", "send"} => ask[p] # NoCmd

\* One process at a time is past sem_wait, and then the counter is zero.
SemInv ==
    \A o \in Sems :
        /\ \A p, q \in Holders(o) : p = q
        /\ Holders(o) # {} => count[o] = 0

\* Who has the daemon's memory and a semaphore has the daemon's semaphore.
PairInv ==
    /\ fd[D] # NoObj /\ sem[D] # NoObj =>
        \A p \in Cgis : fd[p] = fd[D] /\ sem[p] # NoObj => sem[p] = sem[D]
    /\ main \in {"size", "sem"} /\ semName = NoObj =>
        \A p \in Cgis : fd[p] = fd[D] => sem[p] = NoObj

IInv ==
    /\ TypeOK
    /\ StageInv
    /\ ThreadInv
    /\ CgiInv
    /\ SemInv
    /\ PairInv
    /\ ExitLeavesNothing
    /\ ActsOnReceived

-----------------------------------------------------------------------------
(* Liveness.                                                               *)

\* What closeAndExit says ("Wait for the trheads to stop."): SIGINT ends the
\* daemon.
ShutdownCompletes == main = "joinCmd" ~> main = "off"

\* A command arrives in the queue the daemon reads.
CommandArrives ==
    \E p \in Cgis : mq[p] = mq[D] /\ mq[p] # NoObj /\ Len(msgs'[mq[p]]) > Len(msgs[mq[p]])

\* SIGINT ends the daemon if commands keep arriving: the command thread sees
\* running when mq_receive returns.
ShutdownWithCommands ==
    []<><<CommandArrives>>_vars => (main = "joinCmd" ~> main = "off")

\* While the daemon is up, every slot is published again and again, whatever the
\* readers do with the semaphore.
SlotsRefreshed ==
    <>[](main = "up") => \A s \in Slots : []<>(btnPc = "post" /\ id = s)

\* A semaphore that nobody has taken and nobody can take, of a daemon that is gone.
Abandoned(s) == sem[D] # s /\ count[s] = 0 /\ Holders(s) = {}

\* A CGI process that asks for buttons ends, also when the daemon ends meanwhile, but
\* for one that waits for a semaphore with which a daemon was killed.
ReaderReturns ==
    \A p \in Cgis :
        cgi[p] = "open" ~> (cgi[p] = "idle" \/ (sem[p] # NoObj /\ Abandoned(sem[p])))

\* A CGI process that sends a command ends, however full the queue is, as long as
\* the queue it has open is the daemon's.
SenderReturns ==
    \A p \in Cgis : cgi[p] = "send" ~> (cgi[p] = "idle" \/ mq[p] # mq[D])
=============================================================================
