------------------------------- MODULE Daemon -------------------------------
(***************************************************************************)
(* The Xbox-controller system at work: the daemon's main thread with its   *)
(* SIGINT handler, its command and button threads (main.c, controller.c),  *)
(* the CGI processes of the web server (xbcweb/main.c), the init script    *)
(* (S65XbcDaemon), and the shared memory and the message queue between     *)
(* them (ButtonShm, CommandQueue). The USB device table is Devices; here a *)
(* look-up may find a controller or not at any time.                       *)
(*                                                                         *)
(* A definition whose comment starts with "Fault:" is not part of the      *)
(* model: it is the definition after it with a bug, and shows which        *)
(* property notices that bug.                                              *)
(***************************************************************************)
EXTENDS Naturals, Sequences

CONSTANTS
    D,              \* the daemon, as a process
    Readers, Senders,       \* the CGI processes that can run at once: those that
                            \* ask for buttons, those that send commands
    Shms, Sems, Queues,     \* the objects of each kind the kernel can hold at once
    NoObj,                  \* no object
    MaxDevs,        \* MAX_DEVS of common.h
    MaxMessages,    \* MAX_MESSAGES of commands.h
    Reports,        \* what a controller can report
    Blank,          \* a slot whose avail is 0
    Garbage,        \* what an input buffer holds that no transfer has filled
    Cmds, NoCmd,    \* the commands, and an uninitialized command
    Ends            \* the ways the daemon is ended: "INT" once it is up,
                    \* "EARLY" SIGINT before that, "TERM" the init script

Cgis == Readers \cup Senders
Procs == {D} \cup Cgis

ASSUME DaemonAssumption ==
    /\ D \notin Cgis
    /\ NoObj \notin Shms \cup Sems \cup Queues
    /\ MaxDevs \in Nat \ {0}
    /\ MaxMessages \in Nat \ {0}
    /\ Garbage \notin Reports /\ Blank \notin Reports
    /\ Garbage # Blank
    /\ NoCmd \notin Cmds
    /\ Ends \subseteq {"INT", "EARLY", "TERM"}

VARIABLES
    shmName, semName, sized, words, count, fd, sem,     \* ButtonShm
    mqName, msgs, mq,                                   \* CommandQueue
    main,       \* where the daemon's main thread is
    running,    \* main.c's running
    fate,       \* how the daemon ended last: "exit", "killed", "crashed"
    cmdPc, cmd,         \* the command thread, and its cmd
    btnPc, id, sample,  \* the button thread, its loop index, its btns[id]
    cgi,        \* where each CGI process is
    slot,       \* the id it was asked for
    ask,        \* the command it was asked to send
    got         \* the words it has read

Shm == INSTANCE ButtonShm
Queue == INSTANCE CommandQueue

shmVars == <<shmName, semName, sized, words, count, fd, sem>>
queueVars == <<mqName, msgs, mq>>
mainVars == <<main, running, fate>>
cmdVars == <<cmdPc, cmd>>
btnVars == <<btnPc, id, sample>>
cgiVars == <<cgi, slot, ask, got>>
vars == <<shmVars, queueVars, mainVars, cmdVars, btnVars, cgiVars>>

Slots == 0 .. MaxDevs - 1
Samples == Reports \cup {Blank, Garbage}

Init ==
    /\ Shm!ShmInit
    /\ Queue!QueueInit
    /\ main = "off"
    /\ running = FALSE
    /\ fate = "exit"
    /\ cmdPc = "none" /\ cmd = NoCmd
    /\ btnPc = "none" /\ id = 0 /\ sample = Blank
    /\ cgi = [p \in Cgis |-> "idle"]
    /\ slot = [p \in Cgis |-> 0]
    /\ ask = [p \in Cgis |-> NoCmd]
    /\ got = [p \in Cgis |-> <<>>]

-----------------------------------------------------------------------------
(* The end of the daemon, however it comes: threads and open objects go.   *)

Gone(how) ==
    /\ main' = "off"
    /\ running' = FALSE
    /\ fate' = how
    /\ cmdPc' = "none" /\ cmd' = NoCmd
    /\ btnPc' = "none" /\ id' = 0 /\ sample' = Blank
    /\ Shm!ShmReleases(D)
    /\ Queue!QueueCloses(D)
    /\ UNCHANGED cgiVars

-----------------------------------------------------------------------------
(* main: initDevices, initButtonSHM, initQueue, the threads, while(1).     *)

Starts ==
    /\ main = "off"
    /\ main' = "create"
    /\ running' = TRUE
    /\ fate' = "exit"
    /\ UNCHANGED <<shmVars, queueVars, cmdVars, btnVars, cgiVars>>

\* One step of main from pc to next that changes the objects as Step says.
MainStep(pc, next, Step) ==
    /\ main = pc
    /\ Step
    /\ main' = next
    /\ UNCHANGED <<running, fate, cmdVars, btnVars, cgiVars>>

\* Fault: initButtonSHM goes on when shm_open has failed.
InitButtonSHMGoesOn ==
    /\ \/ MainStep("create", "size", Shm!ShmCreates(D))
       \/ MainStep("create", "sem", shmName # NoObj /\ UNCHANGED shmVars)
       \/ MainStep("size", "sem", Shm!ShmSizes(D))
       \/ MainStep("sem", "queue", Shm!SemCreates(D))
       \/ MainStep("sem", "queue", semName # NoObj /\ UNCHANGED shmVars)
    /\ UNCHANGED queueVars

\* initButtonSHM, which returns where the name is bound already.
InitButtonSHM ==
    /\ \/ MainStep("create", "size", Shm!ShmCreates(D))
       \/ MainStep("create", "queue", shmName # NoObj /\ UNCHANGED shmVars)
       \/ MainStep("size", "sem", Shm!ShmSizes(D))
       \/ MainStep("sem", "queue", Shm!SemCreates(D))
       \/ MainStep("sem", "queue", semName # NoObj /\ UNCHANGED shmVars)
    /\ UNCHANGED queueVars

\* initQueue; without a queue, mq_cmds is -1 and the daemon goes on.
InitQueue ==
    /\ MainStep("queue", "cmdThread", Queue!QueueCreates(D) \/ Queue!QueueUnlinks(D))
    /\ UNCHANGED shmVars

StartsCmdThread ==
    /\ main = "cmdThread"
    /\ main' = "btnThread"
    /\ cmdPc' = "test"
    /\ UNCHANGED <<shmVars, queueVars, running, fate, cmd, btnVars, cgiVars>>

StartsBtnThread ==
    /\ main = "btnThread"
    /\ main' = "up"
    /\ btnPc' = "test"
    /\ UNCHANGED <<shmVars, queueVars, running, fate, cmdVars, id, sample, cgiVars>>

-----------------------------------------------------------------------------
(* SIGINT: closeAndExit, in the main thread. A thread that was never       *)
(* created is joined all the same, which ends the process.                 *)

Interrupted ==
    /\ \/ main = "up" /\ "INT" \in Ends
       \/ main = "btnThread" /\ "EARLY" \in Ends
    /\ main' = "joinCmd"
    /\ running' = FALSE
    /\ UNCHANGED <<shmVars, queueVars, fate, cmdVars, btnVars, cgiVars>>

InterruptedEarly ==
    /\ main \in {"create", "size", "sem", "queue", "cmdThread"}
    /\ "EARLY" \in Ends
    /\ Gone("crashed")

\* Fault: closeAndExit does not wait for the button thread.
JoinsCmdOnly ==
    \/ /\ MainStep("joinCmd", "joinBtn", cmdPc = "ended")
       /\ UNCHANGED <<shmVars, queueVars>>
    \/ /\ MainStep("joinBtn", "unlinkShm", btnPc # "none")
       /\ UNCHANGED <<shmVars, queueVars>>
    \/ /\ main = "joinBtn" /\ btnPc = "none"
       /\ Gone("crashed")

Joins ==
    \/ /\ MainStep("joinCmd", "joinBtn", cmdPc = "ended")
       /\ UNCHANGED <<shmVars, queueVars>>
    \/ /\ MainStep("joinBtn", "unlinkShm", btnPc = "ended")
       /\ UNCHANGED <<shmVars, queueVars>>
    \/ /\ main = "joinBtn" /\ btnPc = "none"
       /\ Gone("crashed")

\* Fault: closeButtonSHM closes the semaphore and leaves its name.
ClosesKeepingSem ==
    \/ /\ \/ MainStep("unlinkShm", "unlinkSem", Shm!ShmUnlinks(D))
          \/ MainStep("unlinkSem", "unlinkQueue", UNCHANGED shmVars)
       /\ UNCHANGED queueVars
    \/ /\ MainStep("unlinkQueue", "exit", Queue!QueueUnlinks(D))
       /\ UNCHANGED shmVars

\* closeButtonSHM, closeDevices, closeQueue.
Closes ==
    \/ /\ \/ MainStep("unlinkShm", "unlinkSem", Shm!ShmUnlinks(D))
          \/ MainStep("unlinkSem", "unlinkQueue", Shm!SemUnlinks(D))
       /\ UNCHANGED queueVars
    \/ /\ MainStep("unlinkQueue", "exit", Queue!QueueUnlinks(D))
       /\ UNCHANGED shmVars

Exits == main = "exit" /\ Gone("exit")

\* The init script stops the daemon with killall, that is with SIGTERM, for which
\* there is no handler.
Killed ==
    /\ main # "off"
    /\ "TERM" \in Ends
    /\ Gone("killed")

-----------------------------------------------------------------------------
(* commandListenerThread.                                                  *)

\* Fault: the loop does not look at running.
CmdTestsNothing ==
    /\ cmdPc = "test"
    /\ cmdPc' = "receive"
    /\ UNCHANGED <<shmVars, queueVars, mainVars, cmd, btnVars, cgiVars>>

CmdTests ==
    /\ cmdPc = "test"
    /\ cmdPc' = IF running THEN "receive" ELSE "ended"
    /\ UNCHANGED <<shmVars, queueVars, mainVars, cmd, btnVars, cgiVars>>

\* Fault: the buffer of mq_receive is too small, which is an error too.
CmdReceivesNone ==
    /\ cmdPc = "receive"
    /\ \/ Queue!Receives(D) /\ UNCHANGED cmd
       \/ mq[D] = NoObj /\ UNCHANGED <<queueVars, cmd>>
    /\ cmdPc' = "act"
    /\ UNCHANGED <<shmVars, mainVars, btnVars, cgiVars>>

\* getCommand, which leaves cmd as it is when mq_receive fails.
CmdReceives ==
    /\ cmdPc = "receive"
    /\ \/ Queue!Receives(D) /\ cmd' = Head(msgs[mq[D]])
       \/ mq[D] = NoObj /\ UNCHANGED <<queueVars, cmd>>
    /\ cmdPc' = "act"
    /\ UNCHANGED <<shmVars, mainVars, btnVars, cgiVars>>

\* Fault: a command without a controller to send it to ends the thread.
CmdActsOnce ==
    /\ cmdPc = "act"
    /\ cmdPc' \in {"test", "ended"}
    /\ UNCHANGED <<shmVars, queueVars, mainVars, cmd, btnVars, cgiVars>>

\* The controller with that id, if there is one, is sent the command.
CmdActs ==
    /\ cmdPc = "act"
    /\ cmdPc' = "test"
    /\ UNCHANGED <<shmVars, queueVars, mainVars, cmd, btnVars, cgiVars>>

-----------------------------------------------------------------------------
(* buttonReaderThread.                                                     *)

BtnTests ==
    /\ btnPc = "test"
    /\ btnPc' = IF running THEN "input" ELSE "ended"
    /\ UNCHANGED <<shmVars, queueVars, mainVars, cmdVars, id, sample, cgiVars>>

\* getControllerInput: no handle, a report of the controller, or a transfer that
\* fails or times out, after which the input buffer is decoded as it is.
BtnInputs ==
    /\ btnPc = "input"
    /\ \/ sample' = Blank
       \/ sample' \in Reports
       \/ sample' = Garbage
    /\ btnPc' = "wait"
    /\ UNCHANGED <<shmVars, queueVars, mainVars, cmdVars, id, cgiVars>>

\* Fault: witeButtonToSHM does not wait for the semaphore.
BtnBarges ==
    /\ btnPc = "wait"
    /\ btnPc' = "low"
    /\ UNCHANGED <<shmVars, queueVars, mainVars, cmdVars, id, sample, cgiVars>>

\* witeButtonToSHM. sem_wait(NULL) ends the process.
BtnWaits ==
    \/ /\ btnPc = "wait"
       /\ Shm!SemWait(D)
       /\ btnPc' = "low"
       /\ UNCHANGED <<queueVars, mainVars, cmdVars, id, sample, cgiVars>>
    \/ /\ btnPc = "wait"
       /\ sem[D] = NoObj
       /\ Gone("crashed")

BtnWrites ==
    /\ \/ btnPc = "low" /\ btnPc' = "high" /\ Shm!WriteWord(D, id, 1, sample)
       \/ btnPc = "high" /\ btnPc' = "post" /\ Shm!WriteWord(D, id, 2, sample)
    /\ UNCHANGED <<queueVars, mainVars, cmdVars, id, sample, cgiVars>>

\* Fault: the loop counts to MAX_DEVS inclusive.
BtnPostsPast ==
    /\ btnPc = "post"
    /\ Shm!SemPost(D)
    /\ IF id < MaxDevs
       THEN btnPc' = "input" /\ id' = id + 1
       ELSE btnPc' = "test" /\ id' = 0
    /\ sample' = Blank
    /\ UNCHANGED <<queueVars, mainVars, cmdVars, cgiVars>>

\* The next slot, or the next round. The sample is not used again.
BtnPosts ==
    /\ btnPc = "post"
    /\ Shm!SemPost(D)
    /\ IF id + 1 < MaxDevs
       THEN btnPc' = "input" /\ id' = id + 1
       ELSE btnPc' = "test" /\ id' = 0
    /\ sample' = Blank
    /\ UNCHANGED <<queueVars, mainVars, cmdVars, cgiVars>>
-----------------------------------------------------------------------------
(* A CGI process (xbcweb): the browser asks for the buttons of a slot or   *)
(* for a command to be sent. An id past the table ends it at once.         *)

\* One step of process p from pc to next that changes the objects as Step says.
CgiStep(p, pc, next, Step) ==
    /\ cgi[p] = pc
    /\ Step
    /\ cgi' = [cgi EXCEPT ![p] = next]
    /\ UNCHANGED <<mainVars, cmdVars, btnVars>>

CgiAsks(p) ==
    /\ \/ /\ p \in Readers
          /\ \E s \in Slots : slot' = [slot EXCEPT ![p] = s]
          /\ CgiStep(p, "idle", "open", UNCHANGED <<shmVars, ask>>)
       \/ /\ p \in Senders
          /\ \E c \in Cmds : ask' = [ask EXCEPT ![p] = c]
          /\ CgiStep(p, "idle", "openQueue", UNCHANGED <<shmVars, slot>>)
    /\ UNCHANGED <<queueVars, got>>

\* startButtonSHM
CgiOpens(p) ==
    /\ \/ CgiStep(p, "open", "map", Shm!ShmOpens(p))
       \/ CgiStep(p, "open", "wait", shmName = NoObj /\ UNCHANGED shmVars)
       \/ CgiStep(p, "map", "openSem", sized[fd[p]] /\ UNCHANGED shmVars)
       \/ CgiStep(p, "map", "wait", ~sized[fd[p]] /\ UNCHANGED shmVars)
       \/ CgiStep(p, "openSem", "wait", Shm!SemOpens(p))
       \/ CgiStep(p, "openSem", "wait", semName = NoObj /\ UNCHANGED shmVars)
    /\ UNCHANGED <<queueVars, slot, ask, got>>

\* readButtonFromSHM. sem_wait(NULL) ends the process.
CgiWaits(p) ==
    /\ \/ CgiStep(p, "wait", "low", Shm!SemWait(p))
       \/ CgiStep(p, "wait", "end", sem[p] = NoObj /\ UNCHANGED shmVars)
    /\ UNCHANGED <<queueVars, slot, ask, got>>

CgiReads(p) ==
    /\ \/ /\ CgiStep(p, "low", "high", UNCHANGED shmVars)
          /\ got' = [got EXCEPT ![p] = <<Shm!Word(p, slot[p], 1)>>]
       \/ /\ CgiStep(p, "high", "post", UNCHANGED shmVars)
          /\ got' = [got EXCEPT ![p] = Append(@, Shm!Word(p, slot[p], 2))]
    /\ UNCHANGED <<queueVars, slot, ask>>

\* Fault: readButtonFromSHM returns without sem_post.
CgiKeeps(p) ==
    /\ CgiStep(p, "post", "end", UNCHANGED shmVars)
    /\ UNCHANGED <<queueVars, slot, ask, got>>

CgiPosts(p) ==
    /\ CgiStep(p, "post", "end", Shm!SemPost(p))
    /\ UNCHANGED <<queueVars, slot, ask, got>>

\* startQueue, sendCommand, which fails at once without a queue, stopQueue.
CgiSends(p) ==
    /\ \/ CgiStep(p, "openQueue", "send", Queue!QueueOpens(p))
       \/ CgiStep(p, "send", "closeQueue", Queue!Sends(p, ask[p]))
       \/ CgiStep(p, "send", "closeQueue", mq[p] = NoObj /\ UNCHANGED queueVars)
       \/ CgiStep(p, "closeQueue", "end", Queue!QueueCloses(p))
    /\ UNCHANGED <<shmVars, slot, ask, got>>

CgiEnds(p) ==
    /\ CgiStep(p, "end", "idle", Shm!ShmReleases(p))
    /\ slot' = [slot EXCEPT ![p] = 0]
    /\ ask' = [ask EXCEPT ![p] = NoCmd]
    /\ got' = [got EXCEPT ![p] = <<>>]
    /\ UNCHANGED queueVars

-----------------------------------------------------------------------------
MainNext == InitButtonSHM \/ InitQueue \/ StartsCmdThread \/ StartsBtnThread
            \/ Joins \/ Closes \/ Exits

Signal == Interrupted \/ InterruptedEarly \/ Killed

CmdNext == CmdTests \/ CmdReceives \/ CmdActs

BtnNext == BtnTests \/ BtnInputs \/ BtnWaits \/ BtnWrites \/ BtnPosts

CgiNext(p) ==
    CgiOpens(p) \/ CgiWaits(p) \/ CgiReads(p) \/ CgiPosts(p) \/ CgiSends(p) \/ CgiEnds(p)

Next ==
    \/ Starts
    \/ Signal
    \/ MainNext
    \/ CmdNext
    \/ BtnNext
    \/ \E p \in Cgis : CgiAsks(p) \/ CgiNext(p)

Spec == Init /\ [][Next]_vars

-----------------------------------------------------------------------------
(* Fairness. Every thread and process that can go on does (transfers have  *)
(* a time-out, the processes run at one priority); a semaphore and a queue *)
(* wake those that wait for them in turn. Nobody must start the daemon,    *)
(* send a signal, or make a request.                                       *)

Fairness ==
    /\ WF_vars(MainNext)
    /\ WF_vars(CmdNext)
    /\ WF_vars(BtnNext)
    /\ SF_vars(BtnWaits)
    /\ \A p \in Cgis :
        /\ WF_vars(CgiNext(p))
        /\ SF_vars(CgiWaits(p))
        /\ SF_vars(CgiSends(p))

FairSpec == Spec /\ Fairness
=============================================================================
