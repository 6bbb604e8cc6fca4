------------------------------ MODULE Exercises ------------------------------
(***************************************************************************)
(* The course exercises side by side. They have nothing to do with each    *)
(* other and share runs only: a scene, chosen at the start, is one of them *)
(* with bounds of its own, and the variables of the others stay as they    *)
(* are.                                                                    *)
(***************************************************************************)
EXTENDS Naturals, Sequences, FiniteSets

CONSTANTS
    Scenes,         \* the scenes of a run
    MaxData,        \* bound: numbers produced, in each scene with a buffer
    \* ProducerConsumer, BaBuffer
    P, Consumers, Size, Producers, Takers, SizeOf, BaPlaces,
    \* Rendezvous, Dekker, SharedAlphabet, Lamport: the processes that may come too
    \* early, and how often programs are started
    Early, MaxRuns, Letters, PollsA, PollsB, Ids, Clients,
    \* ProcessScheduler
    Jobs, Arrivals, Services, MaxClock,
    \* TcpEcho, TcpChat, DemoController
    Callers, Buffer, Strings, Whole, MaxLines, MaxPresses

\* Nobody is two programs at once.
ASSUME BufferAssumption ==
    /\ Size \in Nat \ {0}
    /\ IsFiniteSet(Consumers) /\ P \notin Consumers
    /\ MaxData \in [{"single", "pair", "several", "once", "twice"} -> Nat]

\* The producers agree on a size, and the memory can be that long.
ASSUME ProducersAssumption ==
    /\ IsFiniteSet(Producers) /\ IsFiniteSet(Takers) /\ Producers \cap Takers = {}
    /\ Producers # {} /\ BaPlaces \subseteq Nat
    /\ \A p, q \in Producers :
        SizeOf[p] = SizeOf[q] /\ SizeOf[p] \in Nat \ {0} /\ 0 .. SizeOf[p] - 1 \subseteq BaPlaces

\* The process ids of lamport.c's clients are not 0, and their numbers are 0, 1, ...
ASSUME LamportAssumption ==
    /\ 0 \notin Clients /\ "master" \notin Clients
    /\ Ids \subseteq Nat /\ \A k \in Ids : 0 .. k \subseteq Ids

ASSUME AlphabetAssumption == Letters \in Nat \ {0}

ASSUME DekkerAssumption == MaxRuns \in Nat

\* A string of an echo client ends no earlier than the one before it.
ASSUME EchoAssumption ==
    /\ Buffer \in Nat
    /\ Strings \subseteq Seq(Nat)
    /\ \A s \in Strings : \A k \in 1 .. Len(s) - 1 : s[k] <= s[k + 1]

\* The server of the chat is none of its clients.
ASSUME ChatAssumption == "server" \notin Callers

VARIABLES
    scene,
    \* ProducerConsumer
    made, unmade, sem, buffer, in, data, pc, step, out, taken, alarm, starts,
    \* BaBuffer
    names, gone, len, pcSized, baSem, baBuffer, value, baIn, baOut, at, baStep, has,
    size, read, crashed, creations, baTaken, baAlarm,
    \* Rendezvous
    rvNames, semFlags, semSync, store, flags, rvAt, rvStep, rvHas,
    \* SemSequence
    present, sqSem, sqAt, half, sqLast,
    \* Dekker
    name, sized, turn, mine, dkAt, round, runs, last,
    \* SharedAlphabet
    saName, saStore, saAt, index, cntr, saRead, seen, saRuns,
    \* Lamport
    laName, laMade, pid, laMine, id, laAt, master, slot, late,
    \* ProcessScheduler and its histories
    algorithm, arrival, service, Q, readyQ, finishQ, clock, left, finish, served,
    idle, interrupt, interval, next, rival, since,
    \* TcpEcho
    server, main, backlog, open, handler, ecBuffer, ecData, i, client, got, ecUp, ecDown, ecGone,
    \* TcpChat
    chAt, talk, partner, queue, line, typed, chUp, chDown, heard, chGone,
    \* DemoController
    held, reported, led, rumble, buttons, demoStep, demoAt, to_quit, presses, misled, failed

ringVars == <<made, unmade, sem, buffer, in, data, pc, step, out, taken, alarm, starts>>
baVars == <<names, gone, len, pcSized, baSem, baBuffer, value, baIn, baOut, at, baStep, has,
            size, read, crashed, creations, baTaken, baAlarm>>
rendezVars == <<rvNames, semFlags, semSync, store, flags, rvAt, rvStep, rvHas>>
sequenceVars == <<present, sqSem, sqAt, half, sqLast>>
dekkerVars == <<name, sized, turn, mine, dkAt, round, runs, last>>
alphabetVars == <<saName, saStore, saAt, index, cntr, saRead, seen, saRuns>>
lamportVars == <<laName, laMade, pid, laMine, id, laAt, master, slot, late>>
appletVars == <<algorithm, arrival, service, Q, readyQ, finishQ, clock, left, finish, served,
                idle, interrupt, interval, next, rival, since>>
echoVars == <<server, main, backlog, open, handler, ecBuffer, ecData, i, client, got,
              ecUp, ecDown, ecGone>>
chatVars == <<chAt, talk, partner, queue, line, typed, chUp, chDown, heard, chGone>>
demoVars == <<held, reported, led, rumble, buttons, demoStep, demoAt, to_quit, presses, misled, failed>>
memoryVars == <<ringVars, baVars, alphabetVars, lamportVars>>
orderVars == <<rendezVars, sequenceVars, dekkerVars, appletVars>>
streamVars == <<echoVars, chatVars, demoVars>>
vars == <<scene, memoryVars, orderVars, streamVars>>

\* A producer and one consumer; two consumers; and two that are started three times,
\* and resets.
Single == INSTANCE ProducerConsumerProperties WITH
    MaxData <- MaxData.single, Resets <- FALSE, MaxStarts <- 1

Pair == INSTANCE ProducerConsumerProperties WITH
    MaxData <- MaxData.pair, Resets <- FALSE, MaxStarts <- 2

Several == INSTANCE ProducerConsumerProperties WITH
    MaxData <- MaxData.several, Resets <- TRUE, MaxStarts <- 3

\* Two producers that agree on the size: one of them creates the names; or both do.
Once == INSTANCE BaBufferProperties WITH
    Consumers <- Takers, Places <- BaPlaces, MaxData <- MaxData.once, MaxCreations <- 1,
    sem <- baSem, buffer <- baBuffer, in <- baIn, out <- baOut, step <- baStep,
    taken <- baTaken, alarm <- baAlarm

Twice == INSTANCE BaBufferProperties WITH
    Consumers <- Takers, Places <- BaPlaces, MaxData <- MaxData.twice, MaxCreations <- 2,
    sem <- baSem, buffer <- baBuffer, in <- baIn, out <- baOut, step <- baStep,
    taken <- baTaken, alarm <- baAlarm

\* Four processes, started in the right order; and two of them at any time.
InOrder == INSTANCE Rendezvous WITH
    Procs <- 0..3, Early <- {},
    names <- rvNames, at <- rvAt, step <- rvStep, has <- rvHas

TooEarly == INSTANCE Rendezvous WITH
    Procs <- 0..3,
    names <- rvNames, at <- rvAt, step <- rvStep, has <- rvHas

Sequence == INSTANCE SemSequence WITH sem <- sqSem, at <- sqAt, last <- sqLast

TwoPrograms == INSTANCE Dekker WITH Runs <- MaxRuns, at <- dkAt

Alphabet == INSTANCE SharedAlphabet WITH
    Runs <- MaxRuns, name <- saName, store <- saStore, at <- saAt, read <- saRead, runs <- saRuns

MasterAndClients == INSTANCE Lamport WITH
    name <- laName, made <- laMade, mine <- laMine, at <- laAt, i <- slot

Applet == INSTANCE ProcessSchedulerProperties WITH Procs <- Jobs, P <- served

Echo == INSTANCE TcpEcho WITH
    Clients <- Callers, Size <- Buffer,
    buffer <- ecBuffer, data <- ecData, up <- ecUp, down <- ecDown, gone <- ecGone

Chat == INSTANCE TcpChat WITH
    Clients <- Callers,
    at <- chAt, up <- chUp, down <- chDown, gone <- chGone

Demo == INSTANCE DemoController WITH step <- demoStep, at <- demoAt

-----------------------------------------------------------------------------
\* A component starts in one of its initial states in its own scenes, and in a fixed
\* one in those of others.
Init ==
    /\ scene \in Scenes
    /\ Single!Init
    /\ Once!Init
    /\ InOrder!Init
    /\ Sequence!Init /\ (scene = "sequence" \/ present = {})
    /\ TwoPrograms!Init
    /\ Alphabet!Init
    /\ MasterAndClients!Init /\ (scene = "lamport" \/ id = [c \in Clients |-> 0])
    /\ Applet!HistoryInit
    /\ scene # "applet" => algorithm = "FCFS" /\ arrival = [p \in Jobs |-> 0] /\ service = arrival
    /\ Echo!Init
    /\ scene # "echo" => server = "one" /\ ecData = [c \in Callers |-> CHOOSE strings \in Strings : TRUE]
    /\ Chat!Init
    /\ Demo!Init /\ (scene = "demo" \/ ~led)

Memory ==
    \/ /\ \/ scene = "single" /\ Single!Next
          \/ scene = "pair" /\ Pair!Next
          \/ scene = "several" /\ Several!Next
       /\ UNCHANGED <<baVars, alphabetVars, lamportVars>>
    \/ /\ \/ scene = "once" /\ Once!Next
          \/ scene = "twice" /\ Twice!Next
       /\ UNCHANGED <<ringVars, alphabetVars, lamportVars>>
    \/ /\ scene = "alphabet" /\ Alphabet!Next
       /\ UNCHANGED <<ringVars, baVars, lamportVars>>
    \/ /\ scene = "lamport" /\ MasterAndClients!Next
       /\ UNCHANGED <<ringVars, baVars, alphabetVars>>

Order ==
    \/ /\ \/ scene = "in order" /\ InOrder!Next
          \/ scene = "too early" /\ TooEarly!Next
       /\ UNCHANGED <<sequenceVars, dekkerVars, appletVars>>
    \/ /\ scene = "sequence" /\ Sequence!Next
       /\ UNCHANGED <<rendezVars, dekkerVars, appletVars>>
    \/ /\ scene = "two programs" /\ TwoPrograms!Next
       /\ UNCHANGED <<rendezVars, sequenceVars, appletVars>>
    \/ /\ scene = "applet" /\ Applet!HistoryNext
       /\ UNCHANGED <<rendezVars, sequenceVars, dekkerVars>>

Streams ==
    \/ scene = "echo" /\ Echo!Next /\ UNCHANGED <<chatVars, demoVars>>
    \/ scene = "chat" /\ Chat!Next /\ UNCHANGED <<echoVars, demoVars>>
    \/ scene = "demo" /\ Demo!Next /\ UNCHANGED <<echoVars, chatVars>>

Next ==
    /\ UNCHANGED scene
    /\ \/ Memory /\ UNCHANGED <<orderVars, streamVars>>
       \/ Order /\ UNCHANGED <<memoryVars, streamVars>>
       \/ Streams /\ UNCHANGED <<memoryVars, orderVars>>

Spec == Init /\ [][Next]_vars

\* In the scenes of others nothing of a component is ready to run, so that its
\* fairness asks for nothing there; of the echo the scene must be said, since its
\* users are ready from the start.
FairSpec ==
    /\ Spec
    /\ Single!Fairness
    /\ InOrder!Fairness
    /\ Sequence!Fairness
    /\ TwoPrograms!Fairness
    /\ scene = "echo" => Echo!Fairness

-----------------------------------------------------------------------------
\* Every place of a buffer is empty, filled, or in somebody's hands, whatever users
\* choose and whoever fails halfway; and only two creators can make a producer use
\* what it does not have.
SemaphoresAddUp ==
    /\ scene = "several" => Several!TypeOK /\ Several!SemaphoreAccounts
    /\ scene = "single" => Single!SemaphoreAccounts
    /\ scene = "once" => Once!TypeOK /\ Once!SemaphoreAccounts /\ Once!CrashedAfterTwo
    /\ scene = "twice" => Twice!TypeOK /\ Twice!SemaphoreAccounts /\ Twice!CrashedAfterTwo

\* With one consumer of consumer.c, or any of baconsumer.c and one creator, the buffers
\* are bounded FIFOs: numbers come out in the order in which they were produced, none
\* twice and none missing, and a producer never finds its place filled.
BuffersAreFifos ==
    /\ Single!Fifo!FifoInit /\ Once!Fifo!FifoInit
    /\ [][scene = "single" => Single!Fifo!FifoNext]_(Single!Fifo!fifoVars)
    /\ [][scene = "once" => Once!Fifo!FifoNext]_(Once!Fifo!fifoVars)
    /\ [](scene = "single" => Single!NoAlarm /\ Single!TakenInOrder)
    /\ [](scene \in {"once", "twice"} => Once!NoAlarm /\ Once!TakenInOrder)

\* rendez.c is a barrier when process 0 is ready in time; when it is not, some crash
\* or wait for ever, but still nobody passes before everybody has set its bit.
MeetInOrder ==
    /\ InOrder!Meeting!BarrierInit
    /\ [][scene = "in order" => InOrder!Meeting!BarrierNext]_(InOrder!Meeting!barrierVars)
    /\ [][scene = "in order" => store \subseteq store']_store
    /\ [](InOrder!TypeOK /\ InOrder!NobodyPassesAlone)

\* Processes in a ring of semaphores, and two programs with a byte of memory, take
\* turns.
TakeTurns == Sequence!ImplementsTurns /\ TwoPrograms!ImplementsTurns

\* What two processes share without a lock arrives: the alphabet of shm_a.c and the
\* ids with which lamport.c's master stops its clients.
SharedMemoryArrives ==
    /\ scene = "alphabet" => Alphabet!ReadsTheAlphabet
    /\ scene = "lamport" => MasterAndClients!MasterStopsClients

\* The five algorithms are what they are known for, whatever is entered: no tick is
\* lost (ImplementsServer), and the rest of ProcessSchedulerProperties.
SchedulesAsKnown ==
    /\ Applet!ImplementsServer
    /\ [](scene = "applet" =>
            /\ Applet!EndsUnlessZero
            /\ Applet!NobodyWaitsLong /\ Applet!NoRivalAhead
            /\ Applet!InOrderOfArrival /\ Applet!OneAtATime /\ Applet!TurnaroundCovers)

\* Text comes back from an echo server in order and to whom it belongs, and its
\* descriptors come back too; the users of the chat speak in turn, and wait for each
\* other only after a line of which nothing arrives.
TalksOverTcp ==
    /\ scene = "echo" => Echo!EchoedInOrder /\ Echo!EachItsAnswer /\ Echo!DescriptorsReturn
    /\ scene = "chat" => Chat!SpeakInTurn /\ Chat!BothWaitAfterEmpty

\* A press of BACK ends one step of the demonstration at most, and the rumble stops with
\* its step.
OnePressOneStep == scene = "demo" => Demo!OnePressOneStep /\ Demo!QuietAfterwards

\* Who waits for a place or a number gets one as long as the other side is at work.
BuffersGoOn ==
    /\ scene = "single" => Single!NobodyWaitsInVain
    /\ scene = "pair" => Pair!NobodyWaitsInVain

\* Who meets, passes; the ring goes round, the two programs end, and so does everybody
\* around an echo server.
EverybodyGoesOn ==
    /\ InOrder!EverybodyPasses /\ Sequence!GoesRound /\ TwoPrograms!BothEnd
    /\ scene = "echo" => Echo!AllEnd
=============================================================================
