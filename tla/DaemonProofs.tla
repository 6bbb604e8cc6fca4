---------------------------- MODULE DaemonProofs ----------------------------
(***************************************************************************)
(* Proofs about Daemon, for any number of CGI processes, slots, messages   *)
(* and objects, and every way of ending the daemon. There is one lemma for *)
(* each kind of step; it shows that the step keeps the invariant IInv. The *)
(* second half is about the history of its ends (DaemonHistory): that the  *)
(* semaphore keeps the copies of a button struct apart, and that the       *)
(* daemon crashes for a cause.                                             *)
(***************************************************************************)
EXTENDS DaemonHistory, SequenceTheorems, FiniteSetTheorems, TLAPS

USE DEF Shm!shmVars, Queue!queueVars, shmVars, queueVars, mainVars, cmdVars, btnVars, cgiVars

-----------------------------------------------------------------------------
(* Types, and what the steps leave alone.                                  *)

\* The processes and the indices of the slots.
LEMMA Basics ==
    /\ D \in Procs /\ \A p \in Cgis : p \in Procs /\ p # D
    /\ NoObj \notin Shms /\ NoObj \notin Sems /\ NoObj \notin Queues
    /\ NoCmd \notin Cmds
    /\ MaxMessages \in Nat
    /\ 0 \in Slots
    /\ \A n \in Slots : n + 1 < MaxDevs => n + 1 \in Slots
    /\ Blank \in Samples /\ Garbage \in Samples
  BY DaemonAssumption DEF DaemonAssumption, Procs, Slots, Samples

\* What a process that closes its memory leaves: the memory of others is as it was,
\* and memory that nobody has is zero.
LEMMA ShmFreed ==
  ASSUME TypeOK, NEW n, NEW p \in Procs, Shm!ShmFrees(n, p)
  PROVE  /\ sized' \in [Shms -> BOOLEAN]
         /\ words' \in [Shms -> [Slots -> Samples \X Samples]]
         /\ \A o \in Shms, s \in Slots :
                words'[o][s] = words[o][s] \/ words'[o][s] = <<Blank, Blank>>
         /\ \A r \in Procs : r # p /\ fd[r] \in Shms => words'[fd[r]] = words[fd[r]]
  <1> USE Basics DEF TypeOK, Shm!ShmTypeOK
  <1>1. Shm!Zeros \in [Slots -> Samples \X Samples] /\ \A s \in Slots : Shm!Zeros[s] = <<Blank, Blank>>
    BY DEF Shm!Zeros, Shm!Slots, Slots
  <1>2. \A o \in Shms : words'[o] = words[o] \/ words'[o] = Shm!Zeros
    BY DEF Shm!ShmFrees
  <1>3. sized' \in [Shms -> BOOLEAN]
    BY DEF Shm!ShmFrees
  <1>4. words' \in [Shms -> [Slots -> Samples \X Samples]]
    BY <1>1 DEF Shm!ShmFrees
  <1>5. ASSUME NEW r \in Procs, r # p, fd[r] \in Shms
        PROVE  words'[fd[r]] = words[fd[r]]
    BY <1>5 DEF Shm!ShmFrees, Shm!Used
  <1> QED BY <1>1, <1>2, <1>3, <1>4, <1>5

\* The same for a semaphore: one that is still named or open keeps its value.
LEMMA SemFreed ==
  ASSUME TypeOK, NEW n, NEW p \in Procs, Shm!SemFrees(n, p)
  PROVE  /\ count' \in [Sems -> {0, 1}]
         /\ \A o \in Sems : count'[o] = count[o] \/ count'[o] = 0
         /\ \A o \in Sems :
                o = n \/ (\E r \in Procs : r # p /\ sem[r] = o) => count'[o] = count[o]
  <1> USE DEF TypeOK, Shm!ShmTypeOK, Shm!SemFrees
  <1>1. count' \in [Sems -> {0, 1}] /\ \A o \in Sems : count'[o] = count[o] \/ count'[o] = 0
    OBVIOUS
  <1>2. ASSUME NEW o \in Sems, o = n \/ \E r \in Procs : r # p /\ sem[r] = o
        PROVE  count'[o] = count[o]
    BY <1>2 DEF Shm!Used
  <1> QED BY <1>1, <1>2

\* The same for a queue.
LEMMA QueueFreed ==
  ASSUME TypeOK, NEW n, NEW p \in Procs, Queue!QueueFrees(n, p)
  PROVE  /\ msgs' \in [Queues -> Seq(Cmds)]
         /\ \A o \in Queues : Len(msgs'[o]) <= MaxMessages
  <1> USE Basics DEF TypeOK, Queue!QueueTypeOK, Queue!QueueFrees
  <1>1. \A o \in Queues : msgs'[o] = <<>> \/ msgs'[o] = msgs[o]
    OBVIOUS
  <1>2. <<>> \in Seq(Cmds) /\ Len(<<>>) = 0
    OBVIOUS
  <1>3. msgs' \in [Queues -> Seq(Cmds)]
    BY <1>2
  <1> QED BY <1>1, <1>2, <1>3

\* One word of one slot is written, and the others are as they were.
LEMMA WordWritten ==
  ASSUME words \in [Shms -> [Slots -> Samples \X Samples]],
         NEW o \in Shms, NEW s \in Slots, NEW k \in {1, 2}, NEW v \in Samples,
         words' = [words EXCEPT ![o][s][k] = v]
  PROVE  /\ words' \in [Shms -> [Slots -> Samples \X Samples]]
         /\ \A u \in Shms, t \in Slots : \A j \in {1, 2} :
                words'[u][t][j] = IF u = o /\ t = s /\ j = k THEN v ELSE words[u][t][j]
  <1> DEFINE w == [words[o][s] EXCEPT ![k] = v]
             m == [words[o] EXCEPT ![s] = w]
  <1>1. words' = [words EXCEPT ![o] = m]
    OBVIOUS
  <1>2. words[o][s] \in Samples \X Samples
    OBVIOUS
  <1>3. w \in Samples \X Samples /\ \A j \in {1, 2} : w[j] = IF j = k THEN v ELSE words[o][s][j]
    <2> DEFINE a == words[o][s][1]
               b == words[o][s][2]
    <2>1. words[o][s] = <<a, b>> /\ a \in Samples /\ b \in Samples
      BY <1>2
    <2> HIDE DEF a, b
    <2>2. w = [<<a, b>> EXCEPT ![k] = v]
      BY <2>1
    <2> HIDE DEF w
    <2>3. CASE k = 1
      <3>1. w = <<v, b>>
        BY <2>2, <2>3
      <3> QED BY <2>1, <2>3, <3>1
    <2>4. CASE k = 2
      <3>1. w = <<a, v>>
        BY <2>2, <2>4
      <3> QED BY <2>1, <2>4, <3>1
    <2> QED BY <2>3, <2>4
  <1> HIDE DEF w
  <1>4. m \in [Slots -> Samples \X Samples] /\ \A t \in Slots : m[t] = IF t = s THEN w ELSE words[o][t]
    BY <1>3
  <1> HIDE DEF m
  <1>5. words' \in [Shms -> [Slots -> Samples \X Samples]]
    BY <1>1, <1>4
  <1>6. \A u \in Shms : words'[u] = IF u = o THEN m ELSE words[u]
    BY <1>1
  <1> QED BY <1>3, <1>4, <1>5, <1>6

-----------------------------------------------------------------------------
(* The semaphore: sem_wait, sem_post, and what ends without either.        *)

\* sem_wait by p on o, where nobody is.
LEMMA WaitKeeps ==
  ASSUME TypeOK, SemInv, NEW p, NEW o \in Sems, count[o] > 0,
         count' = [count EXCEPT ![o] = @ - 1],
         \A u \in Sems : Holders(u)' \subseteq IF u = o THEN Holders(u) \cup {p} ELSE Holders(u)
  PROVE  SemInv' /\ count' \in [Sems -> {0, 1}]
  <1> USE DEF TypeOK, Shm!ShmTypeOK, SemInv
  <1>1. Holders(o) = {} /\ count[o] = 1
    OBVIOUS
  <1>2. \A u \in Sems : count'[u] = IF u = o THEN 0 ELSE count[u]
    BY <1>1
  <1> QED BY <1>1, <1>2

\* sem_post by p on o, where p is.
LEMMA PostKeeps ==
  ASSUME TypeOK, SemInv, NEW o \in Sems, NEW p \in Holders(o),
         count' = [count EXCEPT ![o] = @ + 1],
         \A u \in Sems : Holders(u)' \subseteq IF u = o THEN Holders(u) \ {p} ELSE Holders(u)
  PROVE  SemInv' /\ count' \in [Sems -> {0, 1}]
  <1> USE DEF TypeOK, Shm!ShmTypeOK, SemInv
  <1>1. Holders(o)' = {} /\ count[o] = 0
    OBVIOUS
  <1>2. \A u \in Sems : count'[u] = IF u = o THEN 1 ELSE count[u]
    BY <1>1
  <1> QED BY <1>1, <1>2

\* Any other step: nobody enters, and no counter goes up.
LEMMA ShrinkKeeps ==
  ASSUME SemInv,
         \A u \in Sems : Holders(u)' \subseteq Holders(u),
         \A u \in Sems : Holders(u)' # {} => count'[u] = count[u] \/ count'[u] = 0
  PROVE  SemInv'
  BY DEF SemInv

-----------------------------------------------------------------------------
(* The threads of the daemon.                                              *)

\* The command thread changes the queue and its command only.
LEMMA CmdStep == IInv /\ CmdNext => IInv'
  <1> SUFFICES ASSUME IInv, CmdNext PROVE IInv'
    OBVIOUS
  <1> USE Basics DEF IInv, TypeOK
  <1>1. UNCHANGED <<shmVars, mqName, mq, mainVars, btnVars, cgiVars>>
    BY DEF CmdNext, CmdTests, CmdReceives, CmdActs, Queue!Receives
  <1>2. /\ msgs' \in [Queues -> Seq(Cmds)]
        /\ \A o \in Queues : Len(msgs'[o]) <= MaxMessages
        /\ cmd' \in Cmds \cup {NoCmd}
        /\ cmdPc' \in {"test", "receive", "act", "ended"} /\ cmdPc # "none"
        /\ cmdPc' = "act" /\ cmd' = NoCmd => mq[D] = NoObj
    <2>1. CASE CmdTests \/ CmdActs
      BY <2>1 DEF CmdTests, CmdActs, Queue!QueueTypeOK
    <2>2. CASE CmdReceives
      <3>1. CASE Queue!Receives(D) /\ cmd' = Head(msgs[mq[D]])
        <4> DEFINE q == mq[D]
        <4>1. q \in Queues /\ msgs[q] \in Seq(Cmds) /\ msgs[q] # <<>>
          BY <3>1 DEF Queue!Receives, Queue!QueueTypeOK
        <4>2. /\ Head(msgs[q]) \in Cmds
              /\ Tail(msgs[q]) \in Seq(Cmds)
              /\ Len(Tail(msgs[q])) \in Nat /\ Len(msgs[q]) \in Nat
              /\ Len(Tail(msgs[q])) <= Len(msgs[q])
          BY <4>1
        <4>3. msgs' = [msgs EXCEPT ![q] = Tail(msgs[q])]
          BY <3>1 DEF Queue!Receives
        <4>4. cmd' \in Cmds
          BY <3>1, <4>2
        <4> HIDE DEF q
        <4>5. msgs' \in [Queues -> Seq(Cmds)]
          BY <4>1, <4>2, <4>3
        <4>6. \A o \in Queues : Len(msgs'[o]) <= MaxMessages
          BY <4>1, <4>2, <4>3 DEF Queue!QueueTypeOK
        <4> QED BY <2>2, <4>4, <4>5, <4>6 DEF CmdReceives
      <3>2. CASE mq[D] = NoObj /\ UNCHANGED <<queueVars, cmd>>
        BY <2>2, <3>2 DEF CmdReceives, Queue!QueueTypeOK
      <3> QED BY <2>2, <3>1, <3>2 DEF CmdReceives
    <2> QED BY <2>1, <2>2 DEF CmdNext
  <1>3. TypeOK'
    BY <1>1, <1>2 DEF Shm!ShmTypeOK, Queue!QueueTypeOK
  <1>4. StageInv' /\ PairInv' /\ CgiInv' /\ ExitLeavesNothing'
    BY <1>1 DEF StageInv, PairInv, CgiInv, ExitLeavesNothing
  <1>5. SemInv'
    BY <1>1 DEF SemInv, Holders
  <1>6. ThreadInv'
    BY <1>1, <1>2 DEF ThreadInv
  <1>7. ActsOnReceived'
    BY <1>1, <1>2 DEF ActsOnReceived
  <1> QED BY <1>3, <1>4, <1>5, <1>6, <1>7

\* The button thread writes its slot and uses the semaphore; its crash is GoneStep.
LEMMA BtnStep == IInv /\ BtnNext /\ main' = main => IInv'
  <1> SUFFICES ASSUME IInv, BtnNext, main' = main PROVE IInv'
    OBVIOUS
  <1> USE Basics DEF IInv, TypeOK
  <1> DEFINE Waits == btnPc = "wait" /\ Shm!SemWait(D) /\ btnPc' = "low"
                        /\ UNCHANGED <<queueVars, mainVars, cmdVars, id, sample, cgiVars>>
  <1>0. BtnTests \/ BtnInputs \/ Waits \/ BtnWrites \/ BtnPosts
    <2>1. btnPc \in {"test", "input", "wait", "low", "high", "post"}
      BY DEF BtnNext, BtnTests, BtnInputs, BtnWaits, BtnWrites, BtnPosts
    <2>2. main # "off"
      BY <2>1 DEF ThreadInv
    <2> QED BY <2>2 DEF BtnNext, BtnWaits, Gone
  <1>1. UNCHANGED <<queueVars, mainVars, cmdVars, cgiVars, shmName, semName, sized, fd, sem>>
    BY <1>0 DEF BtnTests, BtnInputs, BtnWrites, BtnPosts,
                Shm!SemWait, Shm!SemPost, Shm!WriteWord
  <1>2. /\ btnPc \notin {"none", "ended"}
        /\ btnPc' \in {"test", "input", "wait", "low", "high", "post", "ended"}
        /\ id' \in Slots /\ sample' \in Samples
        /\ btnPc' \in Copying => sem[D] # NoObj
    <2>1. CASE BtnTests \/ BtnInputs
      BY <2>1 DEF BtnTests, BtnInputs, Samples, Copying
    <2>2. CASE Waits
      BY <2>2 DEF Shm!SemWait
    <2>3. CASE BtnWrites
      BY <2>3 DEF BtnWrites, ThreadInv, Copying
    <2>4. CASE BtnPosts
      BY <2>4 DEF BtnPosts, Copying
    <2> QED BY <1>0, <2>1, <2>2, <2>3, <2>4
  <1>3. words' \in [Shms -> [Slots -> Samples \X Samples]]
    <2>1. CASE BtnWrites
      <3>1. btnPc \in Copying
        BY <2>1 DEF BtnWrites, Copying
      <3>2. fd[D] \in Shms
        BY <3>1 DEF ThreadInv, StageInv, Shm!ShmTypeOK, Copying
      <3>3. PICK k \in {1, 2} : words' = [words EXCEPT ![fd[D]][id][k] = sample]
        BY <2>1 DEF BtnWrites, Shm!WriteWord
      <3> QED BY <3>2, <3>3, WordWritten
    <2>2. CASE ~BtnWrites
      BY <1>0, <2>2 DEF BtnTests, BtnInputs, BtnPosts, Shm!SemWait, Shm!SemPost
    <2> QED BY <2>1, <2>2
  <1>4. SemInv' /\ count' \in [Sems -> {0, 1}]
    <2>1. CASE BtnTests \/ BtnInputs \/ BtnWrites
      <3>1. count' = count /\ \A u \in Sems : Holders(u)' \subseteq Holders(u)
        BY <2>1, <1>1 DEF BtnTests, BtnInputs, BtnWrites, Shm!WriteWord, Holders, Copying
      <3> QED BY <3>1, ShrinkKeeps DEF Shm!ShmTypeOK
    <2>2. CASE Waits
      <3>1. \A u \in Sems : Holders(u)' \subseteq IF u = sem[D] THEN Holders(u) \cup {D} ELSE Holders(u)
        BY <2>2, <1>1 DEF Holders, Copying
      <3>2. sem[D] \in Sems
        BY <2>2 DEF Shm!SemWait, Shm!ShmTypeOK
      <3> QED BY <2>2, <3>1, <3>2, WaitKeeps DEF Shm!SemWait
    <2>3. CASE BtnPosts
      <3>1. sem[D] \in Sems /\ D \in Holders(sem[D])
        BY <2>3 DEF BtnPosts, ThreadInv, Copying, Holders, Shm!ShmTypeOK
      <3>2. \A u \in Sems : Holders(u)' \subseteq IF u = sem[D] THEN Holders(u) \ {D} ELSE Holders(u)
        BY <2>3, <1>1 DEF BtnPosts, Holders, Copying
      <3> QED BY <2>3, <3>1, <3>2, PostKeeps DEF BtnPosts, Shm!SemPost
    <2> QED BY <1>0, <2>1, <2>2, <2>3
  <1>5. TypeOK'
    BY <1>1, <1>2, <1>3, <1>4 DEF Shm!ShmTypeOK, Queue!QueueTypeOK
  <1>6. StageInv' /\ PairInv' /\ CgiInv' /\ ExitLeavesNothing' /\ ActsOnReceived'
    BY <1>1 DEF StageInv, PairInv, CgiInv, ExitLeavesNothing, ActsOnReceived
  <1>7. ThreadInv'
    BY <1>1, <1>2 DEF ThreadInv
  <1> QED BY <1>4, <1>5, <1>6, <1>7

-----------------------------------------------------------------------------
(* The end of the daemon, and its main thread.                             *)

\* The ways the daemon goes, seen from the invariant: it goes with how "exit" only
\* when it is done.
LEMMA GoneStep ==
  ASSUME IInv, NEW how \in {"exit", "killed", "crashed"}, Gone(how), how = "exit" => main = "exit"
  PROVE  IInv'
  <1> USE Basics DEF IInv, TypeOK
  <1>1. /\ UNCHANGED <<shmName, semName, mqName, cgiVars>>
        /\ fd' = [fd EXCEPT ![D] = NoObj]
        /\ sem' = [sem EXCEPT ![D] = NoObj]
        /\ mq' = [mq EXCEPT ![D] = NoObj]
        /\ Shm!ShmFrees(shmName, D) /\ Shm!SemFrees(semName, D) /\ Queue!QueueFrees(mqName, D)
        /\ main' = "off" /\ running' = FALSE /\ fate' = how
        /\ cmdPc' = "none" /\ cmd' = NoCmd /\ btnPc' = "none" /\ id' = 0 /\ sample' = Blank
    BY DEF Gone, Shm!ShmReleases, Queue!QueueCloses
  <1>2. /\ sized' \in [Shms -> BOOLEAN]
        /\ words' \in [Shms -> [Slots -> Samples \X Samples]]
    BY <1>1, ShmFreed
  <1>3. /\ count' \in [Sems -> {0, 1}]
        /\ \A o \in Sems : count'[o] = count[o] \/ count'[o] = 0
    BY <1>1, SemFreed
  <1>4. /\ msgs' \in [Queues -> Seq(Cmds)]
        /\ \A o \in Queues : Len(msgs'[o]) <= MaxMessages
    BY <1>1, QueueFreed
  <1>5. /\ fd' \in [Procs -> Shms \cup {NoObj}] /\ fd'[D] = NoObj
        /\ sem' \in [Procs -> Sems \cup {NoObj}] /\ sem'[D] = NoObj
        /\ mq' \in [Procs -> Queues \cup {NoObj}] /\ mq'[D] = NoObj
        /\ \A p \in Cgis : fd'[p] = fd[p] /\ sem'[p] = sem[p] /\ mq'[p] = mq[p]
    BY <1>1 DEF Shm!ShmTypeOK, Queue!QueueTypeOK
  <1>6. TypeOK'
    BY <1>1, <1>2, <1>3, <1>4, <1>5 DEF Shm!ShmTypeOK, Queue!QueueTypeOK
  <1>7. StageInv' /\ ThreadInv' /\ CgiInv' /\ PairInv' /\ ActsOnReceived'
    BY <1>1, <1>5 DEF StageInv, ThreadInv, CgiInv, PairInv, ActsOnReceived, Copying
  <1>8. SemInv'
    <2>1. \A u \in Sems : Holders(u)' \subseteq Holders(u)
      BY <1>1, <1>5 DEF Holders, Copying
    <2> QED BY <2>1, <1>3, ShrinkKeeps
  <1>9. ExitLeavesNothing'
    BY <1>1 DEF ExitLeavesNothing, StageInv
  <1> QED BY <1>6, <1>7, <1>8, <1>9

\* main goes on and changes no object.
LEMMA QuietStep ==
  ASSUME IInv, UNCHANGED <<shmVars, queueVars, cmd, id, sample, cgiVars>>,
         main' # main,
         \/ Starts \/ StartsCmdThread \/ StartsBtnThread \/ Interrupted
         \/ MainStep("create", "queue", shmName # NoObj /\ UNCHANGED shmVars)
         \/ MainStep("sem", "queue", semName # NoObj /\ UNCHANGED shmVars)
         \/ MainStep("joinCmd", "joinBtn", cmdPc = "ended")
         \/ MainStep("joinBtn", "unlinkShm", btnPc = "ended")
  PROVE  IInv'
  <1> USE Basics DEF IInv, TypeOK, Starts, StartsCmdThread, StartsBtnThread, Interrupted, MainStep
  <1>1. TypeOK'
    <2>1. /\ main' \in {"create", "queue", "btnThread", "up", "joinCmd", "joinBtn", "unlinkShm"}
          /\ running' \in BOOLEAN /\ fate' \in {"exit", "killed", "crashed"}
          /\ cmdPc' \in {"test", cmdPc} /\ btnPc' \in {"test", btnPc}
      OBVIOUS
    <2> QED BY <2>1 DEF Shm!ShmTypeOK, Queue!QueueTypeOK
  <1>2. StageInv' /\ ThreadInv'
    BY DEF StageInv, ThreadInv, Copying
  <1>3. CgiInv' /\ ExitLeavesNothing' /\ ActsOnReceived'
    BY DEF CgiInv, ExitLeavesNothing, ActsOnReceived
  <1>4. PairInv'
    BY DEF PairInv
  <1>5. SemInv'
    <2>1. count' = count /\ \A u \in Sems : Holders(u)' \subseteq Holders(u)
      BY DEF Holders, Copying, ThreadInv
    <2> QED BY <2>1, ShrinkKeeps
  <1> QED BY <1>1, <1>2, <1>3, <1>4, <1>5

\* shm_open of a memory nobody has.
LEMMA CreateStep ==
  ASSUME IInv, MainStep("create", "size", Shm!ShmCreates(D)), UNCHANGED queueVars
  PROVE  IInv'
  <1> USE Basics DEF IInv, TypeOK
  <1>1. /\ main = "create" /\ main' = "size" /\ shmName = NoObj
        /\ UNCHANGED <<running, fate, cmdVars, btnVars, cgiVars, queueVars>>
        /\ UNCHANGED <<semName, sized, words, count, sem>>
    BY DEF MainStep, Shm!ShmCreates
  <1>2. PICK o \in Shms \ Shm!Used(shmName, fd) : shmName' = o /\ fd' = [fd EXCEPT ![D] = o]
    BY DEF MainStep, Shm!ShmCreates
  <1>3. /\ fd' \in [Procs -> Shms \cup {NoObj}] /\ fd'[D] = o
        /\ \A p \in Cgis : fd'[p] = fd[p] /\ fd[p] # o
    <2>1. \A p \in Procs : fd[p] # o
      BY <1>2 DEF Shm!Used
    <2> QED BY <1>2, <2>1 DEF Shm!ShmTypeOK
  <1>4. TypeOK'
    BY <1>1, <1>2, <1>3 DEF Shm!ShmTypeOK, Queue!QueueTypeOK
  <1>5. StageInv' /\ ThreadInv' /\ PairInv'
    BY <1>1, <1>2, <1>3 DEF StageInv, ThreadInv, PairInv
  <1>6. CgiInv' /\ ExitLeavesNothing' /\ ActsOnReceived'
    BY <1>1, <1>3 DEF CgiInv, ExitLeavesNothing, ActsOnReceived
  <1>7. SemInv'
    BY <1>1 DEF SemInv, Holders
  <1> QED BY <1>4, <1>5, <1>6, <1>7

\* ftruncate.
LEMMA SizeStep ==
  ASSUME IInv, MainStep("size", "sem", Shm!ShmSizes(D)), UNCHANGED queueVars
  PROVE  IInv'
  <1> USE Basics DEF IInv, TypeOK
  <1>1. /\ main = "size" /\ main' = "sem"
        /\ UNCHANGED <<running, fate, cmdVars, btnVars, cgiVars, queueVars>>
        /\ UNCHANGED <<shmName, semName, words, count, fd, sem>>
        /\ sized' = [sized EXCEPT ![fd[D]] = TRUE]
    BY DEF MainStep, Shm!ShmSizes
  <1>2. TypeOK'
    <2>1. sized' \in [Shms -> BOOLEAN]
      BY <1>1 DEF Shm!ShmTypeOK
    <2> QED BY <1>1, <2>1 DEF Shm!ShmTypeOK, Queue!QueueTypeOK
  <1>3. StageInv' /\ ThreadInv' /\ PairInv'
    BY <1>1 DEF StageInv, ThreadInv, PairInv
  <1>4. CgiInv' /\ ExitLeavesNothing' /\ ActsOnReceived'
    BY <1>1 DEF CgiInv, ExitLeavesNothing, ActsOnReceived
  <1>5. SemInv'
    BY <1>1 DEF SemInv, Holders
  <1> QED BY <1>2, <1>3, <1>4, <1>5

\* sem_open of a semaphore nobody has.
LEMMA SemStep ==
  ASSUME IInv, MainStep("sem", "queue", Shm!SemCreates(D)), UNCHANGED queueVars
  PROVE  IInv'
  <1> USE Basics DEF IInv, TypeOK
  <1>1. /\ main = "sem" /\ main' = "queue" /\ semName = NoObj
        /\ UNCHANGED <<running, fate, cmdVars, btnVars, cgiVars, queueVars>>
        /\ UNCHANGED <<shmName, sized, words, fd>>
    BY DEF MainStep, Shm!SemCreates
  <1>2. PICK o \in Sems \ Shm!Used(semName, sem) :
            /\ semName' = o
            /\ sem' = [sem EXCEPT ![D] = o]
            /\ count' = [count EXCEPT ![o] = 1]
    BY DEF MainStep, Shm!SemCreates
  <1>3. /\ sem' \in [Procs -> Sems \cup {NoObj}] /\ sem'[D] = o
        /\ \A p \in Cgis : sem'[p] = sem[p] /\ sem[p] # o
        /\ count' \in [Sems -> {0, 1}] /\ \A u \in Sems : u # o => count'[u] = count[u]
    <2>1. \A p \in Procs : sem[p] # o
      BY <1>2 DEF Shm!Used
    <2> QED BY <1>2, <2>1 DEF Shm!ShmTypeOK
  <1>4. TypeOK'
    BY <1>1, <1>2, <1>3 DEF Shm!ShmTypeOK, Queue!QueueTypeOK
  <1>5. StageInv' /\ ThreadInv' /\ PairInv'
    BY <1>1, <1>2, <1>3 DEF StageInv, ThreadInv, PairInv
  <1>6. CgiInv' /\ ExitLeavesNothing' /\ ActsOnReceived'
    BY <1>1, <1>3 DEF CgiInv, ExitLeavesNothing, ActsOnReceived
  <1>7. SemInv'
    <2>1. \A u \in Sems : Holders(u)' \subseteq Holders(u) /\ (u = o => Holders(u)' = {})
      BY <1>1, <1>3 DEF Holders, ThreadInv, Copying
    <2> QED BY <1>3, <2>1, ShrinkKeeps
  <1> QED BY <1>4, <1>5, <1>6, <1>7

\* mq_open of a new queue under the name.
LEMMA QueueStep ==
  ASSUME IInv, InitQueue
  PROVE  IInv'
  <1> USE Basics DEF IInv, TypeOK
  <1>1. /\ main = "queue" /\ main' = "cmdThread"
        /\ UNCHANGED <<running, fate, cmdVars, btnVars, cgiVars, shmVars>>
        /\ Queue!QueueCreates(D) \/ Queue!QueueUnlinks(D)
    BY DEF InitQueue, MainStep
  <1>2. /\ Queue!QueueTypeOK'
        /\ msgs' \in [Queues -> Seq(Cmds)]
        /\ mq'[D] # NoObj => mqName' = mq'[D]
    <2>1. CASE Queue!QueueCreates(D)
      <3>1. PICK o \in Queues : /\ mqName' = o
                               /\ mq' = [mq EXCEPT ![D] = o]
                               /\ msgs' = [q \in Queues |-> IF Queue!Gone(q, NoObj, mq) THEN <<>> ELSE msgs[q]]
        BY <2>1 DEF Queue!QueueCreates
      <3>2. <<>> \in Seq(Cmds) /\ Len(<<>>) = 0
        OBVIOUS
      <3>3. \A q \in Queues : msgs'[q] = <<>> \/ msgs'[q] = msgs[q]
        BY <3>1
      <3>4. \A q \in Queues : Len(msgs'[q]) <= MaxMessages
        BY <3>2, <3>3 DEF Queue!QueueTypeOK
      <3>5. msgs' \in [Queues -> Seq(Cmds)]
        BY <3>1, <3>2
      <3> QED BY <3>1, <3>4, <3>5 DEF Queue!QueueTypeOK
    <2>2. CASE Queue!QueueUnlinks(D)
      BY <2>2, QueueFreed DEF Queue!QueueUnlinks, Queue!QueueTypeOK
    <2> QED BY <1>1, <2>1, <2>2
  <1>3. TypeOK'
    BY <1>1, <1>2 DEF Shm!ShmTypeOK
  <1>4. StageInv' /\ ThreadInv' /\ PairInv'
    BY <1>1, <1>2 DEF StageInv, ThreadInv, PairInv
  <1>5. CgiInv' /\ ExitLeavesNothing' /\ ActsOnReceived'
    BY <1>1 DEF CgiInv, ExitLeavesNothing, ActsOnReceived, ThreadInv
  <1>6. SemInv'
    BY <1>1 DEF SemInv, Holders
  <1> QED BY <1>2, <1>3, <1>4, <1>5, <1>6

\* closeButtonSHM and closeQueue: the names go, and what the daemon has open.
LEMMA CloseStep ==
  ASSUME IInv, Closes
  PROVE  IInv'
  <1> USE Basics DEF IInv, TypeOK
  <1>0. UNCHANGED <<running, fate, cmdVars, btnVars, cgiVars>>
    BY DEF Closes, MainStep
  <1>1. CASE main = "unlinkShm"
    <2>1. /\ main' = "unlinkSem" /\ shmName' = NoObj
          /\ fd' = [fd EXCEPT ![D] = NoObj]
          /\ Shm!ShmFrees(NoObj, D)
          /\ UNCHANGED <<semName, count, sem, queueVars>>
      BY <1>1 DEF Closes, MainStep, Shm!ShmUnlinks
    <2>2. /\ sized' \in [Shms -> BOOLEAN]
          /\ words' \in [Shms -> [Slots -> Samples \X Samples]]
      BY <2>1, ShmFreed
    <2>3. /\ fd' \in [Procs -> Shms \cup {NoObj}] /\ fd'[D] = NoObj
          /\ \A p \in Cgis : fd'[p] = fd[p]
      BY <2>1 DEF Shm!ShmTypeOK
    <2>4. TypeOK'
      BY <1>0, <2>1, <2>2, <2>3 DEF Shm!ShmTypeOK, Queue!QueueTypeOK
    <2>5. StageInv' /\ ThreadInv' /\ PairInv'
      BY <1>0, <1>1, <2>1, <2>3 DEF StageInv, ThreadInv, PairInv
    <2>6. CgiInv' /\ ExitLeavesNothing' /\ ActsOnReceived'
      BY <1>0, <2>1, <2>3 DEF CgiInv, ExitLeavesNothing, ActsOnReceived
    <2>7. SemInv'
      BY <1>0, <2>1 DEF SemInv, Holders
    <2> QED BY <2>4, <2>5, <2>6, <2>7
  <1>2. CASE main = "unlinkSem"
    <2>1. /\ main' = "unlinkQueue" /\ semName' = NoObj
          /\ sem' = [sem EXCEPT ![D] = NoObj]
          /\ Shm!SemFrees(NoObj, D)
          /\ UNCHANGED <<shmName, sized, words, fd, queueVars>>
      BY <1>2 DEF Closes, MainStep, Shm!SemUnlinks
    <2>2. /\ count' \in [Sems -> {0, 1}]
          /\ \A o \in Sems : count'[o] = count[o] \/ count'[o] = 0
      BY <2>1, SemFreed
    <2>3. /\ sem' \in [Procs -> Sems \cup {NoObj}] /\ sem'[D] = NoObj
          /\ \A p \in Cgis : sem'[p] = sem[p]
      BY <2>1 DEF Shm!ShmTypeOK
    <2>4. TypeOK'
      BY <1>0, <2>1, <2>2, <2>3 DEF Shm!ShmTypeOK, Queue!QueueTypeOK
    <2>5. StageInv' /\ ThreadInv' /\ PairInv'
      BY <1>0, <1>2, <2>1, <2>3 DEF StageInv, ThreadInv, PairInv, Copying
    <2>6. CgiInv' /\ ExitLeavesNothing' /\ ActsOnReceived'
      BY <1>0, <2>1, <2>3 DEF CgiInv, ExitLeavesNothing, ActsOnReceived
    <2>7. SemInv'
      <3>1. \A u \in Sems : Holders(u)' \subseteq Holders(u)
        BY <1>0, <2>1, <2>3 DEF Holders
      <3> QED BY <2>2, <3>1, ShrinkKeeps
    <2> QED BY <2>4, <2>5, <2>6, <2>7
  <1>3. CASE main = "unlinkQueue"
    <2>1. /\ main' = "exit" /\ mqName' = NoObj
          /\ mq' = [mq EXCEPT ![D] = NoObj]
          /\ Queue!QueueFrees(NoObj, D)
          /\ UNCHANGED shmVars
      BY <1>3 DEF Closes, MainStep, Queue!QueueUnlinks
    <2>2. /\ msgs' \in [Queues -> Seq(Cmds)]
          /\ \A o \in Queues : Len(msgs'[o]) <= MaxMessages
      BY <2>1, QueueFreed
    <2>3. mq' \in [Procs -> Queues \cup {NoObj}] /\ mq'[D] = NoObj
      BY <2>1 DEF Queue!QueueTypeOK
    <2>4. TypeOK'
      BY <1>0, <2>1, <2>2, <2>3 DEF Shm!ShmTypeOK, Queue!QueueTypeOK
    <2>5. StageInv' /\ ThreadInv' /\ PairInv'
      BY <1>0, <1>3, <2>1, <2>3 DEF StageInv, ThreadInv, PairInv
    <2>6. CgiInv' /\ ExitLeavesNothing' /\ ActsOnReceived'
      BY <1>0, <2>1, <2>3 DEF CgiInv, ExitLeavesNothing, ActsOnReceived
    <2>7. SemInv'
      BY <1>0, <2>1 DEF SemInv, Holders
    <2> QED BY <2>4, <2>5, <2>6, <2>7
  <1> QED BY <1>1, <1>2, <1>3 DEF Closes, MainStep

-----------------------------------------------------------------------------
(* The CGI processes. They touch nothing of the daemon but the objects.    *)

\* What the daemon has, and where it is, are as they were.
LEMMA CgiLeaves ==
  ASSUME IInv, NEW p \in Cgis, CgiAsks(p) \/ CgiNext(p)
  PROVE  /\ StageInv' /\ ThreadInv' /\ ExitLeavesNothing' /\ ActsOnReceived'
         /\ UNCHANGED <<mainVars, cmdVars, btnVars, shmName, semName, mqName>>
         /\ \A r \in Procs : r # p => fd'[r] = fd[r] /\ sem'[r] = sem[r] /\ mq'[r] = mq[r]
  <1> USE Basics DEF IInv, TypeOK, Shm!ShmTypeOK, Queue!QueueTypeOK
  <1>1. UNCHANGED <<mainVars, cmdVars, btnVars, shmName, semName, mqName>>
    BY DEF CgiNext, CgiAsks, CgiOpens, CgiWaits, CgiReads, CgiPosts, CgiSends, CgiEnds, CgiStep,
           Shm!ShmOpens, Shm!SemOpens, Shm!SemWait, Shm!SemPost, Shm!ShmReleases,
           Queue!QueueOpens, Queue!Sends, Queue!QueueCloses
  <1>2. /\ fd' = fd \/ \E x : fd' = [fd EXCEPT ![p] = x]
        /\ sem' = sem \/ \E x : sem' = [sem EXCEPT ![p] = x]
        /\ mq' = mq \/ \E x : mq' = [mq EXCEPT ![p] = x]
    BY DEF CgiNext, CgiAsks, CgiOpens, CgiWaits, CgiReads, CgiPosts, CgiSends, CgiEnds, CgiStep,
           Shm!ShmOpens, Shm!SemOpens, Shm!SemWait, Shm!SemPost, Shm!ShmReleases,
           Queue!QueueOpens, Queue!Sends, Queue!QueueCloses
  <1>3. \A r \in Procs : r # p => fd'[r] = fd[r] /\ sem'[r] = sem[r] /\ mq'[r] = mq[r]
    BY <1>2
  <1>4. fd'[D] = fd[D] /\ sem'[D] = sem[D] /\ mq'[D] = mq[D]
    BY <1>3
  <1>5. StageInv' /\ ThreadInv' /\ ExitLeavesNothing' /\ ActsOnReceived'
    BY <1>1, <1>4 DEF StageInv, ThreadInv, ExitLeavesNothing, ActsOnReceived
  <1> QED BY <1>1, <1>3, <1>5

\* The browser asks.
LEMMA CgiAsksStep ==
  ASSUME IInv, NEW p \in Cgis, CgiAsks(p)
  PROVE  IInv'
  <1> USE Basics DEF IInv, TypeOK
  <1>1. /\ UNCHANGED <<shmVars, queueVars, mainVars, cmdVars, btnVars, got>>
        /\ cgi[p] = "idle"
        /\ \E pc \in {"open", "openQueue"} :
            /\ cgi' = [cgi EXCEPT ![p] = pc]
            /\ pc = "open" => ask' = ask /\ \E s \in Slots : slot' = [slot EXCEPT ![p] = s]
            /\ pc = "openQueue" => slot' = slot /\ \E c \in Cmds : ask' = [ask EXCEPT ![p] = c]
    BY DEF CgiAsks, CgiStep
  <1>2. PICK pc \in {"open", "openQueue"} :
            /\ cgi' = [cgi EXCEPT ![p] = pc]
            /\ pc = "open" => ask' = ask /\ \E s \in Slots : slot' = [slot EXCEPT ![p] = s]
            /\ pc = "openQueue" => slot' = slot /\ \E c \in Cmds : ask' = [ask EXCEPT ![p] = c]
    BY <1>1
  <1>3. /\ slot' \in [Cgis -> Slots] /\ ask' \in [Cgis -> Cmds \cup {NoCmd}]
        /\ \A r \in Cgis : r # p => ask'[r] = ask[r]
        /\ pc = "openQueue" => ask'[p] \in Cmds
    <2>1. CASE pc = "open"
      <3>1. PICK s \in Slots : slot' = [slot EXCEPT ![p] = s]
        BY <1>2, <2>1
      <3> QED BY <1>2, <2>1, <3>1
    <2>2. CASE pc = "openQueue"
      <3>1. PICK c \in Cmds : ask' = [ask EXCEPT ![p] = c]
        BY <1>2, <2>2
      <3> QED BY <1>2, <2>2, <3>1
    <2> QED BY <2>1, <2>2
  <1>4. TypeOK'
    BY <1>1, <1>2, <1>3 DEF Shm!ShmTypeOK, Queue!QueueTypeOK
  <1>5. CgiInv'
    BY <1>1, <1>2, <1>3 DEF CgiInv, Copying
  <1>6. PairInv'
    BY <1>1 DEF PairInv
  <1>7. SemInv'
    <2>1. count' = count /\ \A u \in Sems : Holders(u)' \subseteq Holders(u)
      BY <1>1, <1>2 DEF Holders, Copying
    <2> QED BY <2>1, ShrinkKeeps
  <1> QED BY <1>4, <1>5, <1>6, <1>7, CgiLeaves

\* startButtonSHM: the memory first, then the semaphore.
LEMMA CgiOpensStep ==
  ASSUME IInv, NEW p \in Cgis, CgiOpens(p)
  PROVE  IInv'
  <1> USE Basics DEF IInv, TypeOK
  <1>1. UNCHANGED <<queueVars, mainVars, cmdVars, btnVars, slot, ask, got>>
    BY DEF CgiOpens, CgiStep
  <1>2. PICK pc \in {"map", "openSem", "wait"} : cgi' = [cgi EXCEPT ![p] = pc]
    BY DEF CgiOpens, CgiStep
  <1>3. UNCHANGED <<shmName, semName, sized, words, count>>
    BY DEF CgiOpens, CgiStep, Shm!ShmOpens, Shm!SemOpens
  <1>4. cgi[p] \in {"open", "map", "openSem"}
    BY DEF CgiOpens, CgiStep
  <1>5. \/ /\ cgi[p] = "open" /\ pc = "map" /\ shmName # NoObj
           /\ fd' = [fd EXCEPT ![p] = shmName] /\ sem' = sem
        \/ /\ cgi[p] = "openSem" /\ pc = "wait" /\ semName # NoObj
           /\ sem' = [sem EXCEPT ![p] = semName] /\ fd' = fd
        \/ /\ cgi[p] = "map" \/ pc = "wait"
           /\ sem' = sem /\ fd' = fd
    BY <1>2 DEF CgiOpens, CgiStep, Shm!ShmOpens, Shm!SemOpens
  <1>6. /\ fd' \in [Procs -> Shms \cup {NoObj}]
        /\ sem' \in [Procs -> Sems \cup {NoObj}]
    <2>1. fd' = fd \/ fd' = [fd EXCEPT ![p] = shmName]
      BY <1>5
    <2>2. sem' = sem \/ sem' = [sem EXCEPT ![p] = semName]
      BY <1>5
    <2>3. fd' \in [Procs -> Shms \cup {NoObj}]
      BY <2>1 DEF Shm!ShmTypeOK
    <2>4. sem' \in [Procs -> Sems \cup {NoObj}]
      BY <2>2 DEF Shm!ShmTypeOK
    <2> QED BY <2>3, <2>4
  <1>7. TypeOK'
    BY <1>1, <1>2, <1>3, <1>6 DEF Shm!ShmTypeOK, Queue!QueueTypeOK
  <1>8. CgiInv'
    BY <1>1, <1>2, <1>4, <1>5 DEF CgiInv, Copying, Shm!ShmTypeOK
  <1>9. PairInv'
    BY <1>1, <1>3, <1>4, <1>5 DEF PairInv, CgiInv, StageInv, Shm!ShmTypeOK
  <1>10. SemInv'
    <2>1. \A u \in Sems : Holders(u)' \subseteq Holders(u)
      BY <1>1, <1>2, <1>5, CgiLeaves DEF Holders, Copying, CgiNext
    <2> QED BY <2>1, <1>3, ShrinkKeeps
  <1> QED BY <1>7, <1>8, <1>9, <1>10, CgiLeaves DEF CgiNext

\* sem_wait, or the end of a process that has no semaphore.
LEMMA CgiWaitsStep ==
  ASSUME IInv, NEW p \in Cgis, CgiWaits(p)
  PROVE  IInv'
  <1> USE Basics DEF IInv, TypeOK
  <1>1. /\ UNCHANGED <<queueVars, mainVars, cmdVars, btnVars, slot, ask, got>>
        /\ UNCHANGED <<shmName, semName, sized, words, fd, sem>>
        /\ cgi[p] = "wait"
    BY DEF CgiWaits, CgiStep, Shm!SemWait
  <1>2. \/ /\ cgi' = [cgi EXCEPT ![p] = "low"] /\ Shm!SemWait(p)
        \/ /\ cgi' = [cgi EXCEPT ![p] = "end"] /\ count' = count
    BY DEF CgiWaits, CgiStep
  <1>3. SemInv' /\ count' \in [Sems -> {0, 1}]
    <2>1. CASE cgi' = [cgi EXCEPT ![p] = "low"] /\ Shm!SemWait(p)
      <3>1. sem[p] \in Sems
        BY <2>1 DEF Shm!SemWait, Shm!ShmTypeOK
      <3>2. \A u \in Sems : Holders(u)' \subseteq IF u = sem[p] THEN Holders(u) \cup {p} ELSE Holders(u)
        BY <2>1, <1>1 DEF Holders
      <3> QED BY <2>1, <3>1, <3>2, WaitKeeps DEF Shm!SemWait
    <2>2. CASE cgi' = [cgi EXCEPT ![p] = "end"] /\ count' = count
      <3>1. \A u \in Sems : Holders(u)' \subseteq Holders(u)
        BY <2>2, <1>1 DEF Holders, Copying
      <3> QED BY <2>2, <3>1, ShrinkKeeps DEF Shm!ShmTypeOK
    <2> QED BY <1>2, <2>1, <2>2
  <1>4. TypeOK'
    <2>1. PICK pc \in {"low", "end"} : cgi' = [cgi EXCEPT ![p] = pc]
      BY <1>2
    <2> QED BY <1>1, <1>3, <2>1 DEF Shm!ShmTypeOK, Queue!QueueTypeOK
  <1>5. CgiInv'
    BY <1>1, <1>2 DEF CgiInv, Copying, Shm!SemWait
  <1>6. PairInv'
    BY <1>1 DEF PairInv
  <1> QED BY <1>3, <1>4, <1>5, <1>6, CgiLeaves DEF CgiNext

\* The second word of a copy.
LEMMA SecondWord ==
  ASSUME NEW g \in Seq(Samples), Len(g) = 1, NEW v \in Samples
  PROVE  /\ Append(g, v) \in Seq(Samples)
         /\ Len(Append(g, v)) = 2
         /\ Append(g, v)[1] = g[1] /\ Append(g, v)[2] = v
  <1>1. Append(g, v) \in Seq(Samples) /\ Len(Append(g, v)) = Len(g) + 1
    BY AppendProperties
  <1>2. \A i \in 1 .. Len(g) : Append(g, v)[i] = g[i]
    BY AppendProperties
  <1>3. Append(g, v)[Len(g) + 1] = v
    BY AppendProperties
  <1>4. Len(g) + 1 = 2 /\ 1 \in 1 .. Len(g)
    OBVIOUS
  <1>5. Append(g, v)[1] = g[1]
    BY <1>2, <1>4
  <1>6. Append(g, v)[2] = v /\ Len(Append(g, v)) = 2
    BY <1>1, <1>3, <1>4, Zenon
  <1> QED BY <1>1, <1>5, <1>6

\* The copy.
LEMMA CgiReadsStep ==
  ASSUME IInv, NEW p \in Cgis, CgiReads(p)
  PROVE  IInv'
  <1> USE Basics DEF IInv, TypeOK
  <1>1. /\ UNCHANGED <<shmVars, queueVars, mainVars, cmdVars, btnVars, slot, ask>>
        /\ cgi[p] \in {"low", "high"}
    BY DEF CgiReads, CgiStep
  <1>2. fd[p] \in Shms
    BY <1>1 DEF CgiInv, Copying, Shm!ShmTypeOK
  <1>3. \A k \in {1, 2} : Shm!Word(p, slot[p], k) \in Samples
    <2>1. words[fd[p]][slot[p]] \in Samples \X Samples
      BY <1>2
    <2> QED BY <2>1 DEF Shm!Word
  <1>4. PICK pc \in {"high", "post"}, g \in Seq(Samples) :
            /\ cgi' = [cgi EXCEPT ![p] = pc]
            /\ got' = [got EXCEPT ![p] = g]
            /\ Len(g) = IF pc = "high" THEN 1 ELSE 2
    <2>1. CASE cgi[p] = "low"
      <3>1. <<Shm!Word(p, slot[p], 1)>> \in Seq(Samples)
        BY <1>3
      <3> QED BY <2>1, <3>1 DEF CgiReads, CgiStep
    <2>2. CASE cgi[p] = "high"
      <3> DEFINE g == got[p]
      <3>1. g \in Seq(Samples) /\ Len(g) = 1
        BY <2>2 DEF CgiInv
      <3> HIDE DEF g
      <3>2. \A v \in Samples : Append(g, v) \in Seq(Samples) /\ Len(Append(g, v)) = 2
        BY <3>1, SecondWord
      <3>3. /\ cgi' = [cgi EXCEPT ![p] = "post"]
            /\ got' = [got EXCEPT ![p] = Append(got[p], Shm!Word(p, slot[p], 2))]
        BY <2>2 DEF CgiReads, CgiStep
      <3> QED BY <1>3, <3>2, <3>3 DEF g
    <2> QED BY <1>1, <2>1, <2>2
  <1>5. TypeOK'
    <2>1. got' \in [Cgis -> Seq(Samples)] /\ \A r \in Cgis : Len(got'[r]) <= 2
      <3>1. Len(g) <= 2
        BY <1>4
      <3> QED BY <1>4, <3>1
    <2>2. cgi' \in [Cgis -> {"idle", "open", "map", "openSem", "wait", "low", "high", "post",
                             "end", "openQueue", "send", "closeQueue"}]
      BY <1>4
    <2> QED BY <1>1, <2>1, <2>2 DEF Shm!ShmTypeOK, Queue!QueueTypeOK
  <1>6. CgiInv'
    BY <1>1, <1>4 DEF CgiInv, Copying
  <1>7. PairInv'
    BY <1>1 DEF PairInv
  <1>8. SemInv'
    <2>1. count' = count /\ \A u \in Sems : Holders(u)' \subseteq Holders(u)
      BY <1>1, <1>4 DEF Holders, Copying
    <2> QED BY <2>1, ShrinkKeeps
  <1> QED BY <1>5, <1>6, <1>7, <1>8, CgiLeaves DEF CgiNext

\* sem_post.
LEMMA CgiPostsStep ==
  ASSUME IInv, NEW p \in Cgis, CgiPosts(p)
  PROVE  IInv'
  <1> USE Basics DEF IInv, TypeOK
  <1>1. /\ UNCHANGED <<queueVars, mainVars, cmdVars, btnVars, slot, ask, got>>
        /\ UNCHANGED <<shmName, semName, sized, words, fd, sem>>
        /\ cgi[p] = "post" /\ cgi' = [cgi EXCEPT ![p] = "end"]
        /\ count' = [count EXCEPT ![sem[p]] = @ + 1]
    BY DEF CgiPosts, CgiStep, Shm!SemPost
  <1>2. SemInv' /\ count' \in [Sems -> {0, 1}]
    <2>1. sem[p] \in Sems /\ p \in Holders(sem[p])
      BY <1>1 DEF CgiInv, Copying, Holders, Shm!ShmTypeOK
    <2>2. \A u \in Sems : Holders(u)' \subseteq IF u = sem[p] THEN Holders(u) \ {p} ELSE Holders(u)
      BY <1>1 DEF Holders, Copying
    <2> QED BY <1>1, <2>1, <2>2, PostKeeps
  <1>3. TypeOK'
    BY <1>1, <1>2 DEF Shm!ShmTypeOK, Queue!QueueTypeOK
  <1>4. CgiInv'
    BY <1>1 DEF CgiInv, Copying
  <1>5. PairInv'
    BY <1>1 DEF PairInv
  <1> QED BY <1>2, <1>3, <1>4, <1>5, CgiLeaves DEF CgiNext

\* startQueue, sendCommand, stopQueue.
LEMMA CgiSendsStep ==
  ASSUME IInv, NEW p \in Cgis, CgiSends(p)
  PROVE  IInv'
  <1> USE Basics DEF IInv, TypeOK
  <1>1. /\ UNCHANGED <<shmVars, mainVars, cmdVars, btnVars, slot, ask, got, mqName>>
        /\ cgi[p] \in {"openQueue", "send", "closeQueue"}
    BY DEF CgiSends, CgiStep, Queue!QueueOpens, Queue!Sends, Queue!QueueCloses
  <1>2. PICK pc \in {"send", "closeQueue", "end"} :
            /\ cgi' = [cgi EXCEPT ![p] = pc]
            /\ pc = "send" => cgi[p] = "openQueue"
    BY DEF CgiSends, CgiStep
  <1>3. Queue!QueueTypeOK' /\ msgs' \in [Queues -> Seq(Cmds)]
    <2>1. CASE cgi[p] = "openQueue"
      BY <2>1, <1>1 DEF CgiSends, CgiStep, Queue!QueueOpens, Queue!QueueTypeOK
    <2>2. CASE cgi[p] = "closeQueue"
      BY <2>2, <1>1, QueueFreed DEF CgiSends, CgiStep, Queue!QueueCloses, Queue!QueueTypeOK
    <2>3. CASE cgi[p] = "send" /\ mq[p] = NoObj
      BY <2>3, <1>1 DEF CgiSends, CgiStep, Queue!Sends, Queue!QueueTypeOK
    <2>4. CASE cgi[p] = "send" /\ mq[p] # NoObj
      <3> DEFINE q == mq[p]
                 m == Append(msgs[q], ask[p])
      <3>1. q \in Queues /\ msgs[q] \in Seq(Cmds) /\ ask[p] \in Cmds
        BY <2>4 DEF Queue!QueueTypeOK, CgiInv
      <3>2. Len(msgs[q]) < MaxMessages /\ msgs' = [msgs EXCEPT ![q] = m] /\ mq' = mq
        BY <2>4 DEF CgiSends, CgiStep, Queue!Sends
      <3>3. m \in Seq(Cmds) /\ Len(m) <= MaxMessages
        BY <3>1, <3>2
      <3> HIDE DEF q, m
      <3> QED BY <1>1, <3>1, <3>2, <3>3 DEF Queue!QueueTypeOK
    <2> QED BY <1>1, <2>1, <2>2, <2>3, <2>4
  <1>4. TypeOK'
    BY <1>1, <1>2, <1>3 DEF Shm!ShmTypeOK
  <1>5. CgiInv'
    BY <1>1, <1>2 DEF CgiInv, Copying
  <1>6. PairInv'
    BY <1>1 DEF PairInv
  <1>7. SemInv'
    <2>1. count' = count /\ \A u \in Sems : Holders(u)' \subseteq Holders(u)
      BY <1>1, <1>2 DEF Holders, Copying
    <2> QED BY <2>1, ShrinkKeeps
  <1> QED BY <1>4, <1>5, <1>6, <1>7, CgiLeaves DEF CgiNext

\* The end of the process.
LEMMA CgiEndsStep ==
  ASSUME IInv, NEW p \in Cgis, CgiEnds(p)
  PROVE  IInv'
  <1> USE Basics DEF IInv, TypeOK
  <1>1. /\ UNCHANGED <<queueVars, mainVars, cmdVars, btnVars, shmName, semName>>
        /\ cgi[p] = "end" /\ cgi' = [cgi EXCEPT ![p] = "idle"]
        /\ slot' = [slot EXCEPT ![p] = 0]
        /\ ask' = [ask EXCEPT ![p] = NoCmd]
        /\ got' = [got EXCEPT ![p] = <<>>]
        /\ fd' = [fd EXCEPT ![p] = NoObj]
        /\ sem' = [sem EXCEPT ![p] = NoObj]
        /\ Shm!ShmFrees(shmName, p) /\ Shm!SemFrees(semName, p)
    BY DEF CgiEnds, CgiStep, Shm!ShmReleases
  <1>2. /\ sized' \in [Shms -> BOOLEAN]
        /\ words' \in [Shms -> [Slots -> Samples \X Samples]]
    BY <1>1, ShmFreed
  <1>3. /\ count' \in [Sems -> {0, 1}]
        /\ \A o \in Sems : count'[o] = count[o] \/ count'[o] = 0
    BY <1>1, SemFreed
  <1>4. /\ fd' \in [Procs -> Shms \cup {NoObj}] /\ fd'[p] = NoObj
        /\ sem' \in [Procs -> Sems \cup {NoObj}] /\ sem'[p] = NoObj
        /\ \A r \in Procs : r # p => fd'[r] = fd[r] /\ sem'[r] = sem[r]
    BY <1>1 DEF Shm!ShmTypeOK
  <1>5. got' \in [Cgis -> Seq(Samples)] /\ \A r \in Cgis : Len(got'[r]) <= 2
    <2>1. <<>> \in Seq(Samples) /\ Len(<<>>) = 0
      OBVIOUS
    <2> QED BY <1>1, <2>1
  <1>6. TypeOK'
    BY <1>1, <1>2, <1>3, <1>4, <1>5 DEF Shm!ShmTypeOK, Queue!QueueTypeOK
  <1>7. CgiInv' /\ PairInv'
    BY <1>1, <1>4 DEF CgiInv, PairInv, Copying
  <1>8. SemInv'
    <2>1. \A u \in Sems : Holders(u)' \subseteq Holders(u)
      BY <1>1, <1>4 DEF Holders, Copying
    <2> QED BY <2>1, <1>3, ShrinkKeeps
  <1> QED BY <1>6, <1>7, <1>8, CgiLeaves DEF CgiNext

-----------------------------------------------------------------------------
(* The invariant, and the properties it implies.                           *)

\* Nothing is created and everybody is idle at the start.
LEMMA InitStep == Init => IInv
  <1> SUFFICES ASSUME Init PROVE IInv
    OBVIOUS
  <1> USE Basics DEF Init
  <1>1. /\ shmName = NoObj /\ semName = NoObj /\ mqName = NoObj
        /\ sized \in [Shms -> BOOLEAN] /\ count \in [Sems -> {0, 1}]
        /\ fd = [p \in Procs |-> NoObj] /\ sem = [p \in Procs |-> NoObj]
        /\ mq = [p \in Procs |-> NoObj]
    BY DEF Shm!ShmInit, Queue!QueueInit
  <1>2. words \in [Shms -> [Slots -> Samples \X Samples]]
    BY DEF Shm!ShmInit, Shm!Zeros, Shm!Slots, Slots
  <1>3. /\ msgs \in [Queues -> Seq(Cmds)] /\ \A o \in Queues : Len(msgs[o]) <= MaxMessages
        /\ got \in [Cgis -> Seq(Samples)] /\ \A p \in Cgis : Len(got[p]) <= 2
    <2>1. \A S : <<>> \in Seq(S) /\ Len(<<>>) = 0
      OBVIOUS
    <2> QED BY <2>1 DEF Queue!QueueInit
  <1>4. TypeOK
    BY <1>1, <1>2, <1>3 DEF TypeOK, Shm!ShmTypeOK, Queue!QueueTypeOK
  <1>5. StageInv /\ ThreadInv /\ CgiInv /\ PairInv /\ ExitLeavesNothing /\ ActsOnReceived
    BY <1>1 DEF StageInv, ThreadInv, CgiInv, PairInv, ExitLeavesNothing, ActsOnReceived, Copying
  <1>6. SemInv
    BY <1>1 DEF SemInv, Holders, Copying
  <1> QED BY <1>4, <1>5, <1>6 DEF IInv

\* The main thread and its signals.
LEMMA MainKeeps == IInv /\ (Starts \/ Signal \/ MainNext) => IInv'
  <1> SUFFICES ASSUME IInv, Starts \/ Signal \/ MainNext PROVE IInv'
    OBVIOUS
  <1>1. CASE Starts \/ StartsCmdThread \/ StartsBtnThread \/ Interrupted
    BY <1>1, QuietStep DEF Starts, StartsCmdThread, StartsBtnThread, Interrupted
  <1>2. CASE InterruptedEarly \/ Killed \/ Exits
    BY <1>2, GoneStep DEF InterruptedEarly, Killed, Exits
  <1>3. CASE InitButtonSHM
    <2>1. CASE MainStep("create", "queue", shmName # NoObj /\ UNCHANGED shmVars)
               \/ MainStep("sem", "queue", semName # NoObj /\ UNCHANGED shmVars)
      BY <1>3, <2>1, QuietStep DEF InitButtonSHM, MainStep
    <2> QED BY <1>3, <2>1, CreateStep, SizeStep, SemStep DEF InitButtonSHM
  <1>4. CASE Joins
    <2>1. CASE main = "joinBtn" /\ btnPc = "none" /\ Gone("crashed")
      BY <2>1, GoneStep
    <2>2. CASE /\ UNCHANGED <<shmVars, queueVars>>
               /\ MainStep("joinCmd", "joinBtn", cmdPc = "ended")
                  \/ MainStep("joinBtn", "unlinkShm", btnPc = "ended")
      BY <2>2, QuietStep DEF MainStep
    <2> QED BY <1>4, <2>1, <2>2 DEF Joins
  <1> QED BY <1>1, <1>2, <1>3, <1>4, QueueStep, CloseStep DEF Signal, MainNext

\* The button thread, with its crash.
LEMMA BtnKeeps == IInv /\ BtnNext => IInv'
  <1> SUFFICES ASSUME IInv, BtnNext PROVE IInv'
    OBVIOUS
  <1>1. CASE Gone("crashed")
    BY <1>1, GoneStep
  <1>2. CASE ~Gone("crashed")
    BY <1>2, BtnStep DEF BtnNext, BtnTests, BtnInputs, BtnWaits, BtnWrites, BtnPosts
  <1> QED BY <1>1, <1>2

\* A CGI process.
LEMMA CgiKeepsInv == IInv /\ (\E p \in Cgis : CgiAsks(p) \/ CgiNext(p)) => IInv'
  BY CgiAsksStep, CgiOpensStep, CgiWaitsStep, CgiReadsStep, CgiPostsStep, CgiSendsStep, CgiEndsStep
     DEF CgiNext

\* Every step of the system keeps the invariant, and so does a step that changes nothing.
LEMMA InvStep == IInv /\ [Next]_vars => IInv'
  <1> SUFFICES ASSUME IInv, [Next]_vars PROVE IInv'
    OBVIOUS
  <1>1. CASE UNCHANGED vars
    BY <1>1 DEF vars, IInv, TypeOK, Shm!ShmTypeOK, Queue!QueueTypeOK, StageInv, ThreadInv, CgiInv,
                SemInv, Holders, PairInv, ExitLeavesNothing, ActsOnReceived
  <1> QED BY <1>1, MainKeeps, CmdStep, BtnKeeps, CgiKeepsInv DEF Next

\* The types, the stages of the daemon, the semaphore and the objects the processes
\* share are as IInv says in every reachable state.
THEOREM Invariance == Spec => []IInv
  BY InitStep, InvStep, PTL DEF Spec

\* Every variable has its type; a semaphore's counter is 0 or 1, a queue holds at most
\* MAX_MESSAGES commands, and the button thread's index stays in the table.
THEOREM TypeCorrect == Spec => []TypeOK
  <1>1. IInv => TypeOK
    BY DEF IInv
  <1> QED BY <1>1, Invariance, PTL

\* A daemon that has a semaphore or a queue has those the names stand for.
THEOREM NamesHeld == Spec => []NamesAreTheDaemons
  <1>1. IInv => NamesAreTheDaemons
    BY DEF IInv, StageInv, NamesAreTheDaemons
  <1> QED BY <1>1, Invariance, PTL

\* closeAndExit unbinds every name, also those a former daemon left.
THEOREM ExitCleans == Spec => []ExitLeavesNothing
  <1>1. IInv => ExitLeavesNothing
    BY DEF IInv
  <1> QED BY <1>1, Invariance, PTL

\* A command that nobody has initialized is acted on without a queue only.
THEOREM UninitializedOnlyWithoutQueue == Spec => []ActsOnReceived
  <1>1. IInv => ActsOnReceived
    BY DEF IInv
  <1> QED BY <1>1, Invariance, PTL

-----------------------------------------------------------------------------
(* A step and the history.                                                 *)

\* An end of the daemon other than by a signal to its process comes when its button
\* thread is not copying.
LEMMA GoesIdle ==
  ASSUME IInv, Next, ~Killed, NEW how, Gone(how)
  PROVE  btnPc \notin Copying
  <1> USE DEF IInv, ThreadInv, Copying
  <1>1. ASSUME Starts PROVE FALSE
    BY <1>1 DEF Starts, Gone
  <1>2. ASSUME Signal PROVE btnPc \notin Copying
    BY <1>2 DEF Signal, Interrupted, InterruptedEarly, Gone
  <1>3. ASSUME MainNext PROVE btnPc \notin Copying
    BY <1>3 DEF MainNext, InitButtonSHM, InitQueue, StartsCmdThread, StartsBtnThread, Joins,
                Closes, Exits, MainStep, Gone
  <1>4. ASSUME CmdNext PROVE FALSE
    BY <1>4 DEF CmdNext, CmdTests, CmdReceives, CmdActs, Gone
  <1>5. ASSUME BtnNext PROVE btnPc \notin Copying
    BY <1>5 DEF BtnNext, BtnTests, BtnInputs, BtnWaits, BtnWrites, BtnPosts, Gone
  <1>6. ASSUME \E p \in Cgis : CgiAsks(p) \/ CgiNext(p) PROVE btnPc \notin Copying
    <2>1. PICK p \in Cgis : CgiAsks(p) \/ CgiNext(p)
      BY <1>6
    <2>2. UNCHANGED <<main, btnPc>>
      BY <2>1, CgiLeaves
    <2> QED BY <2>2 DEF Gone
  <1> QED BY <1>1, <1>2, <1>3, <1>4, <1>5, <1>6 DEF Next

-----------------------------------------------------------------------------
(* The accounts of the semaphore.                                          *)

InUse(o) == o = semName \/ \E p \in Procs : sem[p] = o

\* A semaphore that is free after the step was free before it with the same counter,
\* or has just been made free.
LEMMA AccountsKept ==
  ASSUME AccountsInv, abrupt \subseteq abrupt',
         \A o \in Sems : InUse(o)' /\ Holders(o)' = {}
            => count'[o] = 1 \/ (InUse(o) /\ Holders(o) = {} /\ count'[o] = count[o])
  PROVE  AccountsInv'
  BY DEF AccountsInv, InUse

\* The daemon goes while it is in no critical section.
LEMMA AccountsGone ==
  ASSUME HistoryInv, Next, ~Killed, NEW how, Gone(how), NEW o \in Sems, InUse(o)', Holders(o)' = {}
  PROVE  InUse(o) /\ Holders(o) = {} /\ count'[o] = count[o]
  <1> USE Basics DEF HistoryInv, IInv
  <1>1. /\ UNCHANGED <<semName, cgi>>
        /\ sem' = [sem EXCEPT ![D] = NoObj]
        /\ Shm!SemFrees(semName, D)
    BY DEF Gone, Shm!ShmReleases
  <1>2. sem'[D] = NoObj /\ \A r \in Procs : r # D => sem'[r] = sem[r]
    BY <1>1 DEF TypeOK, Shm!ShmTypeOK
  <1>3. o = semName \/ \E r \in Procs : r # D /\ sem[r] = o
    BY <1>1, <1>2 DEF InUse
  <1>4. count'[o] = count[o]
    BY <1>1, <1>3, SemFreed
  <1>5. Holders(o) = {}
    <2>1. btnPc \notin Copying
      BY GoesIdle
    <2> QED BY <1>1, <1>2, <2>1 DEF Holders
  <1> QED BY <1>3, <1>4, <1>5 DEF InUse

\* The main thread creates a semaphore that is free, and closes its own when the button
\* thread has ended.
LEMMA AccountsMain ==
  ASSUME HistoryInv, Starts \/ Interrupted \/ MainNext, main' # "off",
         NEW o \in Sems, InUse(o)', Holders(o)' = {}
  PROVE  count'[o] = 1 \/ (InUse(o) /\ Holders(o) = {} /\ count'[o] = count[o])
  <1> USE Basics DEF HistoryInv, IInv, TypeOK, Shm!ShmTypeOK
  <1>1. CASE UNCHANGED <<semName, sem, count>>
    <2>1. UNCHANGED cgi /\ (btnPc' = btnPc \/ btnPc = "none")
      BY DEF Starts, Interrupted, MainNext, InitButtonSHM, InitQueue, StartsCmdThread,
             StartsBtnThread, Joins, Closes, Exits, MainStep, Gone, ThreadInv
    <2> QED BY <1>1, <2>1 DEF InUse, Holders, Copying
  <1>2. CASE MainStep("sem", "queue", Shm!SemCreates(D))
    <2>1. PICK u \in Sems : /\ semName' = u
                            /\ sem' = [sem EXCEPT ![D] = u]
                            /\ count' = [count EXCEPT ![u] = 1]
      BY <1>2 DEF MainStep, Shm!SemCreates
    <2>2. /\ semName = NoObj /\ UNCHANGED <<cgi, btnPc>>
          /\ btnPc \notin Copying
      BY <1>2 DEF MainStep, Shm!SemCreates, ThreadInv, Copying
    <2>3. sem'[D] = u /\ \A r \in Procs : r # D => sem'[r] = sem[r]
      BY <2>1
    <2>4. CASE o = u
      BY <2>1, <2>4
    <2>5. CASE o # u
      <3>1. InUse(o) /\ count'[o] = count[o]
        BY <2>1, <2>3, <2>5 DEF InUse
      <3>2. Holders(o) \subseteq Holders(o)'
        BY <2>2, <2>3 DEF Holders
      <3> QED BY <3>1, <3>2
    <2> QED BY <2>4, <2>5
  <1>3. CASE MainStep("unlinkSem", "unlinkQueue", Shm!SemUnlinks(D))
    <2>1. /\ semName' = NoObj /\ sem' = [sem EXCEPT ![D] = NoObj]
          /\ Shm!SemFrees(NoObj, D) /\ UNCHANGED <<cgi, btnPc>>
          /\ btnPc \notin Copying
      BY <1>3 DEF MainStep, Shm!SemUnlinks, ThreadInv, Copying
    <2>2. sem'[D] = NoObj /\ \A r \in Procs : r # D => sem'[r] = sem[r]
      BY <2>1
    <2>3. \E r \in Procs : r # D /\ sem[r] = o
      BY <2>1, <2>2 DEF InUse
    <2>4. count'[o] = count[o]
      BY <2>1, <2>3, SemFreed
    <2>5. Holders(o) \subseteq Holders(o)'
      BY <2>1, <2>2 DEF Holders
    <2> QED BY <2>3, <2>4, <2>5 DEF InUse
  <1>4. \/ UNCHANGED <<semName, sem, count>>
        \/ MainStep("sem", "queue", Shm!SemCreates(D))
        \/ MainStep("unlinkSem", "unlinkQueue", Shm!SemUnlinks(D))
    BY DEF Starts, Interrupted, MainNext, InitButtonSHM, InitQueue, StartsCmdThread, StartsBtnThread,
           Joins, Closes, Exits, MainStep, Gone, Shm!ShmCreates, Shm!ShmSizes, Shm!ShmUnlinks
  <1> QED BY <1>1, <1>2, <1>3, <1>4

\* The threads take the semaphore and give it back.
LEMMA AccountsThreads ==
  ASSUME HistoryInv, CmdNext \/ BtnNext, main' = main,
         NEW o \in Sems, InUse(o)', Holders(o)' = {}
  PROVE  count'[o] = 1 \/ (InUse(o) /\ Holders(o) = {} /\ count'[o] = count[o])
  <1> USE Basics DEF HistoryInv, IInv, TypeOK, Shm!ShmTypeOK
  <1>1. btnPc = "wait" => main # "off"
    BY DEF ThreadInv
  <1>2. UNCHANGED <<semName, sem, cgi>>
    BY <1>1 DEF CmdNext, CmdTests, CmdReceives, CmdActs, BtnNext, BtnTests, BtnInputs, BtnWaits,
                BtnWrites, BtnPosts, Gone, Shm!SemWait, Shm!SemPost, Shm!WriteWord
  <1>3. InUse(o)
    BY <1>2 DEF InUse
  <1>4. CASE BtnPosts
    <2>1. /\ sem[D] \in Sems /\ D \in Holders(sem[D])
          /\ count' = [count EXCEPT ![sem[D]] = @ + 1]
      BY <1>4 DEF BtnPosts, ThreadInv, Copying, Holders, Shm!SemPost
    <2>2. count[sem[D]] = 0
      BY <2>1 DEF SemInv
    <2>3. o # sem[D] => count'[o] = count[o] /\ Holders(o)' = Holders(o)
      BY <1>2, <2>1 DEF Holders
    <2> QED BY <1>3, <2>1, <2>2, <2>3
  <1>5. CASE BtnWaits
    <2>1. /\ sem[D] # NoObj
          /\ count' = [count EXCEPT ![sem[D]] = @ - 1]
          /\ btnPc = "wait" /\ btnPc' = "low"
      BY <1>1, <1>5 DEF BtnWaits, Gone, Shm!SemWait
    <2>2. D \in Holders(sem[D])'
      BY <1>2, <2>1 DEF Holders, Copying
    <2>3. o # sem[D] /\ Holders(o) \subseteq Holders(o)'
      BY <1>2, <2>1, <2>2 DEF Holders, Copying
    <2> QED BY <1>3, <2>1, <2>3
  <1>6. CASE CmdNext \/ BtnTests \/ BtnInputs \/ BtnWrites
    <2>1. count' = count /\ Holders(o) \subseteq Holders(o)'
      BY <1>2, <1>6 DEF CmdNext, CmdTests, CmdReceives, CmdActs, BtnTests, BtnInputs, BtnWrites,
                        Shm!WriteWord, Holders, Copying
    <2> QED BY <1>3, <2>1
  <1> QED BY <1>4, <1>5, <1>6 DEF BtnNext

\* So do the CGI processes; they open a semaphore that has the name.
LEMMA AccountsCgi ==
  ASSUME HistoryInv, NEW p \in Cgis, CgiAsks(p) \/ CgiNext(p),
         NEW o \in Sems, InUse(o)', Holders(o)' = {}
  PROVE  count'[o] = 1 \/ (InUse(o) /\ Holders(o) = {} /\ count'[o] = count[o])
  <1> USE Basics DEF HistoryInv, IInv, TypeOK, Shm!ShmTypeOK
  <1>1. UNCHANGED <<semName, btnPc>> /\ \A r \in Procs : r # p => sem'[r] = sem[r]
    BY CgiLeaves
  <1>2. \A r \in Cgis : r # p => cgi'[r] = cgi[r]
    BY DEF CgiAsks, CgiNext, CgiOpens, CgiWaits, CgiReads, CgiPosts, CgiSends, CgiEnds, CgiStep
  <1>3. ASSUME p \notin Holders(o) PROVE Holders(o) = {}
    BY <1>1, <1>2, <1>3 DEF Holders
  <1>4. CASE CgiPosts(p)
    <2>1. /\ cgi[p] = "post" /\ sem' = sem
          /\ count' = [count EXCEPT ![sem[p]] = @ + 1]
      BY <1>4 DEF CgiPosts, CgiStep, Shm!SemPost
    <2>2. sem[p] \in Sems /\ p \in Holders(sem[p])
      BY <2>1 DEF CgiInv, Copying, Holders
    <2>3. count[sem[p]] = 0
      BY <2>2 DEF SemInv
    <2>4. CASE o # sem[p]
      <3>1. p \notin Holders(o)
        BY <2>4 DEF Holders
      <3> QED BY <1>1, <1>3, <2>1, <2>2, <2>4, <3>1 DEF InUse
    <2> QED BY <2>1, <2>2, <2>3, <2>4
  <1>5. CASE CgiWaits(p)
    <2>1. sem' = sem /\ InUse(o)
      BY <1>1, <1>5 DEF CgiWaits, CgiStep, Shm!SemWait, InUse
    <2>2. p \notin Holders(o)
      BY <1>5 DEF CgiWaits, CgiStep, Holders, Copying
    <2>3. CASE CgiStep(p, "wait", "low", Shm!SemWait(p))
      <3>1. cgi'[p] = "low" /\ sem[p] # NoObj /\ count' = [count EXCEPT ![sem[p]] = @ - 1]
        BY <2>3 DEF CgiStep, Shm!SemWait
      <3>2. o # sem[p]
        BY <2>1, <3>1 DEF Holders, Copying
      <3> QED BY <1>3, <2>1, <2>2, <3>1, <3>2
    <2>4. CASE CgiStep(p, "wait", "end", sem[p] = NoObj /\ UNCHANGED shmVars)
      BY <1>3, <2>1, <2>2, <2>4 DEF CgiStep
    <2> QED BY <1>5, <2>3, <2>4 DEF CgiWaits
  <1>6. CASE CgiEnds(p)
    <2>1. /\ sem' = [sem EXCEPT ![p] = NoObj] /\ Shm!SemFrees(semName, p) /\ cgi[p] = "end"
      BY <1>6 DEF CgiEnds, CgiStep, Shm!ShmReleases
    <2>2. o = semName \/ \E r \in Procs : r # p /\ sem[r] = o
      BY <1>1, <2>1 DEF InUse
    <2>3. count'[o] = count[o]
      BY <2>1, <2>2, SemFreed
    <2>4. p \notin Holders(o)
      BY <2>1 DEF Holders, Copying
    <2> QED BY <1>3, <2>2, <2>3, <2>4 DEF InUse
  <1>7. CASE CgiAsks(p) \/ CgiOpens(p) \/ CgiReads(p) \/ CgiSends(p)
    <2>1. count' = count
      BY <1>7 DEF CgiAsks, CgiOpens, CgiReads, CgiSends, CgiStep, Shm!ShmOpens, Shm!SemOpens
    <2>2. sem' = sem \/ sem' = [sem EXCEPT ![p] = semName]
      BY <1>7 DEF CgiAsks, CgiOpens, CgiReads, CgiSends, CgiStep, Shm!ShmOpens, Shm!SemOpens
    <2>3. InUse(o)
      BY <1>1, <2>2 DEF InUse
    <2>4. ASSUME p \in Holders(o) PROVE p \in Holders(o)'
      <3>1. CASE CgiReads(p)
        BY <2>4, <3>1 DEF CgiReads, CgiStep, Holders, Copying
      <3>2. CASE CgiAsks(p) \/ CgiOpens(p) \/ CgiSends(p)
        BY <2>4, <3>2 DEF CgiAsks, CgiOpens, CgiSends, CgiStep, Holders, Copying
      <3> QED BY <1>7, <3>1, <3>2
    <2> QED BY <1>3, <2>1, <2>3, <2>4
  <1> QED BY <1>4, <1>5, <1>6, <1>7 DEF CgiNext

\* A step of a process with a semaphore counts it in or out.
LEMMA AccountsStep ==
  ASSUME HistoryInv, HistoryNext
  PROVE  AccountsInv'
  <1>1. Next /\ abrupt \subseteq abrupt' /\ (Killed => "TERM" \in abrupt')
    BY DEF HistoryNext
  <1>2. CASE Killed
    BY <1>1, <1>2 DEF AccountsInv
  <1>3. CASE ~Killed /\ \E how : Gone(how)
    BY <1>1, <1>3, AccountsGone, AccountsKept DEF HistoryInv
  <1>4. CASE ~\E how : Gone(how)
    <2>1. CASE Starts \/ Signal \/ MainNext
      <3>1. main' # "off" /\ (Starts \/ Interrupted \/ MainNext)
        BY <1>4, <2>1 DEF Starts, Signal, Interrupted, InterruptedEarly, Killed, MainNext,
              InitButtonSHM, InitQueue, StartsCmdThread, StartsBtnThread, Joins, Closes, Exits, MainStep
      <3> QED BY <1>1, <3>1, AccountsMain, AccountsKept DEF HistoryInv
    <2>2. CASE CmdNext \/ BtnNext
      <3>1. main' = main
        BY <1>4, <2>2 DEF CmdNext, CmdTests, CmdReceives, CmdActs, BtnNext, BtnTests, BtnInputs,
                          BtnWaits, BtnWrites, BtnPosts
      <3> QED BY <1>1, <2>2, <3>1, AccountsThreads, AccountsKept DEF HistoryInv
    <2>3. CASE \E p \in Cgis : CgiAsks(p) \/ CgiNext(p)
      BY <1>1, <2>3, AccountsCgi, AccountsKept DEF HistoryInv
    <2> QED BY <1>1, <2>1, <2>2, <2>3 DEF Next
  <1> QED BY <1>2, <1>3, <1>4

-----------------------------------------------------------------------------
(* The copies of the button struct.                                        *)

\* Two that copy with the same memory would hold the same semaphore.
LEMMA Exclusive ==
  ASSUME IInv, NEW p \in Cgis, cgi[p] \in Copying, btnPc \in Copying
  PROVE  fd[p] # fd[D] /\ fd[p] \in Shms /\ fd[D] \in Shms
  <1> USE Basics DEF IInv, TypeOK, Shm!ShmTypeOK
  <1>1. sem[D] # NoObj /\ fd[D] # NoObj
    BY DEF ThreadInv, StageInv, Copying
  <1>2. sem[p] # NoObj /\ fd[p] # NoObj
    BY DEF CgiInv
  <1>3. ASSUME fd[p] = fd[D] PROVE FALSE
    <2>1. sem[p] = sem[D] /\ sem[D] \in Sems
      BY <1>1, <1>2, <1>3 DEF PairInv
    <2>2. p \in Holders(sem[D]) /\ D \in Holders(sem[D])
      BY <2>1 DEF Holders
    <2> QED BY <2>1, <2>2 DEF SemInv
  <1> QED BY <1>1, <1>2, <1>3

\* Steps that change neither the memory nor a copy: the button thread is in the same
\* place, or copies neither before nor after.
LEMMA CopyQuiet ==
  ASSUME IInv, CopyInv, NoTornRead, abrupt \subseteq abrupt',
         UNCHANGED <<cgi, slot, got>>,
         \A p \in Cgis : fd'[p] = fd[p],
         \A o \in Shms, s \in Slots :
            words'[o][s] = words[o][s] \/ words'[o][s] = <<Blank, Blank>>,
         \A p \in Cgis : fd[p] \in Shms => words'[fd[p]] = words[fd[p]],
         \/ btnPc \notin Copying /\ btnPc' \notin Copying
         \/ /\ UNCHANGED <<btnPc, id, sample, words>> /\ fd'[D] = fd[D]
  PROVE  CopyInv' /\ NoTornRead'
  <1> USE Basics DEF IInv, TypeOK, Shm!ShmTypeOK
  <1>1. NoTornRead'
    BY DEF NoTornRead
  <1>2. SUFFICES ASSUME "TERM" \notin abrupt' PROVE CopyInv'
    BY <1>1 DEF CopyInv
  <1>3. \A p \in Cgis : cgi[p] = "high" => fd[p] \in Shms
    BY DEF CgiInv, Copying
  <1>4. \A p \in Cgis : cgi'[p] = "high" => got'[p][1] = words'[fd'[p]][slot'[p]][1]
    BY <1>2, <1>3 DEF CopyInv
  <1>5. CASE btnPc \notin Copying /\ btnPc' \notin Copying
    <2>1. ASSUME NEW o \in Shms, NEW s \in Slots
          PROVE  words'[o][s][1] = words'[o][s][2]
      <3>1. words[o][s][1] = words[o][s][2]
        BY <1>2, <1>5 DEF CopyInv, Copying
      <3>2. CASE words'[o][s] = <<Blank, Blank>>
        BY <3>2
      <3> QED BY <3>1, <3>2
    <2> QED BY <1>4, <1>5, <2>1 DEF CopyInv, Copying
  <1>6. CASE UNCHANGED <<btnPc, id, sample, words>> /\ fd'[D] = fd[D]
    BY <1>2, <1>4, <1>6 DEF CopyInv
  <1> QED BY <1>5, <1>6

\* The main thread frees the memory when nobody in the daemon uses it.
LEMMA CopyMain ==
  ASSUME HistoryInv, Starts \/ Interrupted \/ MainNext, main' # "off", abrupt \subseteq abrupt'
  PROVE  CopyInv' /\ NoTornRead'
  <1> USE Basics DEF HistoryInv, IInv, TypeOK, Shm!ShmTypeOK
  <1>1. UNCHANGED cgiVars
    BY DEF Starts, Interrupted, MainNext, InitButtonSHM, InitQueue, StartsCmdThread, StartsBtnThread,
           Joins, Closes, Exits, MainStep, Gone
  <1>2. CASE MainStep("unlinkShm", "unlinkSem", Shm!ShmUnlinks(D))
    <2>1. /\ fd' = [fd EXCEPT ![D] = NoObj] /\ Shm!ShmFrees(NoObj, D)
          /\ btnPc = "ended" /\ btnPc' = "ended"
      BY <1>2 DEF MainStep, Shm!ShmUnlinks, ThreadInv
    <2> QED BY <1>1, <2>1, ShmFreed, CopyQuiet DEF Copying
  <1>3. CASE MainStep("create", "size", Shm!ShmCreates(D))
    <2>1. /\ \E o : fd' = [fd EXCEPT ![D] = o]
          /\ words' = words /\ btnPc = "none" /\ btnPc' = "none"
      BY <1>3 DEF MainStep, Shm!ShmCreates, ThreadInv
    <2> QED BY <1>1, <2>1, CopyQuiet DEF Copying
  <1>4. CASE StartsBtnThread
    <2>1. words' = words /\ fd' = fd /\ btnPc = "none" /\ btnPc' = "test"
      BY <1>4 DEF StartsBtnThread, ThreadInv
    <2> QED BY <1>1, <2>1, CopyQuiet DEF Copying
  <1>5. CASE UNCHANGED <<words, fd, btnVars>>
    BY <1>1, <1>5, CopyQuiet
  <1> QED BY <1>2, <1>3, <1>4, <1>5 DEF Starts, Interrupted, MainNext, InitButtonSHM, InitQueue,
        StartsCmdThread, Joins, Closes, Exits, MainStep, Gone, Shm!ShmSizes, Shm!SemCreates, Shm!SemUnlinks

\* The button thread writes one half and then the other.
LEMMA CopyBtn ==
  ASSUME HistoryInv, BtnNext, main' = main, abrupt \subseteq abrupt'
  PROVE  CopyInv' /\ NoTornRead'
  <1> USE Basics DEF HistoryInv, IInv, TypeOK, Shm!ShmTypeOK
  <1>1. btnPc = "wait" => main # "off"
    BY DEF ThreadInv
  <1>2. UNCHANGED <<fd, cgiVars>>
    BY <1>1 DEF BtnNext, BtnTests, BtnInputs, BtnWaits, BtnWrites, BtnPosts, Gone,
                Shm!SemWait, Shm!SemPost, Shm!WriteWord
  <1>3. NoTornRead'
    BY <1>2 DEF NoTornRead
  <1>4. CASE BtnTests \/ BtnInputs \/ BtnWaits \/ BtnPosts
    <2>1. words' = words /\ btnPc' # "high" /\ btnPc # "high"
      BY <1>1, <1>4 DEF BtnTests, BtnInputs, BtnWaits, BtnPosts, Gone, Shm!SemWait, Shm!SemPost
    <2> QED BY <1>2, <1>3, <2>1 DEF CopyInv
  <1>5. CASE BtnWrites
    <2>1. btnPc \in {"low", "high"} /\ UNCHANGED <<id, sample>>
      BY <1>5 DEF BtnWrites
    <2>2. fd[D] \in Shms
      BY <2>1 DEF ThreadInv, StageInv, Copying
    <2>3. PICK k \in {1, 2} : /\ words' = [words EXCEPT ![fd[D]][id][k] = sample]
                              /\ btnPc = IF k = 1 THEN "low" ELSE "high"
                              /\ btnPc' = IF k = 1 THEN "high" ELSE "post"
      BY <1>5 DEF BtnWrites, Shm!WriteWord
    <2>4. \A u \in Shms, t \in Slots : \A j \in {1, 2} :
            words'[u][t][j] = IF u = fd[D] /\ t = id /\ j = k THEN sample ELSE words[u][t][j]
      BY <2>2, <2>3, WordWritten
    <2>5. SUFFICES ASSUME "TERM" \notin abrupt, "TERM" \notin abrupt' PROVE CopyInv'
      BY <1>3 DEF CopyInv
    <2>6. \A o \in Shms, s \in Slots :
            words'[o][s][1] = words'[o][s][2] \/ (btnPc' = "high" /\ o = fd[D] /\ s = id)
      BY <2>2, <2>3, <2>4, <2>5 DEF CopyInv
    <2>7. btnPc' = "high" => words'[fd[D]][id][1] = sample
      BY <2>2, <2>3, <2>4
    <2>8. ASSUME NEW p \in Cgis, cgi[p] = "high"
          PROVE  got[p][1] = words'[fd[p]][slot[p]][1]
      <3>1. fd[p] # fd[D] /\ fd[p] \in Shms
        BY <2>1, <2>8, Exclusive DEF Copying
      <3> QED BY <2>4, <2>5, <2>8, <3>1 DEF CopyInv
    <2> QED BY <1>2, <2>1, <2>6, <2>7, <2>8 DEF CopyInv
  <1> QED BY <1>4, <1>5 DEF BtnNext

\* A CGI process reads one half and then the other.
LEMMA CopyCgi ==
  ASSUME HistoryInv, NEW p \in Cgis, CgiAsks(p) \/ CgiNext(p), abrupt \subseteq abrupt'
  PROVE  CopyInv' /\ NoTornRead'
  <1> USE Basics DEF HistoryInv, IInv, TypeOK, Shm!ShmTypeOK
  <1>1. /\ UNCHANGED btnVars
        /\ \A r \in Procs : r # p => fd'[r] = fd[r]
    BY CgiLeaves
  <1>2. /\ cgi' \in [Cgis -> {"idle", "open", "map", "openSem", "wait", "low", "high", "post",
                             "end", "openQueue", "send", "closeQueue"}]
        /\ \A r \in Cgis : r # p => cgi'[r] = cgi[r]
        /\ \A r \in Cgis : r # p => slot'[r] = slot[r]
        /\ \A r \in Cgis : r # p => got'[r] = got[r]
    <2>1. TypeOK'
      BY CgiKeepsInv
    <2> QED BY <2>1 DEF CgiAsks, CgiNext, CgiOpens, CgiWaits, CgiReads, CgiPosts, CgiSends, CgiEnds, CgiStep
  <1>3. /\ \A o \in Shms, s \in Slots :
                words'[o][s] = words[o][s] \/ words'[o][s] = <<Blank, Blank>>
        /\ \A r \in Procs : r # p /\ fd[r] \in Shms => words'[fd[r]] = words[fd[r]]
    <2>1. CASE CgiEnds(p)
      BY <2>1, ShmFreed DEF CgiEnds, CgiStep, Shm!ShmReleases
    <2>2. CASE ~CgiEnds(p)
      BY <2>2 DEF CgiAsks, CgiNext, CgiOpens, CgiWaits, CgiReads, CgiPosts, CgiSends, CgiStep,
                  Shm!ShmOpens, Shm!SemOpens, Shm!SemWait, Shm!SemPost
    <2> QED BY <2>1, <2>2
  <1>4. SUFFICES ASSUME "TERM" \notin abrupt, "TERM" \notin abrupt' PROVE CopyInv' /\ NoTornRead'
    BY DEF CopyInv, NoTornRead
  <1>5. \A o \in Shms, s \in Slots :
            words'[o][s][1] = words'[o][s][2] \/ (btnPc' = "high" /\ o = fd'[D] /\ s = id')
    <2> TAKE o \in Shms, s \in Slots
    <2>1. CASE words'[o][s] = <<Blank, Blank>>
      BY <2>1
    <2>2. CASE words'[o][s] = words[o][s]
      BY <1>1, <1>4, <2>2 DEF CopyInv
    <2> QED BY <1>3, <2>1, <2>2
  <1>6. btnPc' = "high" => words'[fd'[D]][id'][1] = sample'
    <2>1. btnPc = "high" => fd[D] \in Shms
      BY DEF ThreadInv, StageInv, Copying
    <2> QED BY <1>1, <1>3, <1>4, <2>1 DEF CopyInv
  <1>7. ASSUME NEW r \in Cgis, r # p
        PROVE  /\ cgi'[r] = "high" => got'[r][1] = words'[fd'[r]][slot'[r]][1]
               /\ Len(got'[r]) = 2 => got'[r][1] = got'[r][2]
    <2>1. cgi[r] = "high" => fd[r] \in Shms
      BY DEF CgiInv, Copying
    <2> QED BY <1>1, <1>2, <1>3, <1>4, <1>7, <2>1 DEF CopyInv, NoTornRead
  <1>8. /\ cgi'[p] = "high" => got'[p][1] = words'[fd'[p]][slot'[p]][1]
        /\ Len(got'[p]) = 2 => got'[p][1] = got'[p][2]
    <2>1. CASE cgi[p] = "low" /\ CgiReads(p)
      <3>1. /\ got'[p] = <<words[fd[p]][slot[p]][1]>>
            /\ UNCHANGED <<words, fd, slot>>
        BY <2>1 DEF CgiReads, CgiStep, Shm!Word
      <3>2. \A v : Len(<<v>>) = 1 /\ <<v>>[1] = v
        OBVIOUS
      <3> QED BY <3>1, <3>2
    <2>2. CASE cgi[p] = "high" /\ CgiReads(p)
      <3>1. /\ got'[p] = Append(got[p], words[fd[p]][slot[p]][2])
            /\ cgi'[p] = "post"
        BY <2>2 DEF CgiReads, CgiStep, Shm!Word
      <3>2. /\ got[p] \in Seq(Samples) /\ Len(got[p]) = 1
            /\ fd[p] \in Shms
            /\ words[fd[p]][slot[p]] \in Samples \X Samples
        BY <2>2 DEF CgiInv, Copying
      <3>3. words[fd[p]][slot[p]][2] \in Samples
        BY <3>2
      <3>4. got'[p][1] = got[p][1] /\ got'[p][2] = words[fd[p]][slot[p]][2]
        BY <3>1, <3>2, <3>3, SecondWord
      <3>5. got[p][1] = words[fd[p]][slot[p]][1]
        BY <1>4, <2>2 DEF CopyInv
      <3>6. words[fd[p]][slot[p]][1] = words[fd[p]][slot[p]][2]
        <4>1. btnPc = "high" => fd[p] # fd[D]
          BY <2>2, Exclusive DEF Copying
        <4> QED BY <1>4, <3>2, <4>1 DEF CopyInv
      <3> QED BY <3>1, <3>4, <3>5, <3>6
    <2>3. CASE CgiEnds(p)
      <3>1. got'[p] = <<>> /\ cgi'[p] = "idle" /\ Len(<<>>) = 0
        BY <2>3 DEF CgiEnds, CgiStep
      <3> QED BY <3>1
    <2>4. CASE ~CgiReads(p) /\ ~CgiEnds(p)
      <3>1. got' = got /\ cgi'[p] # "high"
        BY <2>4 DEF CgiAsks, CgiNext, CgiOpens, CgiWaits, CgiPosts, CgiSends, CgiStep
      <3> QED BY <1>4, <3>1 DEF NoTornRead
    <2> QED BY <2>1, <2>2, <2>3, <2>4 DEF CgiReads, CgiStep
  <1> QED BY <1>5, <1>6, <1>7, <1>8 DEF CopyInv, NoTornRead

\* A copy goes on only by its reader, and what is written only by the owner.
LEMMA CopyStep ==
  ASSUME HistoryInv, HistoryNext
  PROVE  CopyInv' /\ NoTornRead'
  <1>1. Next /\ abrupt \subseteq abrupt' /\ (Killed => "TERM" \in abrupt')
    BY DEF HistoryNext
  <1>2. CASE Killed
    BY <1>1, <1>2 DEF CopyInv, NoTornRead
  <1>3. CASE ~Killed /\ \E how : Gone(how)
    <2>1. btnPc \notin Copying
      BY <1>1, <1>3, GoesIdle DEF HistoryInv
    <2>2. /\ UNCHANGED cgiVars /\ fd' = [fd EXCEPT ![D] = NoObj]
          /\ Shm!ShmFrees(shmName, D) /\ btnPc' = "none"
      BY <1>3 DEF Gone, Shm!ShmReleases
    <2>3. \A p \in Cgis : fd'[p] = fd[p]
      BY <2>2, Basics DEF HistoryInv, IInv, TypeOK, Shm!ShmTypeOK
    <2> QED BY <1>1, <2>1, <2>2, <2>3, Basics, ShmFreed, CopyQuiet DEF HistoryInv, IInv, Copying
  <1>4. CASE ~\E how : Gone(how)
    <2>1. CASE Starts \/ Signal \/ MainNext
      <3>1. main' # "off" /\ (Starts \/ Interrupted \/ MainNext)
        BY <1>4, <2>1 DEF Starts, Signal, Interrupted, InterruptedEarly, Killed, MainNext,
              InitButtonSHM, InitQueue, StartsCmdThread, StartsBtnThread, Joins, Closes, Exits, MainStep
      <3> QED BY <1>1, <3>1, CopyMain
    <2>2. CASE BtnNext
      <3>1. main' = main
        BY <1>4, <2>2 DEF BtnNext, BtnTests, BtnInputs, BtnWaits, BtnWrites, BtnPosts
      <3> QED BY <1>1, <2>2, <3>1, CopyBtn
    <2>3. CASE CmdNext
      <3>1. UNCHANGED <<shmVars, btnVars, cgiVars>>
        BY <2>3 DEF CmdNext, CmdTests, CmdReceives, CmdActs
      <3> QED BY <1>1, <3>1, CopyQuiet DEF HistoryInv
    <2>4. CASE \E p \in Cgis : CgiAsks(p) \/ CgiNext(p)
      BY <1>1, <2>4, CopyCgi
    <2> QED BY <1>1, <2>1, <2>2, <2>3, <2>4 DEF Next
  <1> QED BY <1>2, <1>3, <1>4

-----------------------------------------------------------------------------
(* The cause of a crash.                                                   *)

\* The daemon goes: what it leaves depends on how.
LEMMA CauseGone ==
  ASSUME HistoryInv, HistoryNext, NEW how, Gone(how)
  PROVE  CauseInv' /\ CrashesForCause'
  <1> USE DEF HistoryInv, IInv
  <1>1. /\ abrupt \subseteq abrupt'
        /\ Killed => "TERM" \in abrupt'
        /\ InterruptedEarly => "EARLY" \in abrupt'
    BY DEF HistoryNext, Early
  <1>2. /\ main' = "off" /\ fate' = how /\ btnPc' = "none" /\ cmdPc' = "none"
        /\ UNCHANGED <<shmName, semName>>
    BY DEF Gone, Shm!ShmReleases
  <1>3. \/ Killed
        \/ InterruptedEarly
        \/ Exits
        \/ main = "joinBtn" /\ btnPc = "none" /\ how = "crashed"
        \/ btnPc = "wait" /\ sem[D] = NoObj /\ how = "crashed"
    <2>1. ASSUME Starts PROVE FALSE
      BY <1>2, <2>1 DEF Starts
    <2>2. ASSUME Interrupted PROVE FALSE
      BY <1>2, <2>2 DEF Interrupted
    <2>3. CASE MainNext
      BY <1>2, <2>3 DEF MainNext, InitButtonSHM, InitQueue, StartsCmdThread, StartsBtnThread,
            Joins, Closes, MainStep, Gone
    <2>4. ASSUME CmdNext PROVE FALSE
      BY <1>2, <2>4 DEF CmdNext, CmdTests, CmdReceives, CmdActs
    <2>5. CASE BtnNext
      BY <1>2, <2>5 DEF BtnNext, BtnTests, BtnInputs, BtnWaits, BtnWrites, BtnPosts, Gone
    <2>6. ASSUME \E p \in Cgis : CgiAsks(p) \/ CgiNext(p) PROVE FALSE
      <3>1. main = "off" /\ fate' = fate /\ running' = running
        BY <1>2, <2>6, CgiLeaves
      <3>2. PICK p \in Cgis : CgiAsks(p) \/ CgiNext(p)
        BY <2>6
      <3>3. cgi'[p] # cgi[p]
        BY <3>2 DEF TypeOK, CgiAsks, CgiNext, CgiOpens, CgiWaits, CgiReads, CgiPosts, CgiSends,
                    CgiEnds, CgiStep
      <3> QED BY <3>3 DEF Gone
    <2> QED BY <2>1, <2>2, <2>3, <2>4, <2>5, <2>6 DEF HistoryNext, Next, Signal
  <1>4. CASE Killed \/ InterruptedEarly
    <2>1. abrupt' # {} /\ (how = "killed" => "TERM" \in abrupt')
      <3>1. CASE Killed
        BY <1>1, <3>1
      <3>2. CASE InterruptedEarly
        BY <1>1, <1>2, <3>2 DEF InterruptedEarly, Gone
      <3> QED BY <1>4, <3>1, <3>2
    <2> QED BY <1>2, <2>1 DEF CauseInv, CrashesForCause
  <1>5. CASE Exits
    <2>1. how = "exit" /\ shmName = NoObj /\ semName = NoObj
      BY <1>2, <1>5 DEF Exits, Gone, StageInv
    <2> QED BY <1>2, <2>1 DEF CauseInv, CrashesForCause
  <1>6. CASE main = "joinBtn" /\ btnPc = "none" /\ how = "crashed"
    <2>1. abrupt' # {}
      BY <1>1, <1>6 DEF CauseInv
    <2> QED BY <1>2, <1>6, <2>1 DEF CauseInv, CrashesForCause
  <1>7. CASE btnPc = "wait" /\ sem[D] = NoObj /\ how = "crashed"
    <2>1. abrupt' # {}
      BY <1>1, <1>7 DEF CauseInv, ThreadInv
    <2> QED BY <1>2, <1>7, <2>1 DEF CauseInv, CrashesForCause
  <1> QED BY <1>3, <1>4, <1>5, <1>6, <1>7

\* The main thread names what it creates, and unnames it before it closes it.
LEMMA CauseMain ==
  ASSUME HistoryInv, Starts \/ Interrupted \/ MainNext, main' # "off", abrupt \subseteq abrupt',
         main = "btnThread" /\ Interrupted => "EARLY" \in abrupt'
  PROVE  CauseInv' /\ CrashesForCause'
  <1> USE Basics DEF HistoryInv, IInv, TypeOK, Shm!ShmTypeOK
  <1>1. fate' = fate \/ fate' = "exit"
    BY DEF Starts, Interrupted, MainNext, InitButtonSHM, InitQueue, StartsCmdThread, StartsBtnThread,
           Joins, Closes, Exits, MainStep, Gone
  <1>2. CASE Starts \/ StartsCmdThread \/ StartsBtnThread
    BY <1>1, <1>2 DEF Starts, StartsCmdThread, StartsBtnThread, CauseInv, CrashesForCause
  <1>3. CASE Interrupted
    BY <1>1, <1>3 DEF Interrupted, CauseInv, CrashesForCause, ThreadInv
  <1>4. CASE InitButtonSHM
    <2>1. CASE MainStep("create", "size", Shm!ShmCreates(D))
      BY <1>1, <2>1 DEF MainStep, Shm!ShmCreates, CauseInv, CrashesForCause
    <2>2. CASE MainStep("sem", "queue", Shm!SemCreates(D))
      <3>1. PICK o \in Sems : sem' = [sem EXCEPT ![D] = o]
        BY <2>2 DEF MainStep, Shm!SemCreates
      <3>2. sem'[D] # NoObj
        BY <3>1
      <3> QED BY <1>1, <2>2, <3>2 DEF MainStep, CauseInv, CrashesForCause
    <2>3. CASE \/ MainStep("create", "queue", shmName # NoObj /\ UNCHANGED shmVars)
               \/ MainStep("size", "sem", Shm!ShmSizes(D))
               \/ MainStep("sem", "queue", semName # NoObj /\ UNCHANGED shmVars)
      BY <1>1, <2>3 DEF MainStep, Shm!ShmSizes, CauseInv, CrashesForCause
    <2> QED BY <1>4, <2>1, <2>2, <2>3 DEF InitButtonSHM
  <1>5. CASE InitQueue
    BY <1>1, <1>5 DEF InitQueue, MainStep, CauseInv, CrashesForCause
  <1>6. CASE Joins \/ Closes
    BY <1>1, <1>6 DEF Joins, Closes, MainStep, Gone, Shm!ShmUnlinks, Shm!SemUnlinks, CauseInv,
                      CrashesForCause
  <1> QED BY <1>2, <1>3, <1>4, <1>5, <1>6 DEF MainNext, Exits, Gone

\* What makes a daemon crash was written down before.
LEMMA CauseStep ==
  ASSUME HistoryInv, HistoryNext
  PROVE  CauseInv' /\ CrashesForCause'
  <1>1. /\ Next /\ abrupt \subseteq abrupt'
        /\ main = "btnThread" /\ Interrupted => "EARLY" \in abrupt'
    BY DEF HistoryNext, Early
  <1>2. CASE \E how : Gone(how)
    BY <1>2, CauseGone
  <1>3. CASE ~\E how : Gone(how)
    <2>1. CASE Starts \/ Signal \/ MainNext
      <3>1. main' # "off" /\ (Starts \/ Interrupted \/ MainNext)
        BY <1>3, <2>1 DEF Starts, Signal, Interrupted, InterruptedEarly, Killed, MainNext,
              InitButtonSHM, InitQueue, StartsCmdThread, StartsBtnThread, Joins, Closes, Exits, MainStep
      <3> QED BY <1>1, <3>1, CauseMain
    <2>2. CASE BtnNext \/ CmdNext
      <3>1. UNCHANGED <<mainVars, shmName, semName, sem>> /\ (btnPc' = btnPc \/ btnPc' # "none")
        BY <1>3, <2>2 DEF CmdNext, CmdTests, CmdReceives, CmdActs, BtnNext, BtnTests, BtnInputs,
              BtnWaits, BtnWrites, BtnPosts, Shm!SemWait, Shm!SemPost, Shm!WriteWord
      <3> QED BY <1>1, <3>1 DEF HistoryInv, CauseInv, CrashesForCause
    <2>3. CASE \E p \in Cgis : CgiAsks(p) \/ CgiNext(p)
      <3>1. UNCHANGED <<mainVars, btnPc, shmName, semName>> /\ sem'[D] = sem[D]
        BY <2>3, CgiLeaves, Basics DEF HistoryInv
      <3> QED BY <1>1, <3>1 DEF HistoryInv, CauseInv, CrashesForCause
    <2> QED BY <1>1, <2>1, <2>2, <2>3 DEF Next
  <1> QED BY <1>2, <1>3

-----------------------------------------------------------------------------
(* The invariant, and the properties it implies.                           *)

\* Nothing has happened at the start.
LEMMA HistoryStart == HistoryInit => HistoryInv
  <1> SUFFICES ASSUME HistoryInit PROVE HistoryInv
    OBVIOUS
  <1> USE Basics DEF HistoryInit, Init
  <1>1. IInv
    BY InitStep
  <1>2. /\ shmName = NoObj /\ semName = NoObj
        /\ sem = [p \in Procs |-> NoObj]
        /\ words = [o \in Shms |-> Shm!Zeros]
    BY DEF Shm!ShmInit
  <1>3. AccountsInv /\ CauseInv /\ CrashesForCause
    BY <1>2 DEF AccountsInv, CauseInv, CrashesForCause
  <1>4. CopyInv /\ NoTornRead
    <2>1. \A o \in Shms, s \in Slots : words[o][s][1] = words[o][s][2]
      BY <1>2 DEF Shm!Zeros, Shm!Slots, Slots
    <2>2. \A p \in Cgis : got[p] = <<>> /\ Len(<<>>) = 0
      OBVIOUS
    <2> QED BY <2>1, <2>2 DEF CopyInv, NoTornRead
  <1> QED BY <1>1, <1>3, <1>4 DEF HistoryInv

\* The invariant with its history holds in every reachable state.
THEOREM HistoryInvariance == HistorySpec => []HistoryInv
  <1>1. ASSUME HistoryInv, [HistoryNext]_<<vars, abrupt>> PROVE HistoryInv'
    <2>1. CASE HistoryNext
      <3>1. IInv'
        BY <1>1, <2>1, InvStep DEF HistoryInv, HistoryNext
      <3> QED BY <1>1, <2>1, <3>1, AccountsStep, CopyStep, CauseStep DEF HistoryInv
    <2>2. CASE UNCHANGED <<vars, abrupt>>
      <3>1. IInv'
        BY <1>1, <2>2, InvStep DEF HistoryInv
      <3> QED BY <1>1, <2>2, <3>1 DEF HistoryInv, vars, AccountsInv, CopyInv, NoTornRead, CauseInv,
                                      CrashesForCause, Holders
    <2> QED BY <1>1, <2>1, <2>2
  <1> QED BY <1>1, HistoryStart, PTL DEF HistorySpec

\* The history only observes: what holds of Spec holds of HistorySpec.
THEOREM HistoryObserves == HistorySpec => Spec
  <1>1. HistoryInit => Init
    BY DEF HistoryInit
  <1>2. [HistoryNext]_<<vars, abrupt>> => [Next]_vars
    BY DEF HistoryNext
  <1> QED BY <1>1, <1>2, PTL DEF HistorySpec, Spec

\* The counter of a semaphore and those in its critical section add up to one, for any
\* number of readers, daemons that end, and semaphores.
THEOREM SemaphoreAddsUp == HistorySpec => []SemaphoreAccounts
  <1>1. HistoryInv => SemaphoreAccounts
    <2> SUFFICES ASSUME HistoryInv, NEW o \in Sems
                 PROVE  /\ count[o] + Cardinality(Holders(o)) <= 1
                        /\ InUse(o) /\ "TERM" \notin abrupt
                            => count[o] + Cardinality(Holders(o)) = 1
      BY DEF SemaphoreAccounts, InUse
    <2> USE DEF HistoryInv, IInv, TypeOK, Shm!ShmTypeOK
    <2>1. count[o] \in {0, 1}
      OBVIOUS
    <2>2. CASE Holders(o) = {}
      <3>1. Cardinality(Holders(o)) = 0
        BY <2>2, FS_EmptySet
      <3>2. InUse(o) /\ "TERM" \notin abrupt => count[o] = 1
        BY <2>2 DEF AccountsInv, InUse
      <3> QED BY <2>1, <3>1, <3>2
    <2>3. CASE Holders(o) # {}
      <3>1. PICK p : Holders(o) = {p}
        <4>1. PICK p : p \in Holders(o)
          BY <2>3
        <4>2. \A q \in Holders(o) : q = p
          BY <4>1 DEF SemInv
        <4>3. Holders(o) = {p}
          BY <4>1, <4>2
        <4> QED BY <4>3
      <3>2. Cardinality(Holders(o)) = 1
        BY <3>1, FS_Singleton
      <3>3. count[o] = 0
        BY <2>3 DEF SemInv
      <3> QED BY <3>2, <3>3
    <2> QED BY <2>2, <2>3
  <1> QED BY <1>1, HistoryInvariance, PTL

\* A reader gets the two words of one struct, for any number of slots and readers.
THEOREM NeverTorn == HistorySpec => []NoTornRead
  <1>1. HistoryInv => NoTornRead
    BY DEF HistoryInv
  <1> QED BY <1>1, HistoryInvariance, PTL

\* The daemon crashes only after an abrupt end.
THEOREM CrashHasCause == HistorySpec => []CrashesForCause
  <1>1. HistoryInv => CrashesForCause
    BY DEF HistoryInv
  <1> QED BY <1>1, HistoryInvariance, PTL
=============================================================================
