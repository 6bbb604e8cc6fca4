--------------------------- MODULE ExercisesProofs ---------------------------
(***************************************************************************)
(* Proofs about the exercises, for all values of their constants. There is *)
(* an invariant for each component, and lemmas that its steps keep it; the *)
(* lemma Frame says that a step of all is a step of each, or leaves its    *)
(* variables alone.                                                        *)
(***************************************************************************)
EXTENDS Exercises, FiniteSetTheorems, TLAPS

\* A step is one of a single component, in a scene of that component.
LEMMA Frame ==
  ASSUME [Next]_vars
  PROVE  /\ UNCHANGED scene
         /\ UNCHANGED alphabetVars \/ (scene = "alphabet" /\ Alphabet!Next)
         /\ UNCHANGED lamportVars \/ (scene = "lamport" /\ MasterAndClients!Next)
         /\ \/ UNCHANGED rendezVars
            \/ scene = "in order" /\ InOrder!Next
            \/ scene = "too early" /\ TooEarly!Next
         /\ UNCHANGED sequenceVars \/ (scene = "sequence" /\ Sequence!Next)
         /\ UNCHANGED dekkerVars \/ (scene = "two programs" /\ TwoPrograms!Next)
         /\ UNCHANGED demoVars \/ (scene = "demo" /\ Demo!Next)
         /\ UNCHANGED chatVars \/ (scene = "chat" /\ Chat!Next)
         /\ UNCHANGED echoVars \/ (scene = "echo" /\ Echo!Next)
         /\ \/ UNCHANGED ringVars
            \/ scene = "single" /\ Single!Next
            \/ scene = "pair" /\ Pair!Next
            \/ scene = "several" /\ Several!Next
         /\ \/ UNCHANGED baVars
            \/ scene = "once" /\ Once!Next
            \/ scene = "twice" /\ Twice!Next
  BY DEF Next, Memory, Order, Streams, vars, memoryVars, orderVars, streamVars

-----------------------------------------------------------------------------
(* lamport.c.                                                              *)

\* The types of its variables.
LamportTypes ==
    /\ laName \in 0..2 /\ laMade \in 0..2 /\ laName <= laMade
    /\ pid \in [1..2 -> [Ids -> Clients \cup {0}]]
    /\ laMine \in [Clients \cup {"master"} -> 0..2]
    /\ id \in [Clients -> Ids]
    /\ laAt \in [Clients -> {"off", "register", "loop", "killed"}]
    /\ master \in {"off", "wait", "kill", "end"}
    /\ slot \in Nat

\* A client that has written its process id still has it in the memory, unless it
\* shares its number with another, and the master's loop has not come to it, unless
\* it was late or has other memory.
Stopped(c) ==
    /\ laAt[c] \in {"register", "loop"} => laMine[c] # 0
    /\ laAt[c] = "loop" =>
        \/ \E x \in Clients \ {c} : id[x] = id[c]
        \/ /\ pid[laMine[c]][id[c]] = c
           /\ slot <= id[c] \/ c \in late \/ laMine[c] # laMine["master"]

\* The master's loop.
StopInv ==
    /\ master \in {"off", "wait"} => slot = 0
    /\ master # "off" => laMine["master"] # 0
    /\ master = "end" => slot \notin Ids
    /\ \A c \in Clients : Stopped(c)

\* The initial state.
LEMMA LamportStart == MasterAndClients!Init => LamportTypes /\ StopInv
  BY DEF MasterAndClients!Init, LamportTypes, StopInv, Stopped, MasterAndClients!Pieces,
         MasterAndClients!Nobody, MasterAndClients!Master

\* Memory that is opened.
LEMMA LamportOpens ==
  ASSUME LamportTypes, NEW p \in Clients \cup {"master"}, MasterAndClients!OpensShm(p)
  PROVE  /\ laName' \in 0..2 /\ laMade' \in 0..2 /\ laName' <= laMade'
         /\ \E x \in 1..2 : laMine' = [laMine EXCEPT ![p] = x]
  BY DEF LamportTypes, MasterAndClients!OpensShm, MasterAndClients!Pieces

\* Every step of the master or of a client.
LEMMA LamportStep ==
  ASSUME LamportTypes, StopInv, MasterAndClients!Next
  PROVE  LamportTypes' /\ StopInv'
  <1>0. \A c \in Clients : Stopped(c)
    BY DEF StopInv
  <1>1. CASE MasterAndClients!MasterStarts
    <2>1. /\ master = "off" /\ master' = "wait" /\ UNCHANGED <<pid, id, laAt, slot, late>>
          /\ laName' \in 0..2 /\ laMade' \in 0..2 /\ laName' <= laMade'
          /\ \E x \in 1..2 : laMine' = [laMine EXCEPT !["master"] = x]
      BY <1>1, LamportOpens DEF MasterAndClients!MasterStarts, MasterAndClients!Master
    <2>2. LamportTypes'
      BY <2>1 DEF LamportTypes
    <2>3. laMine'["master"] # 0
      BY <2>1 DEF LamportTypes
    <2>4. ASSUME NEW c \in Clients PROVE Stopped(c)'
      <3>1. c # "master" /\ id[c] \in Ids /\ id[c] \in Nat
        BY LamportAssumption DEF LamportTypes
      <3>2. laMine'[c] = laMine[c]
        BY <2>1, <3>1 DEF LamportTypes
      <3>3. Stopped(c) /\ slot = 0
        BY <1>0, <2>1 DEF StopInv
      <3> QED BY <2>1, <3>1, <3>2, <3>3 DEF Stopped
    <2> QED BY <2>1, <2>3, <2>4, <2>2 DEF StopInv
  <1>2. CASE MasterAndClients!MasterKills
    <2> USE <1>2 DEF MasterAndClients!MasterKills, MasterAndClients!Master
    <2>1. LamportTypes'
      BY DEF LamportTypes
    <2>2. ASSUME NEW c \in Clients PROVE Stopped(c)'
      <3>1. id[c] \in Nat /\ slot \in Nat /\ slot' = slot + 1 /\ Stopped(c)
        BY LamportAssumption DEF LamportTypes, StopInv
      <3>2. laAt'[c] = IF pid[laMine["master"]][slot] = c THEN "killed" ELSE laAt[c]
        BY DEF LamportTypes
      <3> QED BY <3>1, <3>2 DEF Stopped
    <2> QED BY <2>1, <2>2 DEF LamportTypes, StopInv
  <1>3. CASE MasterAndClients!MasterEnds
    BY <1>3 DEF MasterAndClients!MasterEnds, LamportTypes, StopInv, Stopped
  <1>4. ASSUME NEW c \in Clients, MasterAndClients!Starts(c)
        PROVE  LamportTypes' /\ StopInv'
    <2>1. /\ laAt[c] = "off" /\ laAt' = [laAt EXCEPT ![c] = "register"]
          /\ UNCHANGED <<pid, id, master, slot, late>>
          /\ laName' \in 0..2 /\ laMade' \in 0..2 /\ laName' <= laMade'
          /\ \E x \in 1..2 : laMine' = [laMine EXCEPT ![c] = x]
      BY <1>4, LamportOpens DEF MasterAndClients!Starts
    <2>2. LamportTypes'
      BY <2>1 DEF LamportTypes
    <2>3. c # "master" /\ laMine'["master"] = laMine["master"] /\ laMine'[c] # 0
      BY <2>1, LamportAssumption DEF LamportTypes
    <2>4. Stopped(c)'
      BY <2>1, <2>3 DEF LamportTypes, Stopped
    <2>5. ASSUME NEW x \in Clients, x # c PROVE Stopped(x)'
      BY <1>0, <2>1, <2>3, <2>5 DEF LamportTypes, Stopped
    <2>6. StopInv'
      BY <2>1, <2>3, <2>4, <2>5 DEF StopInv
    <2> QED BY <2>2, <2>6
  <1>5. ASSUME NEW c \in Clients, MasterAndClients!Registers(c)
        PROVE  LamportTypes' /\ StopInv'
    <2>1. /\ laAt[c] = "register" /\ laAt' = [laAt EXCEPT ![c] = "loop"]
          /\ pid' = [pid EXCEPT ![laMine[c]][id[c]] = c]
          /\ late' = (IF slot > id[c] THEN late \cup {c} ELSE late)
          /\ UNCHANGED <<laName, laMade, laMine, id, master, slot>>
      BY <1>5 DEF MasterAndClients!Registers
    <2>2. laMine[c] \in 1..2 /\ id[c] \in Ids /\ id[c] \in Nat /\ slot \in Nat
      <3>1. laMine[c] # 0
        BY <1>0, <2>1 DEF Stopped
      <3>2. laMine[c] \in 0..2 /\ id[c] \in Ids /\ slot \in Nat
        BY DEF LamportTypes
      <3>3. id[c] \in Nat
        BY <3>2, LamportAssumption
      <3> QED BY <3>1, <3>2, <3>3
    <2>3. LamportTypes'
      BY <2>1, <2>2 DEF LamportTypes
    <2>4. pid'[laMine[c]][id[c]] = c
      BY <2>1, <2>2 DEF LamportTypes
    <2>5. ASSUME NEW x \in Clients, x # c PROVE Stopped(x)'
      <3>1. laAt'[x] = laAt[x] /\ Stopped(x)
        BY <1>0, <2>1, <2>5 DEF LamportTypes
      <3>2. CASE id[x] = id[c]
        BY <2>1, <2>5, <3>1, <3>2 DEF Stopped
      <3>3. CASE id[x] # id[c] /\ laAt[x] = "loop"
        <4>1. laMine[x] \in 1..2 /\ id[x] \in Ids
          BY <3>1, <3>3 DEF LamportTypes, Stopped
        <4>2. pid'[laMine[x]][id[x]] = pid[laMine[x]][id[x]]
          BY <2>1, <2>2, <3>3, <4>1 DEF LamportTypes
        <4> QED BY <2>1, <3>1, <3>3, <4>2 DEF Stopped
      <3> QED BY <2>1, <3>1, <3>2, <3>3 DEF Stopped
    <2>6. Stopped(c)'
      BY <2>1, <2>2, <2>4 DEF LamportTypes, Stopped
    <2> QED BY <2>1, <2>3, <2>5, <2>6 DEF StopInv
  <1> QED BY <1>1, <1>2, <1>3, <1>4, <1>5 DEF MasterAndClients!Next

\* When the loop has ended, it has come to everybody.
LEMMA LamportHolds ==
  ASSUME LamportTypes, StopInv
  PROVE  MasterAndClients!MasterStopsClients
  <1> SUFFICES ASSUME NEW c \in Clients, master = "end", laAt[c] = "loop"
               PROVE  \/ c \in late \/ laMine[c] # laMine["master"]
                      \/ \E x \in Clients \ {c} : id[x] = id[c]
    BY DEF MasterAndClients!MasterStopsClients, MasterAndClients!Master
  <1>1. id[c] \in Ids /\ id[c] \in Nat /\ 0 .. id[c] \subseteq Ids /\ slot \in Nat
    BY LamportAssumption DEF LamportTypes
  <1>2. slot \notin Ids
    BY DEF StopInv
  <1>3. ~ (slot <= id[c])
    BY <1>1, <1>2
  <1> QED BY <1>3 DEF StopInv, Stopped

-----------------------------------------------------------------------------
(* shm_a.c and shm_b.c.                                                    *)

\* The types of their variables.
AlphabetTypes ==
    /\ saStore \in [0..Letters -> Int]
    /\ saAt \in [{"a", "b"} -> {"create", "size", "write", "poll", "unlink", "end",
                              "off", "open", "read", "answer"}]
    /\ index \in [{"a", "b"} -> Nat]
    /\ cntr \in [{"a", "b"} -> Nat]
    /\ seen \in BOOLEAN

\* a is at its index, and behind it nothing is written but perhaps a capital, over
\* which it writes. A b that has seen the small a has what is written for its letters,
\* and nobody else writes the first one now.
AlphabetInv ==
    /\ saAt["a"] \in {"create", "size"} => index["a"] = 0
    /\ saAt["a"] = "write" => index["a"] < Letters
    /\ index["a"] = 0 => saStore[0] # 1
    /\ \A k \in 1..Letters : saStore[k] \in {0, k + 1}
    /\ saStore[0] \in {-1, 0, 1}
    /\ DOMAIN saRead = 0 .. index["b"] - 1
    /\ index["b"] <= Letters + 1
    /\ saAt["b"] \in {"open", "poll"} => index["b"] = 0 /\ ~seen
    /\ saAt["b"] = "read" => index["b"] <= Letters
    /\ seen => /\ saAt["b"] \in {"read", "answer", "off"}
               /\ index["a"] >= 1
               /\ saStore[0] = (IF saAt["b"] = "off" THEN -1 ELSE 1)
               /\ \A k \in DOMAIN saRead : saRead[k] \in {0, k + 1}
               /\ index["b"] > 0 => saRead[0] = 1

\* The initial state.
LEMMA AlphabetStart == Alphabet!Init => AlphabetTypes /\ AlphabetInv
  <1>1. DOMAIN <<>> = 0 .. 0 - 1
    OBVIOUS
  <1>2. Letters \in Nat /\ Letters >= 1
    BY AlphabetAssumption
  <1> SUFFICES ASSUME Alphabet!Init PROVE AlphabetTypes /\ AlphabetInv
    OBVIOUS
  <1>3. AlphabetTypes
    BY <1>2 DEF Alphabet!Init, Alphabet!Blank, AlphabetTypes
  <1> QED BY <1>1, <1>2, <1>3 DEF Alphabet!Init, Alphabet!Blank, AlphabetInv

\* Every step of a or b.
LEMMA AlphabetStep ==
  ASSUME AlphabetTypes, AlphabetInv, Alphabet!Next
  PROVE  AlphabetTypes' /\ AlphabetInv'
  <1> USE AlphabetAssumption DEF AlphabetTypes, AlphabetInv, Alphabet!Goes
  <1>1. CASE Alphabet!Creates
    BY <1>1 DEF Alphabet!Creates
  <1>2. CASE Alphabet!Writes
    <2>1. AlphabetTypes'
      BY <1>2 DEF Alphabet!Writes
    <2>2. \A k \in 1..Letters : saStore'[k] \in {0, k + 1}
      BY <1>2 DEF Alphabet!Writes
    <2>3. saStore'[0] \in {-1, 0, 1} /\ (seen' => saStore'[0] = saStore[0] /\ UNCHANGED saAt["b"])
      BY <1>2 DEF Alphabet!Writes
    <2> QED BY <1>2, <2>1, <2>2, <2>3 DEF Alphabet!Writes
  <1>3. CASE Alphabet!Removes
    BY <1>3 DEF Alphabet!Removes
  <1>4. CASE Alphabet!Starts
    <2>1. DOMAIN <<>> = 0 .. 0 - 1
      OBVIOUS
    <2>2. AlphabetTypes' /\ index'["b"] = 0 /\ index'["a"] = index["a"] /\ saAt'["b"] = "open"
      BY <1>4 DEF Alphabet!Starts
    <2>3. saAt'["a"] = saAt["a"] /\ saRead' = <<>> /\ ~seen' /\ UNCHANGED saStore
      BY <1>4 DEF Alphabet!Starts
    <2> QED BY <2>1, <2>2, <2>3
  <1>5. CASE Alphabet!Opens
    BY <1>5 DEF Alphabet!Opens
  <1>6. CASE Alphabet!Reads
    <2>0. index["b"] \in 0..Letters
      BY <1>6 DEF Alphabet!Reads
    <2>1. /\ saAt["b"] = "read" /\ index["b"] \in 0..Letters
          /\ index' = [index EXCEPT !["b"] = @ + 1]
          /\ saRead' = [k \in 0..index["b"] |-> IF k = index["b"] THEN saStore[k] ELSE saRead[k]]
          /\ saAt' = [saAt EXCEPT !["b"] = IF index["b"] = Letters THEN "answer" ELSE "read"]
          /\ UNCHANGED <<saStore, seen, cntr>>
      BY <1>6, <2>0 DEF Alphabet!Reads
    <2>2. AlphabetTypes' /\ index'["b"] = index["b"] + 1 /\ index'["a"] = index["a"]
      BY <2>1
    <2>3. DOMAIN saRead' = 0 .. index'["b"] - 1
      BY <2>1, <2>2
    <2>4. seen => /\ \A k \in DOMAIN saRead' : saRead'[k] \in {0, k + 1}
                  /\ saRead'[0] = 1
      <3> SUFFICES ASSUME seen, NEW k \in 0..index["b"]
                   PROVE  saRead'[k] \in {0, k + 1} /\ saRead'[0] = 1
        BY <2>1
      <3>1. saStore[index["b"]] \in {0, index["b"] + 1}
        BY <2>1
      <3>2. k # index["b"] => saRead[k] \in {0, k + 1}
        <4>1. k # index["b"] => k \in DOMAIN saRead
          BY <2>0
        <4> QED BY <4>1
      <3>3. index["b"] = 0 => saStore[index["b"]] = 1
        BY <2>1
      <3> QED BY <2>1, <3>1, <3>2, <3>3
    <2> QED BY <2>1, <2>2, <2>3, <2>4
  <1>7. CASE Alphabet!Answers
    BY <1>7 DEF Alphabet!Answers, Alphabet!Capital
  <1>8. CASE Alphabet!Polls("a", Alphabet!Capital, PollsA, "unlink") /\ UNCHANGED seen
    BY <1>8 DEF Alphabet!Polls, Alphabet!Capital
  <1>9. CASE Alphabet!Polls("b", 1, PollsB, "read") /\ seen' = (saStore[0] = 1)
    BY <1>9 DEF Alphabet!Polls
  <1> QED BY <1>1, <1>2, <1>3, <1>4, <1>5, <1>6, <1>7, <1>8, <1>9 DEF Alphabet!Next

\* What b has seen it reads.
LEMMA AlphabetHolds ==
  ASSUME AlphabetTypes, AlphabetInv
  PROVE  Alphabet!ReadsTheAlphabet
  BY DEF AlphabetTypes, AlphabetInv, Alphabet!ReadsTheAlphabet, Alphabet!Blank, Alphabet!Capital

-----------------------------------------------------------------------------
(* The demonstration of a controller.                                      *)

\* The types of its variables.
DemoTypes ==
    /\ held \subseteq Demo!Controls /\ reported \subseteq Demo!Controls
    /\ buttons \subseteq Demo!Controls
    /\ demoStep \in Nat /\ demoStep >= 1 /\ presses \in Nat

\* Presses of BACK that have ended a step, or are about to.
Counted == (demoStep - 1) + (IF to_quit THEN 1 ELSE 0)

\* One that is not reported yet, and one that is and has not been acted on; it cannot
\* be both.
Unreported == IF "BACK" \in held \ reported THEN 1 ELSE 0
Unseen == IF "BACK" \in reported /\ ~to_quit THEN 1 ELSE 0

\* Where no time-out was taken for a report, each press counts once.
DemoInv ==
    /\ demoAt \in {"open", "claim", "clear", "input", "act"} => ~to_quit
    /\ demoAt = "stop" => demoStep = 2
    /\ ~misled => buttons = reported /\ Counted + Unreported + Unseen <= presses
    /\ ~failed /\ (demoStep # 2 \/ demoAt = "release") => ~rumble

\* The initial state.
LEMMA DemoStart == Demo!Init => DemoTypes /\ DemoInv
  <1> SUFFICES ASSUME Demo!Init PROVE DemoTypes /\ DemoInv
    OBVIOUS
  <1>1. Counted = 0 /\ Unreported = 0 /\ Unseen = 0
    BY DEF Demo!Init, Counted, Unreported, Unseen
  <1> QED BY <1>1 DEF Demo!Init, DemoTypes, DemoInv

\* A report, or a time-out that is taken for one.
LEMMA DemoReport ==
  ASSUME DemoTypes, Demo!GetsInput
  PROVE  /\ buttons' \subseteq Demo!Controls /\ reported' \subseteq Demo!Controls
         /\ misled => misled'
         /\ ~misled' => buttons' = held /\ reported' = held
  BY DEF DemoTypes, Demo!GetsInput

\* Every step of the program or its user.
LEMMA DemoStepKeeps ==
  ASSUME DemoTypes, DemoInv, Demo!Next
  PROVE  DemoTypes' /\ DemoInv'
  <1> USE DEF DemoTypes, DemoInv
  <1>1. CASE Demo!Moves
    <2>1. PICK b \in Demo!Controls :
            \/ /\ b \notin held /\ held' = held \cup {b}
               /\ presses' = (IF b = "BACK" THEN presses + 1 ELSE presses)
            \/ b \in held /\ held' = held \ {b} /\ UNCHANGED presses
      BY <1>1 DEF Demo!Moves
    <2>2. UNCHANGED <<reported, rumble, buttons, demoStep, demoAt, to_quit, misled, failed>>
      BY <1>1 DEF Demo!Moves
    <2> QED BY <2>1, <2>2 DEF Counted, Unreported, Unseen
  <1>2. CASE Demo!Opens
    BY <1>2 DEF Demo!Opens, Demo!userVars, Counted, Unreported, Unseen
  <1>3. CASE Demo!Clears
    BY <1>3 DEF Demo!Clears, Demo!Sends, Demo!userVars, Counted, Unreported, Unseen
  <1>4. CASE Demo!Closes
    BY <1>4 DEF Demo!Closes, Demo!userVars, Counted, Unreported, Unseen
  <1>5. CASE Demo!Inputs
    BY <1>5, DemoReport DEF Demo!Inputs, Demo!userVars, Counted, Unreported, Unseen
  <1>6. CASE Demo!Acts
    <2>1. /\ demoAt = "act" /\ ~to_quit /\ (to_quit' <=> "BACK" \in buttons)
          /\ demoAt' = IF demoStep = 2 /\ to_quit' THEN "stop"
                       ELSE IF to_quit' \/ demoStep = 3 THEN "release" ELSE "input"
          /\ UNCHANGED <<held, presses, reported, buttons, demoStep, misled>>
      BY <1>6 DEF Demo!Acts, Demo!userVars
    <2>2. demoStep # 2 => UNCHANGED rumble /\ (failed => failed')
      BY <1>6, Zenon DEF Demo!Acts, Demo!Sends
    <2> QED BY <2>1, <2>2 DEF Counted, Unreported, Unseen
  <1>7. CASE Demo!Stops
    <2>1. /\ demoAt = "stop" /\ demoAt' = "release"
          /\ UNCHANGED <<held, presses, reported, buttons, demoStep, to_quit, misled>>
      BY <1>7 DEF Demo!Stops, Demo!userVars
    <2>2. ~failed' => ~rumble'
      BY <1>7, Zenon DEF Demo!Stops, Demo!Sends
    <2> QED BY <2>1, <2>2 DEF Counted, Unreported, Unseen
  <1>8. CASE Demo!Releases
    BY <1>8, DemoReport DEF Demo!Releases, Demo!userVars, Counted, Unreported, Unseen
  <1> QED BY <1>1, <1>2, <1>3, <1>4, <1>5, <1>6, <1>7, <1>8 DEF Demo!Next

\* A press of BACK ends one step of the demonstration at most, and the rumble does not
\* go on behind its step, however often the user presses.
THEOREM PressesCountOnce == Spec => []OnePressOneStep
  <1>1. Init => DemoTypes /\ DemoInv
    BY DemoStart DEF Init
  <1>2. DemoTypes /\ DemoInv /\ [Next]_vars => (DemoTypes /\ DemoInv)'
    <2> SUFFICES ASSUME DemoTypes, DemoInv, [Next]_vars PROVE (DemoTypes /\ DemoInv)'
      OBVIOUS
    <2>1. CASE UNCHANGED demoVars
      BY <2>1 DEF demoVars, DemoTypes, DemoInv, Counted, Unreported, Unseen
    <2> QED BY <2>1, Frame, DemoStepKeeps
  <1>3. DemoTypes /\ DemoInv => OnePressOneStep
    BY DEF DemoTypes, DemoInv, Counted, Unreported, Unseen, OnePressOneStep,
           Demo!OnePressOneStep, Demo!QuietAfterwards
  <1> QED BY <1>1, <1>2, <1>3, PTL DEF Spec

-----------------------------------------------------------------------------
\* What two processes share without a lock arrives, for any number of letters, polls
\* and clients: b reads the alphabet that it has seen begin, and the master of
\* lamport.c stops everybody who came in time, with a number of its own.
THEOREM SharedMemoryIsRead == Spec => []SharedMemoryArrives
  <1> DEFINE I == LamportTypes /\ StopInv /\ AlphabetTypes /\ AlphabetInv
  <1>1. Init => I
    BY LamportStart, AlphabetStart DEF Init
  <1>2. I /\ [Next]_vars => I'
    <2> SUFFICES ASSUME I, [Next]_vars PROVE I'
      OBVIOUS
    <2>1. LamportTypes' /\ StopInv'
      <3>1. CASE UNCHANGED lamportVars
        BY <3>1 DEF lamportVars, LamportTypes, StopInv, Stopped
      <3> QED BY <3>1, Frame, LamportStep
    <2>2. AlphabetTypes' /\ AlphabetInv'
      <3>1. CASE UNCHANGED alphabetVars
        BY <3>1 DEF alphabetVars, AlphabetTypes, AlphabetInv
      <3> QED BY <3>1, Frame, AlphabetStep
    <2> QED BY <2>1, <2>2
  <1>3. I => SharedMemoryArrives
    BY LamportHolds, AlphabetHolds DEF SharedMemoryArrives
  <1> QED BY <1>1, <1>2, <1>3, PTL DEF Spec

-----------------------------------------------------------------------------
(* semseq.c.                                                               *)

\* The types of its variables.
SequenceTypes ==
    /\ sqSem \in [0..3 -> 0..1]
    /\ sqAt \in [0..3 -> {"off", "wait", "print", "post", "crashed"}]
    /\ half \in [0..3 -> 1..2]
    /\ sqLast \in 0..8

\* It is the turn of process h to print the r-th of its numbers: those before it have
\* printed theirs, the others have not, and it has the semaphore, or had, and the
\* others have none. A process that has crashed may keep its semaphore.
TurnOf(h, r) ==
    /\ half = [p \in 0..3 |-> IF p < h THEN 3 - r ELSE r]
    /\ \A p \in (0..3) \ {h} : sqSem[p] = 0 /\ sqAt[p] \notin {"print", "post"}
    /\ sqAt[h] \in {"print", "post"} => sqSem[h] = 0
    /\ sqAt[h] \in {"off", "wait", "print"} => (sqLast % 8) + 1 = Sequence!Prints(h, r)
    /\ sqAt[h] = "post" => sqLast = Sequence!Prints(h, r)

SequenceInv == \E h \in 0..3, r \in 1..2 : TurnOf(h, r)

\* The initial state.
LEMMA SequenceStart == Sequence!Init => SequenceTypes /\ SequenceInv
  <1> SUFFICES ASSUME Sequence!Init PROVE SequenceTypes /\ SequenceInv
    OBVIOUS
  <1>1. SequenceTypes
    BY DEF Sequence!Init, Sequence!Procs, SequenceTypes
  <1>2. TurnOf(0, 1)
    BY DEF Sequence!Init, Sequence!Procs, Sequence!Prints, TurnOf
  <1> QED BY <1>1, <1>2 DEF SequenceInv

\* The next of a process, and what follows the number it prints.
LEMMA NextInRing ==
  /\ \A p \in 0..3 : Sequence!After(p) = IF p = 3 THEN 0 ELSE p + 1
  /\ \A p \in 0..3, r \in 1..2 :
        (Sequence!Prints(p, r) % 8) + 1 =
            IF p = 3 THEN Sequence!Prints(0, 3 - r) ELSE Sequence!Prints(p + 1, r)
  BY DEF Sequence!After, Sequence!Prints

\* Every step of a process in the ring prints the next number or none.
LEMMA SequenceStep ==
  ASSUME SequenceTypes, SequenceInv, Sequence!Next
  PROVE  SequenceTypes' /\ SequenceInv' /\ (sqLast' = sqLast \/ sqLast' = (sqLast % 8) + 1)
  <1>1. PICK h \in 0..3, r \in 1..2 : TurnOf(h, r)
    BY DEF SequenceInv
  <1>2. PICK p \in 0..3 : Sequence!Starts(p) \/ Sequence!Runs(p)
    BY DEF Sequence!Next, Sequence!Procs
  <1> USE DEF SequenceTypes, Sequence!Goes, TurnOf
  <1>3. CASE Sequence!Starts(p) \/ Sequence!Crashes(p)
    <2>1. SequenceTypes' /\ TurnOf(h, r)' /\ sqLast' = sqLast
      BY <1>1, <1>3 DEF Sequence!Starts, Sequence!Crashes
    <2> QED BY <2>1 DEF SequenceInv
  <1>4. CASE Sequence!Waits(p)
    <2>1. p = h
      BY <1>1, <1>4 DEF Sequence!Waits
    <2>2. SequenceTypes' /\ TurnOf(h, r)' /\ sqLast' = sqLast
      BY <1>1, <1>4, <2>1 DEF Sequence!Waits
    <2> QED BY <2>2 DEF SequenceInv
  <1>5. CASE Sequence!Outputs(p)
    <2>1. p = h /\ half[h] = r
      BY <1>1, <1>5 DEF Sequence!Outputs
    <2>2. sqLast' = Sequence!Prints(h, r) /\ sqLast' \in 0..8 /\ sqLast' = (sqLast % 8) + 1
      BY <1>1, <1>5, <2>1 DEF Sequence!Outputs, Sequence!Prints
    <2>3. SequenceTypes' /\ TurnOf(h, r)'
      BY <1>1, <1>5, <2>1, <2>2 DEF Sequence!Outputs
    <2> QED BY <2>2, <2>3 DEF SequenceInv
  <1>6. CASE Sequence!Posts(p)
    <2>1. p = h
      BY <1>1, <1>6 DEF Sequence!Posts
    <2> DEFINE q == IF h = 3 THEN 0 ELSE h + 1
               s == IF h = 3 THEN 3 - r ELSE r
    <2>2. /\ q \in 0..3 /\ q # h /\ s \in 1..2
          /\ sqAt[h] = "post" /\ sqAt' = [sqAt EXCEPT ![h] = "wait"]
          /\ sqSem' = [sqSem EXCEPT ![q] = @ + 1]
          /\ half' = [half EXCEPT ![h] = 3 - @] /\ sqLast' = sqLast
      <3>1. Sequence!After(h) = q
        BY NextInRing
      <3>2. q \in 0..3 /\ q # h /\ s \in 1..2
        OBVIOUS
      <3> QED BY <1>6, <2>1, <3>1, <3>2 DEF Sequence!Posts
    <2>3. sqSem[q] = 0 /\ SequenceTypes'
      BY <1>1, <2>2
    <2>4. half' = [x \in 0..3 |-> IF x < q THEN 3 - s ELSE s]
      <3> HIDE DEF TurnOf
      <3>1. half' = [x \in 0..3 |-> IF x = h THEN 3 - half[h] ELSE half[x]]
        BY <2>2
      <3>2. \A x \in 0..3 : half[x] = IF x < h THEN 3 - r ELSE r
        BY <1>1 DEF TurnOf
      <3>3. \A x \in 0..3 : half'[x] = IF x < q THEN 3 - s ELSE s
        BY <3>1, <3>2
      <3> QED BY <3>1, <3>3
    <2>5. (sqLast' % 8) + 1 = Sequence!Prints(q, s)
      BY <1>1, <2>2, NextInRing
    <2>6. TurnOf(q, s)'
      BY <1>1, <2>2, <2>3, <2>4, <2>5
    <2> QED BY <2>2, <2>3, <2>6 DEF SequenceInv
  <1> QED BY <1>2, <1>3, <1>4, <1>5, <1>6 DEF Sequence!Runs

-----------------------------------------------------------------------------
(* dekker_p0.c and dekker_p1.c.                                            *)

\* The types of their variables.
DekkerTypes ==
    /\ sized \subseteq 1..MaxRuns
    /\ turn \in [1..MaxRuns -> 0..1]
    /\ mine \in [0..1 -> 0..MaxRuns]
    /\ dkAt \in [0..1 -> {"off", "open", "size", "clear", "map", "wait", "print", "set", "close"}]
    /\ round \in [0..1 -> 0..3]
    /\ runs \in [0..1 -> 0..MaxRuns]
    /\ last \in 0..6

\* Program 0 makes a new piece of memory each time it is started, and the name stands
\* for it as long as it runs; nobody has it before.
PieceInv ==
    /\ name = IF dkAt[0] \in {"off", "open"} THEN 0 ELSE mine[0]
    /\ dkAt[0] # "off" => runs[0] >= 1
    /\ dkAt[0] \notin {"off", "open"} => mine[0] = runs[0]
    /\ dkAt[0] \in {"open", "size", "clear"} => round[0] = 0
    /\ sized \subseteq 1..runs[0] /\ mine[1] <= runs[0]
    /\ dkAt[0] = "open" => runs[0] \notin sized /\ mine[1] < runs[0]
    /\ dkAt[0] = "size" => mine[0] \notin sized
    /\ dkAt[1] \in {"wait", "print", "set"} => mine[1] \in sized
    /\ dkAt[1] \in {"open", "map"} => round[1] = 0
    /\ dkAt[1] = "map" => mine[1] >= 1
    /\ dkAt[1] \notin {"size", "clear", "close"}

\* Program 1 plays with program 0, and has printed so often.
Plays(k) == mine[1] = mine[0] /\ round[1] = k

\* Program 1 has come in time for round k: it waits for its turn. In the first round
\* it need not.
Follows(k) ==
    IF k \in 1..2 THEN dkAt[1] = "wait" /\ Plays(k)
    ELSE k = 0 /\ dkAt[1] = "wait" /\ mine[1] = mine[0] => round[1] = 0

\* Only the byte of the piece in use is ever 1, while program 0 waits; then program 1
\* may print. The numbers go with the rounds.
HandOver ==
    LET k == round[0] IN
    /\ \A x \in 1..MaxRuns : turn[x] = 1 => x = mine[0] /\ dkAt[0] = "wait"
    /\ dkAt[1] \in {"print", "set"} =>
            dkAt[0] = "wait" /\ mine[1] = mine[0] /\ turn[mine[0]] = 1
    /\ dkAt[0] \in {"off", "open", "size", "clear", "close"} => last \in {0, 6}
    /\ dkAt[0] = "clear" => Follows(0)
    /\ dkAt[0] = "print" => k < 3
    /\ dkAt[0] = "print" \/ (dkAt[0] = "wait" /\ turn[mine[0]] = 0) =>
            /\ last = 2 * k \/ (k = 0 /\ last = 6)
            /\ Follows(k)
    /\ dkAt[0] = "set" => k >= 1 /\ last = 2 * k - 1 /\ Follows(k - 1)
    /\ dkAt[0] = "wait" /\ turn[mine[0]] = 1 =>
            /\ k >= 1
            /\ IF dkAt[1] = "set" THEN Plays(k) /\ last = 2 * k
               ELSE /\ last = 2 * k - 1
                    /\ dkAt[1] \in {"wait", "print"} /\ mine[1] = mine[0] => round[1] = k - 1
                    /\ k > 1 => dkAt[1] \in {"wait", "print"} /\ Plays(k - 1)

DekkerInv == PieceInv /\ HandOver

\* The initial state.
LEMMA DekkerStart == TwoPrograms!Init => DekkerTypes /\ DekkerInv
  <1> SUFFICES ASSUME TwoPrograms!Init PROVE DekkerTypes /\ DekkerInv
    OBVIOUS
  <1> USE DekkerAssumption DEF TwoPrograms!Init, TwoPrograms!Pieces
  <1>1. DekkerTypes
    BY DEF DekkerTypes
  <1>2. PieceInv
    BY DEF PieceInv
  <1>3. HandOver
    BY DEF HandOver
  <1> QED BY <1>1, <1>2, <1>3 DEF DekkerInv

\* A value of a function that is replaced by one of the same type.
LEMMA ExceptType ==
  ASSUME NEW S, NEW T, NEW f \in [S -> T], NEW x, NEW v \in T
  PROVE  [f EXCEPT ![x] = v] \in [S -> T]
  OBVIOUS

\* The types stay.
LEMMA DekkerTypesStay ==
  ASSUME DekkerTypes, DekkerInv, TwoPrograms!Next
  PROVE  DekkerTypes'
  <1> USE DekkerAssumption DEF DekkerTypes, TwoPrograms!Goes
  <1>1. PICK p \in 0..1 : TwoPrograms!Starts(p) \/ TwoPrograms!Steps(p)
    BY DEF TwoPrograms!Next
  <1>2. CASE TwoPrograms!Starts(p)
    BY <1>2 DEF TwoPrograms!Starts
  <1>3. CASE p = 0 /\ TwoPrograms!Creates
    <2>1. mine[0] \in 0..MaxRuns /\ runs[0] \in 0..MaxRuns
      OBVIOUS
    <2>2. dkAt[0] = "size" => mine[0] \in 1..MaxRuns
      BY DEF DekkerInv, PieceInv
    <2>3. CASE dkAt[0] = "open"
      BY <1>3, <2>1, <2>3 DEF TwoPrograms!Creates
    <2>4. CASE dkAt[0] = "size"
      BY <1>3, <2>1, <2>2, <2>4 DEF TwoPrograms!Creates
    <2>5. CASE dkAt[0] = "clear"
      <3>1. /\ dkAt' = [dkAt EXCEPT ![0] = "wait"] /\ turn' = [turn EXCEPT ![mine[0]] = 0]
            /\ UNCHANGED <<name, mine, sized, round, runs, last>>
        BY <1>3, <2>5 DEF TwoPrograms!Creates
      <3>2. turn' \in [1..MaxRuns -> 0..1]
        <4>1. 0 \in 0..1 /\ turn \in [1..MaxRuns -> 0..1]
          OBVIOUS
        <4> QED BY <3>1, <4>1, ExceptType, Zenon
      <3> QED BY <3>1, <3>2
    <2> QED BY <1>3, <2>3, <2>4, <2>5 DEF TwoPrograms!Creates
  <1>4. CASE p = 0 /\ TwoPrograms!Closes
    BY <1>4 DEF TwoPrograms!Closes
  <1>5. CASE p = 1 /\ TwoPrograms!Opens
    BY <1>5 DEF TwoPrograms!Opens, DekkerInv, PieceInv
  <1>6. CASE TwoPrograms!Waits(p)
    BY <1>6 DEF TwoPrograms!Waits
  <1>7. CASE TwoPrograms!Outputs(p)
    <2>1. round[0] \in 0..3 /\ round[1] \in 0..3
      OBVIOUS
    <2>2. dkAt[p] = "print" /\ dkAt' = [dkAt EXCEPT ![p] = "set"]
      BY <1>7 DEF TwoPrograms!Outputs
    <2>3. round[p] < 3
      BY <2>1, <2>2 DEF DekkerInv, HandOver, Plays
    <2>4. /\ round' = [round EXCEPT ![p] = @ + 1] /\ last' = 2 * round[p] + p + 1
          /\ UNCHANGED <<sized, turn, mine, runs>>
      BY <1>7 DEF TwoPrograms!Outputs
    <2>5. last' \in 0..6 /\ round[p] + 1 \in 0..3
      BY <2>1, <2>3, <2>4
    <2> QED BY <2>2, <2>4, <2>5
  <1>8. CASE TwoPrograms!Sets(p)
    <2>1. /\ dkAt' = [dkAt EXCEPT ![p] = IF p = 1 /\ round[p] = 3 THEN "off" ELSE "wait"]
          /\ turn' = [turn EXCEPT ![mine[p]] = 1 - p]
          /\ UNCHANGED <<name, sized, mine, round, runs, last>>
      BY <1>8 DEF TwoPrograms!Sets
    <2>2. turn' \in [1..MaxRuns -> 0..1]
      <3>1. 1 - p \in 0..1 /\ turn \in [1..MaxRuns -> 0..1]
        OBVIOUS
      <3> QED BY <2>1, <3>1, ExceptType, Zenon
    <2> QED BY <2>1, <2>2
  <1> QED BY <1>1, <1>2, <1>3, <1>4, <1>5, <1>6, <1>7, <1>8 DEF TwoPrograms!Steps

\* Every step of a program prints the next number or none.
LEMMA DekkerStep ==
  ASSUME DekkerTypes, DekkerInv, TwoPrograms!Next
  PROVE  DekkerTypes' /\ DekkerInv' /\ (last' = last \/ last' = (last % 6) + 1)
  <1>0. DekkerTypes'
    BY DekkerTypesStay
  <1>1. PICK p \in 0..1 : TwoPrograms!Starts(p) \/ TwoPrograms!Steps(p)
    BY DEF TwoPrograms!Next
  <1> USE <1>0, DekkerAssumption
      DEF DekkerTypes, DekkerInv, TwoPrograms!Goes, PieceInv, HandOver, Follows, Plays
  <1>2. CASE TwoPrograms!Starts(p)
    <2>1. CASE p = 0
      BY <1>2, <2>1 DEF TwoPrograms!Starts
    <2>2. CASE p = 1
      BY <1>2, <2>2 DEF TwoPrograms!Starts
    <2> QED BY <2>1, <2>2
  <1>3. CASE p = 0 /\ TwoPrograms!Creates
    <2>1. CASE dkAt[0] = "open"
      BY <1>3, <2>1 DEF TwoPrograms!Creates
    <2>2. CASE dkAt[0] = "size"
      BY <1>3, <2>2 DEF TwoPrograms!Creates
    <2>3. CASE dkAt[0] = "clear"
      <3>1. /\ dkAt' = [dkAt EXCEPT ![0] = "wait"] /\ turn' = [turn EXCEPT ![mine[0]] = 0]
            /\ UNCHANGED <<name, mine, sized, round, runs, last>>
        BY <1>3, <2>3 DEF TwoPrograms!Creates
      <3>2. mine[0] \in 1..MaxRuns
        BY <2>3
      <3>3. \A x \in 1..MaxRuns : turn'[x] = 0
        BY <2>3, <3>1, <3>2
      <3>4. PieceInv'
        BY <2>3, <3>1
      <3>5. HandOver'
        BY <2>3, <3>1, <3>2, <3>3
      <3> QED BY <3>1, <3>4, <3>5
    <2> QED BY <1>3, <2>1, <2>2, <2>3 DEF TwoPrograms!Creates
  <1>4. CASE p = 0 /\ TwoPrograms!Closes
    BY <1>4 DEF TwoPrograms!Closes
  <1>5. CASE p = 1 /\ TwoPrograms!Opens
    BY <1>5 DEF TwoPrograms!Opens
  <1>6. CASE TwoPrograms!Waits(p)
    BY <1>6 DEF TwoPrograms!Waits
  <1>7. CASE TwoPrograms!Outputs(p)
    <2>1. CASE p = 0
      <3>1. /\ dkAt[0] = "print" /\ dkAt' = [dkAt EXCEPT ![0] = "set"]
            /\ round' = [round EXCEPT ![0] = @ + 1] /\ last' = 2 * round[0] + 1
            /\ UNCHANGED <<name, sized, turn, mine, runs>>
        BY <1>7, <2>1 DEF TwoPrograms!Outputs
      <3>2. PieceInv'
        BY <3>1
      <3>3. HandOver'
        BY <3>1
      <3>4. last' = (last % 6) + 1
        <4>1. round[0] \in 0..2 /\ (last = 2 * round[0] \/ (round[0] = 0 /\ last = 6))
          BY <3>1
        <4>2. last' = 2 * round[0] + 1 /\ last % 6 = 2 * round[0]
          <5>1. last' = 2 * round[0] + 1
            BY <3>1
          <5>2. last \in 0..6 /\ (round[0] = 0 \/ round[0] = 1 \/ round[0] = 2)
            BY <4>1
          <5> HIDE DEF DekkerTypes, DekkerInv, PieceInv, HandOver
          <5> QED BY <4>1, <5>1, <5>2
        <4> QED BY <4>2
      <3> QED BY <3>2, <3>3, <3>4
    <2>2. CASE p = 1
      <3>1. /\ dkAt[1] = "print" /\ dkAt' = [dkAt EXCEPT ![1] = "set"]
            /\ round' = [round EXCEPT ![1] = @ + 1] /\ last' = 2 * round[1] + 2
            /\ UNCHANGED <<name, sized, turn, mine, runs>>
        BY <1>7, <2>2 DEF TwoPrograms!Outputs
      <3>2. PieceInv'
        BY <3>1
      <3>3. HandOver'
        BY <3>1
      <3>4. last' = (last % 6) + 1
        <4>1. round[1] \in 0..2 /\ last = 2 * round[1] + 1
          BY <3>1
        <4>2. last' = 2 * round[1] + 2
          BY <3>1
        <4> HIDE DEF DekkerTypes, DekkerInv, PieceInv, HandOver
        <4>3. round[1] = 0 \/ round[1] = 1 \/ round[1] = 2
          BY <4>1
        <4> QED BY <4>1, <4>2, <4>3
      <3> QED BY <3>2, <3>3, <3>4
    <2> QED BY <2>1, <2>2
  <1>8. CASE TwoPrograms!Sets(p)
    <2>1. CASE p = 0
      BY <1>8, <2>1 DEF TwoPrograms!Sets
    <2>2. CASE p = 1
      <3>1. /\ dkAt[1] = "set"
            /\ dkAt' = [dkAt EXCEPT ![1] = IF round[1] = 3 THEN "off" ELSE "wait"]
            /\ turn' = [turn EXCEPT ![mine[1]] = 0]
            /\ UNCHANGED <<name, sized, mine, round, runs, last>>
        BY <1>8, <2>2 DEF TwoPrograms!Sets
      <3>2. mine[1] = mine[0] /\ mine[0] \in 1..MaxRuns /\ dkAt[0] = "wait" /\ turn[mine[0]] = 1
        BY <3>1
      <3>3. \A x \in 1..MaxRuns : turn'[x] = 0
        BY <3>1, <3>2
      <3>4. PieceInv'
        BY <3>1, <3>2
      <3>5. HandOver'
        BY <3>1, <3>2, <3>3
      <3> QED BY <3>1, <3>4, <3>5
    <2> QED BY <2>1, <2>2
  <1> QED BY <1>1, <1>2, <1>3, <1>4, <1>5, <1>6, <1>7, <1>8 DEF TwoPrograms!Steps

-----------------------------------------------------------------------------
\* Processes in a ring of semaphores, also a broken one, and two programs with a byte
\* of memory, however often they are started, print their numbers in order.
THEOREM NumbersInOrder == Spec => TakeTurns
  <1> DEFINE I == SequenceTypes /\ SequenceInv /\ DekkerTypes /\ DekkerInv
  <1>1. Init => I /\ sqLast = 0 /\ last = 0
    BY SequenceStart, DekkerStart DEF Init, Sequence!Init, TwoPrograms!Init
  <1>2. I /\ [Next]_vars => I' /\ [sqLast' = (sqLast % 8) + 1]_sqLast
            /\ [last' = (last % 6) + 1]_last
    <2> SUFFICES ASSUME I, [Next]_vars
                 PROVE  I' /\ [sqLast' = (sqLast % 8) + 1]_sqLast /\ [last' = (last % 6) + 1]_last
      OBVIOUS
    <2>1. SequenceTypes' /\ SequenceInv' /\ [sqLast' = (sqLast % 8) + 1]_sqLast
      <3>1. CASE UNCHANGED sequenceVars
        BY <3>1 DEF sequenceVars, SequenceTypes, SequenceInv, TurnOf, Sequence!Prints
      <3> QED BY <3>1, Frame, SequenceStep
    <2>2. DekkerTypes' /\ DekkerInv' /\ [last' = (last % 6) + 1]_last
      <3>1. CASE UNCHANGED dekkerVars
        BY <3>1 DEF dekkerVars, DekkerTypes, DekkerInv, PieceInv, HandOver, Follows, Plays
      <3> QED BY <3>1, Frame, DekkerStep
    <2> QED BY <2>1, <2>2
  <1> QED BY <1>1, <1>2, PTL DEF Spec, TakeTurns, Sequence!ImplementsTurns, Sequence!Ring!TurnsSpec,
                           TwoPrograms!ImplementsTurns, TwoPrograms!TwoInTurn!TurnsSpec

-----------------------------------------------------------------------------
(* rendez.c.                                                               *)

\* The names, all of them, and who has written its bit, and perhaps crashed since.
Names == {"flags", "sync", "flagstore", "sized"}
Told == {"leave", "check", "through", "passed", "done", "crashed"}

\* The types of its variables.
MeetTypes ==
    /\ rvNames \subseteq Names
    /\ semFlags \in 0..1 /\ semSync \in 0..2
    /\ store \subseteq 0..3
    /\ flags \in [0..3 -> SUBSET (0..3)]
    /\ rvAt \in [0..3 -> {"off", "init", "wait", "read", "write", "through", "passed"} \cup Told]
    /\ rvStep \in [0..3 -> 1..5]
    /\ rvHas \in [0..3 -> SUBSET (Names \cup {"zero"})]

\* How far a process is with the names.
Steps ==
    \A p \in 0..3 :
        /\ rvAt[p] = "init" /\ p # 0 => rvStep[p] <= 4
        /\ rvAt[p] = "passed" => rvStep[p] <= 3
        /\ rvAt[p] \notin {"init", "passed", "done", "crashed"} => rvStep[p] = 1

\* One process at a time has the semaphore of the flags, or crashed with it; what is
\* written then holds everything that was there.
InTurns ==
    /\ \A p \in 0..3 : rvAt[p] \in {"read", "write", "leave"} => semFlags = 0
    /\ \A p, q \in 0..3 :
        rvAt[p] \in {"read", "write", "leave"} /\ rvAt[q] \in {"read", "write", "leave"} => p = q
    /\ \A p \in 0..3 : rvAt[p] = "write" => store \subseteq flags[p]

\* A bit is seen after it has been written, by those who read later; so of two
\* processes only one has seen the other's.
Seen ==
    /\ \A p \in store : rvAt[p] \in Told /\ p \in flags[p]
    /\ \A p, q \in 0..3 : p # q /\ p \in flags[q] =>
        rvAt[p] \in Told /\ p \in flags[p] /\ q \notin flags[p]
    /\ \A p \in 0..3 : rvAt[p] \in {"off", "init", "wait", "read"} => flags[p] = {}
    /\ \A p \in 0..3 : rvAt[p] \in {"write"} \cup (Told \ {"crashed"}) => p \in flags[p]

\* Who has seen all bits opens the semaphore sync: once for the first who comes, and
\* once more as everybody does who gets through.
Going(p) == IF rvAt[p] = "through" THEN 1 ELSE 0
Last(p) == flags[p] = 0..3 /\ rvAt[p] \in {"through", "passed", "done"}
Opened ==
    IF \E p \in 0..3 : Last(p)
    THEN semSync + Going(0) + Going(1) + Going(2) + Going(3) = 2
    ELSE semSync = 0 /\ \A p \in 0..3 : rvAt[p] \notin {"through", "passed", "done"}

MeetInv == Steps /\ InTurns /\ Seen /\ Opened

\* When the others wait for process 0, each finds all names and nobody crashes.
OrderInv ==
    /\ \A p \in 1..3 : rvAt[p] # "off" => rvAt[0] \notin {"off", "init"}
    /\ rvAt[0] = "init" => \A k \in 1..4 : k < rvStep[0] =>
            InOrder!Creation[k] \in rvNames /\ InOrder!Creation[k] \in rvHas[0]
    /\ rvAt[0] \notin {"off", "init"} /\ (\A p \in 0..3 : rvAt[p] \notin {"passed", "done"}) =>
            Names \subseteq rvNames
    /\ \A p \in 0..3 : rvAt[p] \notin {"off", "init"} => Names \subseteq rvHas[p]
    /\ \A p \in 1..3 : rvAt[p] = "init" => \A k \in 1..4 : k < rvStep[p] =>
            InOrder!Opening[k] \in rvHas[p]
    /\ \A p \in 0..3 : rvAt[p] # "crashed"

\* A process is started.
Begins(p) ==
    /\ rvAt[p] = "off" /\ rvAt' = [rvAt EXCEPT ![p] = "init"]
    /\ UNCHANGED <<rvNames, semFlags, semSync, store, flags, rvStep, rvHas>>

\* The two scenes differ in who may be started when.
LEMMA MeetActions ==
  /\ InOrder!Next \/ TooEarly!Next =>
        InOrder!Creates \/ \E p \in 0..3 : Begins(p) \/ InOrder!Runs(p)
  /\ InOrder!Next =>
        InOrder!Creates \/ \E p \in 0..3 : InOrder!Starts(p) \/ InOrder!Runs(p)
  <1>1. TooEarly!Creates => InOrder!Creates
    BY DEF TooEarly!Creates, InOrder!Creates, TooEarly!Goes, InOrder!Goes,
           TooEarly!Creation, InOrder!Creation
  <1>2. \A p \in 0..3 : TooEarly!Starts(p) \/ InOrder!Starts(p) => Begins(p)
    BY DEF TooEarly!Starts, InOrder!Starts, TooEarly!Goes, InOrder!Goes, Begins
  <1>3. \A p \in 0..3 : TooEarly!Runs(p) => InOrder!Runs(p)
    <2>1. \A p \in 0..3 : TooEarly!Opens(p) => InOrder!Opens(p)
      BY DEF TooEarly!Opens, InOrder!Opens, TooEarly!Goes, InOrder!Goes,
             TooEarly!Opening, InOrder!Opening
    <2>2. \A p \in 0..3 :
            /\ TooEarly!Crashes(p) => InOrder!Crashes(p)
            /\ TooEarly!Enters(p) => InOrder!Enters(p)
            /\ TooEarly!WritesFlags(p) => InOrder!WritesFlags(p)
            /\ TooEarly!Leaves(p) => InOrder!Leaves(p)
            /\ TooEarly!LetsIn(p) => InOrder!LetsIn(p)
      BY DEF TooEarly!Goes, InOrder!Goes,
             TooEarly!Crashes, InOrder!Crashes, TooEarly!Enters, InOrder!Enters,
             TooEarly!WritesFlags, InOrder!WritesFlags, TooEarly!Leaves, InOrder!Leaves,
             TooEarly!LetsIn, InOrder!LetsIn
    <2>3. \A p \in 0..3 :
            /\ TooEarly!ReadsFlags(p) => InOrder!ReadsFlags(p)
            /\ TooEarly!Checks(p) => InOrder!Checks(p)
      BY DEF TooEarly!Goes, InOrder!Goes, TooEarly!Mask, InOrder!Mask, TooEarly!Full, InOrder!Full,
             TooEarly!ReadsFlags, InOrder!ReadsFlags, TooEarly!Checks, InOrder!Checks
    <2>4. \A p \in 0..3 : TooEarly!Removes(p) => InOrder!Removes(p)
      BY DEF TooEarly!Goes, InOrder!Goes, TooEarly!Removes, InOrder!Removes,
             TooEarly!Removal, InOrder!Removal
    <2> QED BY <2>1, <2>2, <2>3, <2>4 DEF TooEarly!Runs, InOrder!Runs
  <1> QED BY <1>1, <1>2, <1>3 DEF InOrder!Next, TooEarly!Next

\* The initial state.
LEMMA MeetStart == InOrder!Init => MeetTypes /\ MeetInv /\ OrderInv
  <1> SUFFICES ASSUME InOrder!Init PROVE MeetTypes /\ MeetInv /\ OrderInv
    OBVIOUS
  <1> USE DEF InOrder!Init
  <1>1. MeetTypes /\ Steps
    BY DEF MeetTypes, Steps, Names
  <1>2. InTurns /\ Seen
    BY DEF InTurns, Seen, Told
  <1>3. Opened
    BY DEF Opened, Last, Going
  <1>4. OrderInv
    BY DEF OrderInv
  <1> QED BY <1>1, <1>2, <1>3, <1>4 DEF MeetInv

\* The names that process 0 makes and the others open, one after the other.
LEMMA NamesInOrder ==
  /\ \A k \in 1..5 : InOrder!Creation[k] \in Names \cup {"zero"}
  /\ \A k \in 1..5 : InOrder!Creation[k] = "zero" <=> k = 5
  /\ \A k \in 1..4 : InOrder!Opening[k] \in Names
  /\ {InOrder!Creation[k] : k \in 1..4} = Names
  /\ \A x \in Names : \E k \in 1..4 : InOrder!Opening[k] = x
  /\ Len(InOrder!Opening) = 4 /\ Len(InOrder!Removal) = 3
  <1> USE DEF InOrder!Creation, InOrder!Opening, InOrder!Removal, Names
  <1>1. /\ InOrder!Creation[1] = "flags" /\ InOrder!Creation[2] = "sync"
        /\ InOrder!Creation[3] = "flagstore" /\ InOrder!Creation[4] = "sized"
        /\ InOrder!Creation[5] = "zero"
    OBVIOUS
  <1>2. /\ InOrder!Opening[1] = "sync" /\ InOrder!Opening[2] = "flags"
        /\ InOrder!Opening[3] = "flagstore" /\ InOrder!Opening[4] = "sized"
    OBVIOUS
  <1>3. Len(InOrder!Opening) = 4 /\ Len(InOrder!Removal) = 3
    OBVIOUS
  <1> HIDE DEF InOrder!Creation, InOrder!Opening, InOrder!Removal
  <1>4. 1 \in 1..4 /\ 2 \in 1..4 /\ 3 \in 1..4 /\ 4 \in 1..4
    OBVIOUS
  <1>5. \A k \in 1..5 : k = 1 \/ k = 2 \/ k = 3 \/ k = 4 \/ k = 5
    OBVIOUS
  <1>6. \A k \in 1..4 : k = 1 \/ k = 2 \/ k = 3 \/ k = 4
    OBVIOUS
  <1>7. {InOrder!Creation[k] : k \in 1..4} = Names
    <2>1. \A k \in 1..4 : InOrder!Creation[k] \in Names
      BY <1>1, <1>6
    <2>2. \A x \in Names : \E k \in 1..4 : InOrder!Creation[k] = x
      BY <1>1, <1>4
    <2> QED BY <2>1, <2>2
  <1> QED BY <1>1, <1>2, <1>3, <1>4, <1>5, <1>6, <1>7

\* The types stay, and processes keep count of the names.
LEMMA MeetTypesStay ==
  ASSUME MeetTypes, MeetInv,
         InOrder!Creates \/ \E p \in 0..3 : Begins(p) \/ InOrder!Runs(p)
  PROVE  MeetTypes' /\ Steps'
  <1> USE DEF MeetTypes, MeetInv, Steps, Told, InOrder!Goes
  <1>1. CASE InOrder!Creates
    <2>1. /\ rvAt[0] = "init" /\ rvStep[0] \in 1..5
          /\ rvAt' = [rvAt EXCEPT ![0] = IF rvStep[0] = 5 THEN "wait" ELSE "init"]
          /\ rvStep' = [rvStep EXCEPT ![0] = IF rvStep[0] = 5 THEN 1 ELSE @ + 1]
          /\ rvNames' = (rvNames \cup {InOrder!Creation[rvStep[0]]}) \ {"zero"}
          /\ rvHas' = [rvHas EXCEPT ![0] = @ \cup {InOrder!Creation[rvStep[0]]}]
          /\ store' = IF rvStep[0] = 5 THEN flags[0] ELSE store
          /\ UNCHANGED <<semFlags, semSync, flags>>
      <3>1. rvStep[0] \in 1..5 /\ (InOrder!Creation[rvStep[0]] = "zero" <=> rvStep[0] = 5)
        BY NamesInOrder
      <3> QED BY <1>1, <3>1 DEF InOrder!Creates
    <2>2. rvNames' \subseteq Names /\ rvHas' \in [0..3 -> SUBSET (Names \cup {"zero"})]
      BY <2>1, NamesInOrder
    <2>3. store' \subseteq 0..3 /\ rvStep' \in [0..3 -> 1..5]
      <3> DEFINE v == IF rvStep[0] = 5 THEN 1 ELSE rvStep[0] + 1
      <3>1. flags[0] \subseteq 0..3 /\ store \subseteq 0..3 /\ rvStep \in [0..3 -> 1..5]
        OBVIOUS
      <3>2. v \in 1..5
        BY <2>1
      <3>3. rvStep' = [rvStep EXCEPT ![0] = v]
        BY <2>1
      <3> HIDE DEF v, MeetTypes, MeetInv
      <3>4. store' \subseteq 0..3
        BY <2>1, <3>1
      <3> QED BY <3>1, <3>2, <3>3, <3>4
    <2>4. \A p \in 1..3 : rvAt'[p] = rvAt[p] /\ rvStep'[p] = rvStep[p]
      BY <2>1
    <2>5. /\ rvAt'[0] = IF rvStep[0] = 5 THEN "wait" ELSE "init"
          /\ rvStep'[0] = IF rvStep[0] = 5 THEN 1 ELSE rvStep[0] + 1
      BY <2>1
    <2>6. Steps'
      BY <2>4, <2>5
    <2>7. rvAt' \in [0..3 ->
              {"off", "init", "wait", "read", "write", "through", "passed"} \cup Told]
      BY <2>1
    <2> QED BY <2>1, <2>2, <2>3, <2>6, <2>7
  <1>2. ASSUME NEW p \in 0..3, Begins(p) PROVE MeetTypes' /\ Steps'
    BY <1>2 DEF Begins
  <1>3. ASSUME NEW p \in 0..3, InOrder!Opens(p) PROVE MeetTypes' /\ Steps'
    <2>1. /\ p # 0 /\ rvAt[p] = "init" /\ rvStep[p] \in 1..4
          /\ rvAt' = [rvAt EXCEPT ![p] = IF rvStep[p] = 4 THEN "wait" ELSE "init"]
          /\ rvStep' = [rvStep EXCEPT ![p] = IF rvStep[p] = 4 THEN 1 ELSE @ + 1]
          /\ rvHas' = [rvHas EXCEPT ![p] = @ \cup ({InOrder!Opening[rvStep[p]]} \cap rvNames)]
          /\ UNCHANGED <<rvNames, semFlags, semSync, store, flags>>
      BY <1>3, NamesInOrder DEF InOrder!Opens
    <2>2. rvHas' \in [0..3 -> SUBSET (Names \cup {"zero"})]
      BY <2>1, NamesInOrder
    <2> QED BY <2>1, <2>2
  <1>4. ASSUME NEW p \in 0..3, InOrder!Crashes(p) PROVE MeetTypes' /\ Steps'
    BY <1>4 DEF InOrder!Crashes
  <1>5. ASSUME NEW p \in 0..3, InOrder!Enters(p) PROVE MeetTypes' /\ Steps'
    BY <1>5 DEF InOrder!Enters
  <1>6. ASSUME NEW p \in 0..3, InOrder!ReadsFlags(p) PROVE MeetTypes' /\ Steps'
    <2>1. flags' = [flags EXCEPT ![p] = store \cup {p}]
      BY <1>6 DEF InOrder!ReadsFlags, InOrder!Mask
    <2>2. flags' \in [0..3 -> SUBSET (0..3)]
      BY <2>1
    <2> QED BY <1>6, <2>2 DEF InOrder!ReadsFlags
  <1>7. ASSUME NEW p \in 0..3, InOrder!WritesFlags(p) PROVE MeetTypes' /\ Steps'
    BY <1>7 DEF InOrder!WritesFlags
  <1>8. ASSUME NEW p \in 0..3, InOrder!Leaves(p) PROVE MeetTypes' /\ Steps'
    BY <1>8 DEF InOrder!Leaves, InTurns
  <1>9. ASSUME NEW p \in 0..3, InOrder!Checks(p) PROVE MeetTypes' /\ Steps'
    <2>1. /\ rvAt[p] = "check" /\ rvAt' = [rvAt EXCEPT ![p] = "through"]
          /\ \/ flags[p] = 0..3 /\ semSync' = semSync + 1
             \/ semSync > 0 /\ semSync' = semSync - 1
          /\ UNCHANGED <<rvNames, semFlags, store, flags, rvStep, rvHas>>
      BY <1>9 DEF InOrder!Checks, InOrder!Full
    <2>2. flags[p] = 0..3 => semSync = 0
      <3>1. ASSUME NEW q \in 0..3, Last(q), flags[p] = 0..3 PROVE FALSE
        BY <2>1, <3>1 DEF Last, Seen
      <3> QED BY <3>1 DEF Opened
    <2> QED BY <2>1, <2>2
  <1>10. ASSUME NEW p \in 0..3, InOrder!LetsIn(p) PROVE MeetTypes' /\ Steps'
    <2>1. /\ rvAt[p] = "through" /\ rvAt' = [rvAt EXCEPT ![p] = "passed"]
          /\ semSync' = semSync + 1
          /\ UNCHANGED <<rvNames, semFlags, store, flags, rvStep, rvHas>>
      BY <1>10 DEF InOrder!LetsIn
    <2>2. semSync \in 0..1
      BY <2>1 DEF Opened, Going
    <2> QED BY <2>1, <2>2
  <1>11. ASSUME NEW p \in 0..3, InOrder!Removes(p) PROVE MeetTypes' /\ Steps'
    <2>1. /\ rvAt[p] = "passed" /\ rvStep[p] \in 1..3
          /\ rvAt' = [rvAt EXCEPT ![p] = IF rvStep[p] = 3 THEN "done" ELSE "passed"]
          /\ rvStep' = [rvStep EXCEPT ![p] = @ + 1]
          /\ rvNames' \subseteq rvNames
          /\ UNCHANGED <<semFlags, semSync, store, flags, rvHas>>
      BY <1>11, NamesInOrder DEF InOrder!Removes
    <2> QED BY <2>1
  <1> QED BY <1>1, <1>2, <1>3, <1>4, <1>5, <1>6, <1>7, <1>8, <1>9, <1>10, <1>11 DEF InOrder!Runs

\* One at a time still has the flags, bits are seen after they were written, and the
\* semaphore sync is open for two at most.
LEMMA MeetStep ==
  ASSUME MeetTypes, MeetInv,
         InOrder!Creates \/ \E p \in 0..3 : Begins(p) \/ InOrder!Runs(p)
  PROVE  MeetTypes' /\ MeetInv'
  <1>0. MeetTypes' /\ Steps'
    BY MeetTypesStay
  <1> DEFINE Goal == InTurns' /\ Seen' /\ Opened'
  <1> USE DEF MeetTypes, MeetInv, Told, InOrder!Goes
  <1>1. ASSUME InOrder!Creates PROVE Goal
    <2>1. /\ rvAt[0] = "init"
                 /\ (rvAt' = [rvAt EXCEPT ![0] = "init"] \/ rvAt' = [rvAt EXCEPT ![0] = "wait"])
          /\ store' = flags[0] \/ store' = store
          /\ UNCHANGED <<semFlags, semSync, flags>>
      BY <1>1 DEF InOrder!Creates
    <2>2. store' \subseteq store
      BY <2>1 DEF Seen
    <2>3. InTurns'
      BY <2>1, <2>2 DEF InTurns
    <2>4. Seen'
      BY <2>1, <2>2 DEF Seen
    <2>5. Opened'
      BY <2>1 DEF Opened, Last, Going
    <2> QED BY <2>3, <2>4, <2>5
  <1>2. ASSUME NEW p \in 0..3, Begins(p) PROVE Goal
    <2> USE <1>2 DEF Begins
    <2>1. InTurns'
      BY DEF InTurns
    <2>2. Seen'
      BY DEF Seen
    <2>3. Opened'
      BY DEF Opened, Last, Going
    <2> QED BY <2>1, <2>2, <2>3
  <1>3. ASSUME NEW p \in 0..3, InOrder!Opens(p) PROVE Goal
    <2>1. /\ rvAt[p] = "init"
                 /\ (rvAt' = [rvAt EXCEPT ![p] = "init"] \/ rvAt' = [rvAt EXCEPT ![p] = "wait"])
          /\ UNCHANGED <<semFlags, semSync, store, flags>>
      BY <1>3 DEF InOrder!Opens
    <2>2. InTurns'
      BY <2>1 DEF InTurns
    <2>3. Seen'
      BY <2>1 DEF Seen
    <2>4. Opened'
      BY <2>1 DEF Opened, Last, Going
    <2> QED BY <2>2, <2>3, <2>4
  <1>4. ASSUME NEW p \in 0..3, InOrder!Crashes(p) PROVE Goal
    <2>1. /\ rvAt[p] \in {"wait", "read", "check"} /\ rvAt' = [rvAt EXCEPT ![p] = "crashed"]
          /\ UNCHANGED <<semFlags, semSync, store, flags>>
      BY <1>4 DEF InOrder!Crashes
    <2>2. InTurns'
      BY <2>1 DEF InTurns
    <2>3. Seen'
      BY <2>1 DEF Seen
    <2>4. Opened'
      BY <2>1 DEF Opened, Last, Going
    <2> QED BY <2>2, <2>3, <2>4
  <1>5. ASSUME NEW p \in 0..3, InOrder!Enters(p) PROVE Goal
    <2>1. /\ rvAt[p] = "wait" /\ rvAt' = [rvAt EXCEPT ![p] = "read"]
          /\ semFlags = 1 /\ semFlags' = 0
          /\ UNCHANGED <<semSync, store, flags>>
      BY <1>5 DEF InOrder!Enters
    <2>2. InTurns'
      BY <2>1 DEF InTurns
    <2>3. Seen'
      BY <2>1 DEF Seen
    <2>4. Opened'
      BY <2>1 DEF Opened, Last, Going
    <2> QED BY <2>2, <2>3, <2>4
  <1>6. ASSUME NEW p \in 0..3, InOrder!ReadsFlags(p) PROVE Goal
    <2>1. /\ rvAt[p] = "read" /\ rvAt' = [rvAt EXCEPT ![p] = "write"]
          /\ flags' = [flags EXCEPT ![p] = store \cup {p}]
          /\ UNCHANGED <<semFlags, semSync, store>>
      BY <1>6 DEF InOrder!ReadsFlags, InOrder!Mask
    <2>2. InTurns'
      BY <2>1 DEF InTurns
    <2>3. p \notin store /\ \A q \in 0..3 : q # p => p \notin flags[q]
      BY <2>1 DEF Seen
    <2>4. Seen'
      <3>1. flags'[p] = store \cup {p} /\ \A q \in 0..3 : q # p => flags'[q] = flags[q]
                /\ rvAt'[q] = rvAt[q]
        BY <2>1
      <3>2. rvAt'[p] = "write"
        BY <2>1
      <3> QED BY <2>1, <2>3, <3>1, <3>2 DEF Seen
    <2>5. Opened'
      BY <2>1 DEF Opened, Last, Going
    <2> QED BY <2>2, <2>4, <2>5
  <1>7. ASSUME NEW p \in 0..3, InOrder!WritesFlags(p) PROVE Goal
    <2>1. /\ rvAt[p] = "write" /\ rvAt' = [rvAt EXCEPT ![p] = "leave"]
          /\ store' = flags[p]
          /\ UNCHANGED <<semFlags, semSync, flags>>
      BY <1>7 DEF InOrder!WritesFlags
    <2>2. InTurns'
      BY <2>1 DEF InTurns
    <2>3. Seen'
      BY <2>1 DEF Seen
    <2>4. Opened'
      BY <2>1 DEF Opened, Last, Going
    <2> QED BY <2>2, <2>3, <2>4
  <1>8. ASSUME NEW p \in 0..3, InOrder!Leaves(p) PROVE Goal
    <2>1. /\ rvAt[p] = "leave" /\ rvAt' = [rvAt EXCEPT ![p] = "check"]
          /\ semFlags' = semFlags + 1
          /\ UNCHANGED <<semSync, store, flags>>
      BY <1>8 DEF InOrder!Leaves
    <2>2. InTurns'
      BY <2>1 DEF InTurns
    <2>3. Seen'
      BY <2>1 DEF Seen
    <2>4. Opened'
      BY <2>1 DEF Opened, Last, Going
    <2> QED BY <2>2, <2>3, <2>4
  <1>9. ASSUME NEW p \in 0..3, InOrder!Checks(p) PROVE Goal
    <2>1. /\ rvAt[p] = "check" /\ rvAt' = [rvAt EXCEPT ![p] = "through"]
          /\ \/ flags[p] = 0..3 /\ semSync' = semSync + 1
             \/ flags[p] # 0..3 /\ semSync > 0 /\ semSync' = semSync - 1
          /\ UNCHANGED <<semFlags, store, flags>>
      BY <1>9 DEF InOrder!Checks, InOrder!Full
    <2>2. InTurns'
      BY <2>1 DEF InTurns
    <2>3. Seen'
      BY <2>1 DEF Seen
    <2>4. CASE flags[p] = 0..3
      <3>1. ~ Last(p) /\ \A q \in 0..3 : ~ Last(q)
        BY <2>1, <2>4 DEF Last, Seen
      <3>2. Last(p)'
        BY <2>1, <2>4 DEF Last
      <3>3. Going(0)' + Going(1)' + Going(2)' + Going(3)' = 1
        BY <2>1, <3>1 DEF Going, Opened
      <3>4. semSync = 0 /\ semSync' = 1
        BY <2>1, <2>4, <3>1 DEF Opened
      <3>5. semSync' + Going(0)' + Going(1)' + Going(2)' + Going(3)' = 2
        <4>1. \A x \in 0..3 : Going(x)' \in Nat
          BY DEF Going
        <4> QED BY <3>3, <3>4, <4>1
      <3> QED BY <2>2, <2>3, <3>2, <3>5 DEF Opened
    <2>5. CASE flags[p] # 0..3
      <3>1. PICK q \in 0..3 : Last(q)
        BY <2>1, <2>5 DEF Opened
      <3>2. Last(q)'
        BY <2>1, <3>1 DEF Last
      <3>3. Going(0)' + Going(1)' + Going(2)' + Going(3)'
                = Going(0) + Going(1) + Going(2) + Going(3) + 1
        BY <2>1 DEF Going
      <3>4. semSync + Going(0) + Going(1) + Going(2) + Going(3) = 2
        BY <3>1 DEF Opened
      <3>5. semSync' + Going(0)' + Going(1)' + Going(2)' + Going(3)' = 2
        <4>1. \A x \in 0..3 : Going(x) \in Nat /\ Going(x)' \in Nat
          BY DEF Going
        <4>2. semSync \in Nat /\ semSync' = semSync - 1
          BY <2>1, <2>5
        <4> QED BY <3>3, <3>4, <4>1, <4>2
      <3> QED BY <2>2, <2>3, <3>2, <3>5 DEF Opened
    <2> QED BY <2>4, <2>5
  <1>10. ASSUME NEW p \in 0..3, InOrder!LetsIn(p) PROVE Goal
    <2>1. /\ rvAt[p] = "through" /\ rvAt' = [rvAt EXCEPT ![p] = "passed"]
          /\ semSync' = semSync + 1
          /\ UNCHANGED <<semFlags, store, flags>>
      BY <1>10 DEF InOrder!LetsIn
    <2>2. InTurns'
      BY <2>1 DEF InTurns
    <2>3. Seen'
      BY <2>1 DEF Seen
    <2>4. PICK q \in 0..3 : Last(q)
      BY <2>1 DEF Opened
    <2>5. Last(q)'
      BY <2>1, <2>4 DEF Last
    <2>6. Going(0)' + Going(1)' + Going(2)' + Going(3)' + 1
              = Going(0) + Going(1) + Going(2) + Going(3)
      BY <2>1 DEF Going
    <2> QED BY <2>1, <2>2, <2>3, <2>4, <2>5, <2>6 DEF Opened, Going
  <1>11. ASSUME NEW p \in 0..3, InOrder!Removes(p) PROVE Goal
    <2>1. /\ rvAt[p] = "passed"
          /\ rvAt' = [rvAt EXCEPT ![p] = "passed"] \/ rvAt' = [rvAt EXCEPT ![p] = "done"]
          /\ UNCHANGED <<semFlags, semSync, store, flags>>
      BY <1>11 DEF InOrder!Removes
    <2>2. InTurns'
      BY <2>1 DEF InTurns
    <2>3. Seen'
      BY <2>1 DEF Seen
    <2>4. Opened'
      BY <2>1 DEF Opened, Last, Going
    <2> QED BY <2>2, <2>3, <2>4
  <1>12. Goal
    <2> HIDE DEF Goal, MeetTypes, MeetInv
    <2> QED BY <1>1, <1>2, <1>3, <1>4, <1>5, <1>6, <1>7, <1>8, <1>9, <1>10, <1>11
            DEF InOrder!Runs
  <1> QED BY <1>0, <1>12

\* Who is through has seen all bits, or was let in by somebody who has; so everybody
\* has written its own.
LEMMA AllTold ==
  ASSUME MeetTypes, MeetInv, NEW p \in 0..3, rvAt[p] \in {"through", "passed", "done"}
  PROVE  \A q \in 0..3 : rvAt[q] \in Told /\ q \in flags[q]
  <1>1. PICK x \in 0..3 : Last(x)
    BY DEF MeetInv, Opened
  <1> QED BY <1>1 DEF MeetInv, Last, Seen, Told

\* A step with the names, when the others wait for process 0.
LEMMA OrderOfNames ==
  ASSUME MeetTypes, MeetInv, OrderInv,
         InOrder!Creates \/ \E p \in 0..3 : InOrder!Starts(p) \/ InOrder!Opens(p)
  PROVE  OrderInv' /\ store' = store
  <1> USE DEF MeetTypes, MeetInv, InOrder!Goes
  <1>1. ASSUME InOrder!Creates PROVE OrderInv' /\ store' = store
    <2>1. /\ rvAt[0] = "init" /\ rvStep[0] \in 1..5
          /\ (InOrder!Creation[rvStep[0]] = "zero" <=> rvStep[0] = 5)
          /\ \A p \in 1..3 : rvAt[p] = "off"
      BY <1>1, NamesInOrder DEF InOrder!Creates, OrderInv
    <2>2. /\ rvAt' = [rvAt EXCEPT ![0] = IF rvStep[0] = 5 THEN "wait" ELSE "init"]
          /\ rvStep' = [rvStep EXCEPT ![0] = IF rvStep[0] = 5 THEN 1 ELSE @ + 1]
          /\ rvNames' = (rvNames \cup {InOrder!Creation[rvStep[0]]}) \ {"zero"}
          /\ rvHas' = [rvHas EXCEPT ![0] = @ \cup {InOrder!Creation[rvStep[0]]}]
          /\ store' = (IF rvStep[0] = 5 THEN flags[0] ELSE store)
      BY <1>1, <2>1 DEF InOrder!Creates
    <2>3. flags[0] = {} /\ store = {}
      BY <2>1 DEF Seen, Told
    <2>4. \A p \in 1..3 : rvAt'[p] = "off"
      BY <2>1, <2>2
    <2>5. \A k \in 1..4 : k <= rvStep[0] =>
            InOrder!Creation[k] \in rvNames' /\ InOrder!Creation[k] \in rvHas'[0]
      BY <2>1, <2>2, NamesInOrder DEF OrderInv
    <2>6. rvStep[0] # 5 => rvAt'[0] = "init" /\ rvStep'[0] = rvStep[0] + 1
      BY <2>1, <2>2
    <2>7. rvStep[0] = 5 => rvAt'[0] = "wait"
      BY <2>1, <2>2
    <2>8. rvStep[0] = 5 => Names \subseteq rvNames' /\ Names \subseteq rvHas'[0]
      BY <2>5, NamesInOrder
    <2>9. rvStep[0] = 5 \/ rvStep[0] \in 1..4
      BY <2>1
    <2>10. OrderInv'
      BY <2>4, <2>5, <2>6, <2>7, <2>8, <2>9 DEF OrderInv
    <2> QED BY <2>2, <2>3, <2>10
  <1>2. ASSUME NEW p \in 0..3, InOrder!Starts(p) PROVE OrderInv' /\ store' = store
    <2>1. /\ rvAt[p] = "off" /\ rvAt' = [rvAt EXCEPT ![p] = "init"] /\ rvStep[p] = 1
          /\ p # 0 => rvAt[0] \notin {"off", "init"}
          /\ UNCHANGED <<rvNames, store, rvStep, rvHas>>
      BY <1>2 DEF InOrder!Starts, Steps
    <2>2. p = 0 => \A q \in 1..3 : rvAt[q] = "off"
      BY <2>1 DEF OrderInv
    <2> QED BY <2>1, <2>2 DEF OrderInv
  <1>3. ASSUME NEW p \in 0..3, InOrder!Opens(p) PROVE OrderInv' /\ store' = store
    <2>1. /\ p # 0 /\ rvAt[p] = "init" /\ rvStep[p] \in 1..4
          /\ rvAt' = [rvAt EXCEPT ![p] = IF rvStep[p] = 4 THEN "wait" ELSE "init"]
          /\ rvStep' = [rvStep EXCEPT ![p] = IF rvStep[p] = 4 THEN 1 ELSE @ + 1]
          /\ rvHas' = [rvHas EXCEPT ![p] = @ \cup ({InOrder!Opening[rvStep[p]]} \cap rvNames)]
          /\ UNCHANGED <<rvNames, store>>
      BY <1>3, NamesInOrder DEF InOrder!Opens, Steps
    <2>2. \A q \in 0..3 : rvAt[q] \notin {"through", "passed", "done"}
      BY <2>1, AllTold DEF Told
    <2>3. Names \subseteq rvNames
      BY <2>1, <2>2 DEF OrderInv
    <2>4. \A k \in 1..4 : k <= rvStep[p] => InOrder!Opening[k] \in rvHas'[p]
      BY <2>1, <2>3, NamesInOrder DEF OrderInv
    <2>5. rvStep[p] # 4 => rvAt'[p] = "init" /\ rvStep'[p] = rvStep[p] + 1
      BY <2>1
    <2>6. rvStep[p] = 4 => rvAt'[p] = "wait" /\ Names \subseteq rvHas'[p]
      BY <2>1, <2>4, NamesInOrder
    <2>7. \A q \in 0..3 : q # p => UNCHANGED <<rvAt[q], rvStep[q], rvHas[q]>>
      BY <2>1
    <2>8. OrderInv'
      BY <2>1, <2>3, <2>4, <2>5, <2>6, <2>7 DEF OrderInv
    <2> QED BY <2>1, <2>8
  <1> QED BY <1>1, <1>2, <1>3

\* A step behind that: nobody crashes, who writes arrives, and who lets the next one in
\* passes.
LEMMA OrderOfMeeting ==
  ASSUME MeetTypes, MeetInv, OrderInv, NEW p \in 0..3, InOrder!Runs(p), ~ InOrder!Opens(p)
  PROVE  /\ OrderInv' /\ store \subseteq store'
         /\ rvAt[p] \notin {"off", "init", "crashed", "done"}
         /\ \E x \in {"read", "write", "leave", "check", "through", "passed", "done"} :
                /\ rvAt' = [rvAt EXCEPT ![p] = x]
                /\ x = "leave" <=> rvAt[p] = "write"
                /\ x \in {"read", "write"} <=> rvAt[p] \in {"wait", "read"}
                /\ x \in {"passed", "done"} <=> rvAt[p] \in {"through", "passed"}
  <1> USE DEF MeetTypes, MeetInv, InOrder!Goes
  <1>1. ~ InOrder!Crashes(p)
    BY DEF InOrder!Crashes, OrderInv, Names
  <1>2. PICK x \in {"read", "write", "leave", "check", "through", "passed", "done"} :
            /\ rvAt' = [rvAt EXCEPT ![p] = x]
            /\ rvAt[p] \in {"wait", "read", "write", "leave", "check", "through", "passed"}
            /\ x = "leave" <=> rvAt[p] = "write"
            /\ x \in {"read", "write"} <=> rvAt[p] \in {"wait", "read"}
            /\ x \in {"passed", "done"} <=> rvAt[p] \in {"through", "passed"}
    BY <1>1 DEF InOrder!Runs, InOrder!Enters, InOrder!ReadsFlags, InOrder!WritesFlags,
           InOrder!Leaves,
                InOrder!Checks, InOrder!LetsIn, InOrder!Removes
  <1>3. rvHas' = rvHas /\ store \subseteq store'
    BY <1>1 DEF InOrder!Runs, InOrder!Enters, InOrder!ReadsFlags, InOrder!WritesFlags,
           InOrder!Leaves,
                InOrder!Checks, InOrder!LetsIn, InOrder!Removes, InTurns
  <1>4. x \notin {"passed", "done"} => rvNames' = rvNames
    BY <1>1, <1>2 DEF InOrder!Runs, InOrder!Enters, InOrder!ReadsFlags, InOrder!WritesFlags,
                InOrder!Leaves, InOrder!Checks, InOrder!LetsIn, InOrder!Removes
  <1>5. rvStep'[0] = rvStep[0] \/ p = 0
    BY <1>1 DEF InOrder!Runs, InOrder!Enters, InOrder!ReadsFlags, InOrder!WritesFlags,
                InOrder!Leaves, InOrder!Checks, InOrder!LetsIn, InOrder!Removes
  <1>6. \A q \in 1..3 : q # p => rvStep'[q] = rvStep[q]
    BY <1>1 DEF InOrder!Runs, InOrder!Enters, InOrder!ReadsFlags, InOrder!WritesFlags,
                InOrder!Leaves, InOrder!Checks, InOrder!LetsIn, InOrder!Removes
  <1>7. \A q \in 0..3 : rvAt'[q] \in {"off", "init"} => q # p /\ rvAt[q] = rvAt'[q]
    BY <1>2
  <1>8. \A q \in 0..3 : rvAt[q] \in {"off", "init"} => q # p /\ rvAt[q] = rvAt'[q]
    BY <1>2
  <1>9. rvAt[0] # "init"
    <2>1. CASE p = 0
      BY <1>2, <2>1
    <2>2. CASE p # 0
      BY <1>2, <2>2 DEF OrderInv
    <2> QED BY <2>1, <2>2
  <1>10. (\A q \in 0..3 : rvAt'[q] \notin {"passed", "done"}) =>
            UNCHANGED rvNames /\ \A q \in 0..3 : rvAt[q] \notin {"passed", "done"}
    BY <1>2, <1>4
  <1>11. OrderInv'
    <2>1. \A q \in 0..3 : rvAt'[q] # "crashed"
      BY <1>2 DEF OrderInv
    <2>2. \A q \in 1..3 : rvAt'[q] = "init" => rvStep'[q] = rvStep[q]
      BY <1>6, <1>7
    <2> QED BY <1>3, <1>7, <1>8, <1>9, <1>10, <2>1, <2>2 DEF OrderInv
  <1> QED BY <1>2, <1>3, <1>11

\* A step is one of the barrier's, or none.
LEMMA MeetingStep ==
  ASSUME MeetTypes, MeetInv, OrderInv, InOrder!Next
  PROVE  /\ OrderInv' /\ store \subseteq store'
         /\ [InOrder!Meeting!BarrierNext]_(InOrder!Meeting!barrierVars)
  <1> DEFINE A == {q \in 0..3 : rvAt[q] \in {"leave", "check", "through", "passed", "done"}}
             B == {q \in 0..3 : rvAt[q] \in {"passed", "done"}}
             Moves == \/ \E p \in 0..3 : p \notin A /\ A' = A \cup {p} /\ B' = B
                      \/ \E p \in 0..3 : A = 0..3 /\ p \notin B /\ B' = B \cup {p} /\ A' = A
                      \/ A' = A /\ B' = B
  <1>1. ASSUME InOrder!Creates \/ \E p \in 0..3 : InOrder!Starts(p) \/ InOrder!Opens(p)
        PROVE  OrderInv' /\ store \subseteq store' /\ Moves
    <2>1. PICK p \in 0..3 : /\ rvAt[p] \in {"off", "init"}
                            /\ rvAt' = [rvAt EXCEPT ![p] = "init"]
                                   \/ rvAt' = [rvAt EXCEPT ![p] = "wait"]
      BY <1>1 DEF InOrder!Creates, InOrder!Starts, InOrder!Opens, InOrder!Goes
    <2>2. A' = A /\ B' = B
      BY <2>1 DEF MeetTypes
    <2> QED BY <1>1, <2>2, OrderOfNames
  <1>2. ASSUME NEW p \in 0..3, InOrder!Runs(p), ~ InOrder!Opens(p)
        PROVE  OrderInv' /\ store \subseteq store' /\ Moves
    <2>1. PICK x \in {"read", "write", "leave", "check", "through", "passed", "done"} :
                /\ rvAt' = [rvAt EXCEPT ![p] = x]
                /\ x = "leave" <=> rvAt[p] = "write"
                /\ x \in {"read", "write"} <=> rvAt[p] \in {"wait", "read"}
                /\ x \in {"passed", "done"} <=> rvAt[p] \in {"through", "passed"}
      BY <1>2, OrderOfMeeting
    <2>2. rvAt[p] \notin {"off", "init", "crashed", "done"}
      BY <1>2, OrderOfMeeting
    <2>3. \A q \in 0..3 : q # p => rvAt'[q] = rvAt[q]
      BY <2>1 DEF MeetTypes
    <2>4. rvAt'[p] = x
              /\ rvAt[p] \in {"wait", "read", "write", "leave", "check", "through", "passed"}
      BY <2>1, <2>2 DEF MeetTypes, Told
    <2>5. CASE x = "leave"
      <3>1. p \notin A /\ A' = A \cup {p} /\ B' = B
        BY <2>1, <2>3, <2>4, <2>5
      <3> QED BY <1>2, <3>1, OrderOfMeeting
    <2>6. CASE rvAt[p] = "through"
      <3>1. A = 0..3
        BY <2>6, AllTold DEF Told, OrderInv
      <3>2. p \notin B /\ B' = B \cup {p} /\ A' = A
        BY <2>1, <2>3, <2>4, <2>6
      <3> QED BY <1>2, <3>1, <3>2, OrderOfMeeting
    <2>7. CASE x # "leave" /\ rvAt[p] # "through"
      <3>1. x \in {"passed", "done"} <=> rvAt[p] \in {"passed", "done"}
        BY <2>1, <2>4, <2>7
      <3>2. x \in {"read", "write"} <=> rvAt[p] \in {"wait", "read", "write"}
        BY <2>1, <2>4, <2>7
      <3>3. x \in {"leave", "check", "through", "passed", "done"} <=>
                rvAt[p] \in {"leave", "check", "through", "passed", "done"}
        BY <2>4, <3>2
      <3>4. A' = A /\ B' = B
        BY <2>3, <2>4, <3>1, <3>3
      <3> QED BY <1>2, <3>4, OrderOfMeeting
    <2> QED BY <2>5, <2>6, <2>7
  <1>3. OrderInv' /\ store \subseteq store' /\ Moves
    <2> HIDE DEF Moves
    <2> QED BY <1>1, <1>2, MeetActions
  <1>4. A = InOrder!Arrived /\ B = InOrder!Passed
    BY DEF InOrder!Arrived, InOrder!Passed, InOrder!At
  <1>5. A' = InOrder!Arrived' /\ B' = InOrder!Passed'
    BY DEF InOrder!Arrived, InOrder!Passed, InOrder!At
  <1> HIDE DEF A, B
  <1> QED BY <1>3, <1>4, <1>5
          DEF InOrder!Meeting!BarrierNext, InOrder!Meeting!barrierVars, InOrder!Meeting!Arrive,
              InOrder!Meeting!Pass

\* rendez.c: when process 0 is ready before the others, it implements the barrier, and
\* no bit that was set is lost; and whenever they are started, nobody passes before
\* everybody has set its own.
THEOREM NobodyPassesBefore == Spec => MeetInOrder
  <1> DEFINE I == MeetTypes /\ MeetInv /\ (scene = "in order" => OrderInv)
  <1>1. Init => I /\ InOrder!Meeting!BarrierInit
    <2> SUFFICES ASSUME InOrder!Init PROVE I /\ InOrder!Meeting!BarrierInit
      BY DEF Init
    <2>1. InOrder!Arrived = {} /\ InOrder!Passed = {}
      BY DEF InOrder!Init, InOrder!Arrived, InOrder!Passed, InOrder!At
    <2> QED BY <2>1, MeetStart DEF InOrder!Meeting!BarrierInit
  <1>2. I /\ [Next]_vars =>
          /\ I'
          /\ [scene = "in order" => InOrder!Meeting!BarrierNext]_(InOrder!Meeting!barrierVars)
          /\ [scene = "in order" => store \subseteq store']_store
    <2> SUFFICES ASSUME I, [Next]_vars
                 PROVE  /\ I'
                        /\ scene = "in order" =>
                              /\ [InOrder!Meeting!BarrierNext]_(InOrder!Meeting!barrierVars)
                              /\ store \subseteq store'
      OBVIOUS
    <2>1. UNCHANGED scene
      BY Frame
    <2>2. CASE UNCHANGED rendezVars
      <3>1. InOrder!Arrived' = InOrder!Arrived /\ InOrder!Passed' = InOrder!Passed
        BY <2>2 DEF rendezVars, InOrder!Arrived, InOrder!Passed, InOrder!At
      <3>2. MeetTypes' /\ MeetInv' /\ (OrderInv => OrderInv')
        BY <2>2
        DEF rendezVars, MeetTypes, MeetInv, OrderInv, Steps, InTurns, Seen, Opened, Last, Going
      <3> QED BY <2>1, <2>2, <3>1, <3>2 DEF rendezVars, InOrder!Meeting!barrierVars
    <2>3. CASE scene = "in order" /\ InOrder!Next
      BY <2>1, <2>3, MeetActions, MeetStep, MeetingStep
    <2>4. CASE scene = "too early" /\ TooEarly!Next
      BY <2>1, <2>4, MeetActions, MeetStep
    <2> QED BY <2>2, <2>3, <2>4, Frame
  <1>3. I => InOrder!TypeOK /\ InOrder!NobodyPassesAlone
    <2> SUFFICES ASSUME I PROVE InOrder!TypeOK /\ InOrder!NobodyPassesAlone
      OBVIOUS
    <2>1. Names = {"flags", "sync", "flagstore", "sized"} /\ InOrder!Full = 0..3
      BY DEF Names, InOrder!Full
    <2>2. {InOrder!Creation[k] : k \in 1..4} = Names
      BY NamesInOrder
    <2>3. InOrder!TypeOK
      BY <2>1, <2>2 DEF MeetTypes, InOrder!TypeOK
    <2>4. InOrder!NobodyPassesAlone
      BY AllTold DEF InOrder!NobodyPassesAlone, InOrder!Passed, InOrder!At
    <2> QED BY <2>3, <2>4
  <1> QED BY <1>1, <1>2, <1>3, PTL DEF Spec, MeetInOrder
-----------------------------------------------------------------------------
(* Queues, and the connections that are closed.                            *)

\* A client that joins a queue.
LEMMA Joins ==
  ASSUME NEW S, NEW q \in Seq(S), NEW c \in S
  PROVE  /\ Append(q, c) \in Seq(S) /\ Len(Append(q, c)) = Len(q) + 1
         /\ \A k \in 1 .. Len(q) : Append(q, c)[k] = q[k]
         /\ Append(q, c)[Len(q) + 1] = c
  OBVIOUS

\* A queue without its first.
LEMMA Leaves ==
  ASSUME NEW S, NEW q \in Seq(S), q # <<>>
  PROVE  /\ Head(q) = q[1] /\ q[1] \in S /\ Len(q) > 0
         /\ Tail(q) \in Seq(S) /\ Len(Tail(q)) = Len(q) - 1
         /\ \A k \in 1 .. Len(q) - 1 : Tail(q)[k] = q[k + 1]
  OBVIOUS

\* A connection that is reset.
LEMMA Resets ==
  ASSUME NEW S, NEW g \in [client : SUBSET S, server : SUBSET S, reset : SUBSET S],
         NEW R \in SUBSET S
  PROVE  /\ [g EXCEPT !.reset = R].client = g.client
         /\ [g EXCEPT !.reset = R].server = g.server
         /\ [g EXCEPT !.reset = R].reset = R
         /\ [g EXCEPT !.reset = R] \in [client : SUBSET S, server : SUBSET S, reset : SUBSET S]
  OBVIOUS

\* Connections that the server closes.
LEMMA Leaving ==
  ASSUME NEW S, NEW g \in [client : SUBSET S, server : SUBSET S, reset : SUBSET S],
         NEW V \in SUBSET S, NEW R \in SUBSET S
  PROVE  /\ [g EXCEPT !.server = V].client = g.client
         /\ [g EXCEPT !.server = V].reset = g.reset
         /\ [g EXCEPT !.server = V].server = V
         /\ [g EXCEPT !.server = V] \in [client : SUBSET S, server : SUBSET S, reset : SUBSET S]
         /\ [g EXCEPT !.server = V, !.reset = R].reset = R
         /\ [g EXCEPT !.server = V, !.reset = R]
                \in [client : SUBSET S, server : SUBSET S, reset : SUBSET S]
  OBVIOUS

-----------------------------------------------------------------------------
(* The chat.                                                               *)

\* The types of its variables.
ChatTypes ==
    /\ chAt \in [Callers -> {"off", "loop", "recv", "close", "done", "died"}]
    /\ talk \in {"accept", "recv", "type", "close", "died"}
    /\ talk \in {"recv", "type", "close"} => partner \in Callers
    /\ queue \in Seq(Callers)
    /\ line \in [Chat!Users -> Chat!Lines \cup {"unset"}]
    /\ typed \in [Chat!Users -> Nat] /\ heard \in [Chat!Users -> Nat]
    /\ chUp \in [Callers -> Nat] /\ chDown \in [Callers -> Nat]
    /\ chGone \in [client : SUBSET Callers, server : SUBSET Callers, reset : SUBSET Callers]

\* A client waits or is talked with once, and is not closed before.
QueueInv ==
    /\ \A k \in 1 .. Len(queue) :
        /\ chAt[queue[k]] # "off" /\ queue[k] \notin chGone.server
        /\ talk \in {"recv", "type", "close"} => queue[k] # partner
        /\ \A n \in 1 .. Len(queue) : queue[n] = queue[k] => n = k
    /\ talk \in {"recv", "type", "close"} => chAt[partner] # "off" /\ partner \notin chGone.server
    /\ \A c \in chGone.server : chAt[c] # "off"
    /\ \A c \in chGone.client : chAt[c] = "done"

\* Who may type has heard as much as he has typed, unless the other has closed.
TurnInv ==
    /\ typed["server"] <= heard["server"]
    /\ talk = "type" => typed["server"] < heard["server"]
    /\ \A c \in Callers \ (chGone.server \cup chGone.reset) :
        /\ typed[c] <= heard[c] + 1
        /\ chAt[c] \in {"off", "loop"} => typed[c] <= heard[c]

\* Of a line that is not empty something is on its way.
WayInv ==
    /\ talk = "recv" /\ chAt[partner] = "recv" /\ partner \notin chGone.reset
            /\ line[partner] # "empty" /\ line["server"] # "empty"
        => chUp[partner] > 0 \/ chDown[partner] > 0
    /\ \A k \in 1 .. Len(queue) :
        chAt[queue[k]] = "recv" /\ queue[k] \notin chGone.reset /\ line[queue[k]] # "empty"
            => chUp[queue[k]] > 0

ChatInv == ChatTypes /\ QueueInv /\ TurnInv /\ WayInv

\* Its initial state.
LEMMA ChatStart == Chat!Init => ChatInv
  BY ChatAssumption
  DEF Chat!Init, Chat!Users, Chat!Server, Chat!Lines, ChatInv, ChatTypes, QueueInv, TurnInv, WayInv

\* A client that connects is new in the queue.
LEMMA ChatConnects ==
  ASSUME ChatInv, NEW c \in Callers, Chat!Connects(c)
  PROVE  ChatInv'
  <1> USE DEF ChatInv
  <1>1. /\ chAt[c] = "off"
        /\ \/ chAt' = [chAt EXCEPT ![c] = "loop"]
           \/ chAt' = [chAt EXCEPT ![c] = "close"]
           \/ chAt' = [chAt EXCEPT ![c] = "died"]
        /\ (talk = "died" /\ queue' = queue) \/ (talk # "died" /\ queue' = Append(queue, c))
        /\ UNCHANGED <<talk, partner, line, typed, chUp, chDown, heard, chGone>>
    BY DEF Chat!Connects
  <1>2. \A x \in Callers : /\ x # c => chAt'[x] = chAt[x]
                           /\ chAt'[c] \in {"loop", "close", "died"}
    BY <1>1 DEF ChatTypes
  <1>3. queue' \in Seq(Callers)
            /\ chAt' \in [Callers -> {"off", "loop", "recv", "close", "done", "died"}]
    <2>1. queue' \in Seq(Callers)
      <3>1. queue \in Seq(Callers) /\ Append(queue, c) \in Seq(Callers)
        BY Joins DEF ChatTypes
      <3> QED BY <1>1, <3>1
    <2>2. chAt' \in [Callers -> {"off", "loop", "recv", "close", "done", "died"}]
      <3>1. PICK w \in {"loop", "close", "died"} : chAt' = [chAt EXCEPT ![c] = w]
        BY <1>1
      <3> QED BY <3>1, ExceptType DEF ChatTypes
    <2> QED BY <2>1, <2>2
  <1>4. ChatTypes'
    BY <1>1, <1>3 DEF ChatTypes, Chat!Users, Chat!Server
  <1>5. \A k \in 1 .. Len(queue) : queue[k] \in Callers
    BY DEF ChatTypes
  <1>6. \A k \in 1 .. Len(queue') :
            \/ k \in 1 .. Len(queue) /\ queue'[k] = queue[k]
            \/ k = Len(queue) + 1 /\ queue'[k] = c /\ talk # "died"
    <2>1. queue \in Seq(Callers)
      BY DEF ChatTypes
    <2>2. /\ Len(Append(queue, c)) = Len(queue) + 1 /\ Append(queue, c)[Len(queue) + 1] = c
          /\ \A k \in 1 .. Len(queue) : Append(queue, c)[k] = queue[k]
      BY <2>1, Joins
    <2>3. \A k \in 1 .. Len(queue) + 1 : k \in 1 .. Len(queue) \/ k = Len(queue) + 1
      BY <2>1
    <2> HIDE DEF ChatInv
    <2>4. CASE queue' = queue
      BY <2>4
    <2>5. CASE talk # "died" /\ queue' = Append(queue, c)
      BY <2>2, <2>3, <2>5
    <2> QED BY <1>1, <2>4, <2>5
  <1>7. \A k \in 1 .. Len(queue) : queue[k] # c
    BY <1>1 DEF QueueInv
  <1>8. chGone.server \subseteq Callers /\ chGone.client \subseteq Callers
    BY DEF ChatTypes
  <1>9. QueueInv'
    <2>1. talk \in {"recv", "type", "close"} => partner # c /\ partner \in Callers
      BY <1>1 DEF QueueInv, ChatTypes
    <2>2. c \notin chGone.server /\ c \notin chGone.client
      BY <1>1 DEF QueueInv
    <2>3. ASSUME NEW k \in 1 .. Len(queue')
          PROVE  /\ chAt'[queue'[k]] # "off" /\ queue'[k] \notin chGone'.server
                 /\ talk' \in {"recv", "type", "close"} => queue'[k] # partner'
      BY <1>1, <1>2, <1>5, <1>6, <1>7, <2>1, <2>2 DEF QueueInv
    <2>4. ASSUME NEW k \in 1 .. Len(queue'), NEW n \in 1 .. Len(queue'), queue'[n] = queue'[k]
          PROVE  n = k
      <3>1. Len(queue) \in Nat
        BY DEF ChatTypes
      <3> QED BY <1>6, <1>7, <2>4, <3>1 DEF QueueInv
    <2>5. /\ talk' \in {"recv", "type", "close"} => chAt'[partner'] # "off"
                 /\ partner' \notin chGone'.server
          /\ \A x \in chGone'.server : chAt'[x] # "off"
          /\ \A x \in chGone'.client : chAt'[x] = "done"
      BY <1>1, <1>2, <1>8, <2>1, <2>2 DEF QueueInv
    <2> QED BY <2>3, <2>4, <2>5 DEF QueueInv
  <1>10. TurnInv'
    BY <1>1, <1>2 DEF TurnInv
  <1>11. WayInv'
    <2>1. talk = "recv" => partner # c /\ partner \in Callers
      BY <1>1 DEF QueueInv, ChatTypes
    <2> QED BY <1>1, <1>2, <1>5, <1>6, <1>7, <2>1 DEF WayInv
  <1> QED BY <1>4, <1>9, <1>10, <1>11

\* Who types, hears or closes is connected, and stays so.
LEMMA QueueStays ==
  ASSUME ChatTypes, QueueInv, NEW c \in Callers,
         NEW w \in {"loop", "recv", "close", "done", "died"},
         chAt[c] \notin {"off", "done"}, chAt' = [chAt EXCEPT ![c] = w],
         UNCHANGED <<talk, partner, queue>>, chGone'.server = chGone.server,
         chGone'.client = IF w = "done" THEN chGone.client \cup {c} ELSE chGone.client
  PROVE  QueueInv'
  <1>1. \A k \in 1 .. Len(queue) : queue[k] \in Callers
    BY DEF ChatTypes
  <1>2. \A x \in Callers : chAt'[x] = IF x = c THEN w ELSE chAt[x]
    BY DEF ChatTypes
  <1>3. chGone.server \subseteq Callers /\ chGone.client \subseteq Callers
    BY DEF ChatTypes
  <1>4. talk \in {"recv", "type", "close"} => partner \in Callers
    BY DEF ChatTypes
  <1> QED BY <1>1, <1>2, <1>3, <1>4 DEF QueueInv

\* A line of a client.
LEMMA ChatTypesLine ==
  ASSUME ChatInv, NEW c \in Callers, Chat!Types(c)
  PROVE  ChatInv'
  <1> USE DEF ChatInv
  <1>1. PICK text \in Chat!Lines :
        /\ line' = [line EXCEPT ![c] = text]
        /\ chAt' = [chAt EXCEPT ![c] =
                IF c \in chGone.reset /\ text # "empty" THEN "died"
                ELSE IF text = "Quit" THEN "close" ELSE "recv"]
        /\ IF text # "empty" /\ c \in chGone.server \cup chGone.reset
           THEN chGone' = [chGone EXCEPT !.reset = @ \cup {c}] /\ UNCHANGED chUp
           ELSE chUp' = [chUp EXCEPT ![c] = @ + Chat!Pieces[text]] /\ UNCHANGED chGone
    BY DEF Chat!Types
  <1>2. /\ chAt[c] = "loop" /\ typed' = [typed EXCEPT ![c] = @ + 1]
        /\ UNCHANGED <<talk, partner, queue, chDown, heard>>
    BY DEF Chat!Types
  <1>3. Chat!Pieces[text] \in Nat /\ (text # "empty" => Chat!Pieces[text] > 0)
    BY DEF Chat!Lines, Chat!Pieces
  <1>4. c \in Chat!Users /\ c # "server" /\ "server" \in Chat!Users
    BY ChatAssumption DEF Chat!Users, Chat!Server
  <1>5. PICK w \in {"died", "close", "recv"} : chAt' = [chAt EXCEPT ![c] = w]
    BY <1>1
  <1>6. /\ chGone'.server = chGone.server /\ chGone'.client = chGone.client
        /\ chGone'.reset \in SUBSET Callers /\ chGone.reset \subseteq chGone'.reset
        /\ chGone' \in [client : SUBSET Callers, server : SUBSET Callers, reset : SUBSET Callers]
    <2>1. chGone.reset \cup {c} \in SUBSET Callers
      BY DEF ChatTypes
    <2>2. CASE chGone' = chGone
      BY <2>2 DEF ChatTypes
    <2>3. CASE chGone' = [chGone EXCEPT !.reset = chGone.reset \cup {c}]
      BY <2>1, <2>3, Resets DEF ChatTypes
    <2> QED BY <1>1, <2>2, <2>3
  <1>7. ChatTypes'
    <2>1. chUp[c] + Chat!Pieces[text] \in Nat /\ typed[c] + 1 \in Nat
      BY <1>3, <1>4 DEF ChatTypes
    <2>2. chUp' \in [Callers -> Nat]
      BY <1>1, <2>1, ExceptType DEF ChatTypes
    <2>3. typed' \in [Chat!Users -> Nat] /\ line' \in [Chat!Users -> Chat!Lines \cup {"unset"}]
      BY <1>1, <1>2, <2>1, ExceptType DEF ChatTypes
    <2>4. chAt' \in [Callers -> {"off", "loop", "recv", "close", "done", "died"}]
      BY <1>5, ExceptType DEF ChatTypes
    <2> QED BY <1>2, <1>6, <2>2, <2>3, <2>4 DEF ChatTypes, Chat!Users, Chat!Server
  <1>8. QueueInv'
    BY <1>2, <1>5, <1>6, QueueStays
  <1>9. /\ \A x \in Callers : x # c =>
            /\ chAt'[x] = chAt[x] /\ chUp'[x] = chUp[x] /\ line'[x] = line[x]
                   /\ typed'[x] = typed[x]
        /\ chAt'[c] = w /\ line'[c] = text /\ typed'[c] = typed[c] + 1
        /\ line'["server"] = line["server"] /\ typed'["server"] = typed["server"]
    BY <1>1, <1>2, <1>4, <1>5 DEF ChatTypes, Chat!Users
  <1>10. TurnInv'
    <2>1. ASSUME NEW x \in Callers, x \notin chGone'.server \cup chGone'.reset
          PROVE  /\ typed'[x] <= heard'[x] + 1
                 /\ chAt'[x] \in {"off", "loop"} => typed'[x] <= heard'[x]
      <3>1. x \notin chGone.server \cup chGone.reset
        BY <1>6, <2>1
      <3>2. typed[x] \in Nat /\ heard[x] \in Nat /\ heard'[x] = heard[x]
        BY <1>2 DEF ChatTypes, Chat!Users
      <3> QED BY <1>2, <1>9, <3>1, <3>2 DEF TurnInv
    <2> QED BY <1>2, <1>9, <2>1 DEF TurnInv
  <1>11. c \notin chGone'.reset /\ c \notin chGone.server => chUp'[c] = chUp[c] + Chat!Pieces[text]
    BY <1>1, <1>6 DEF ChatTypes
  <1>12. WayInv'
    <2>1. chUp[c] \in Nat
      BY DEF ChatTypes
    <2>2. talk = "recv" => partner \in Callers /\ partner \notin chGone.server
      BY DEF QueueInv, ChatTypes
    <2>3. \A k \in 1 .. Len(queue) : queue[k] \in Callers /\ queue[k] \notin chGone.server
      BY DEF ChatTypes, QueueInv
    <2>4. chDown' = chDown /\ queue' = queue /\ talk' = talk /\ partner' = partner
      BY <1>2
    <2>5. ASSUME talk = "recv", chAt'[partner] = "recv", partner \notin chGone'.reset,
                 line'[partner] # "empty", line'["server"] # "empty"
          PROVE  chUp'[partner] > 0 \/ chDown[partner] > 0
      <3>1. CASE partner = c
        BY <1>3, <1>9, <1>11, <2>1, <2>2, <2>5, <3>1
      <3>2. CASE partner # c
        BY <1>6, <1>9, <2>2, <2>5, <3>2 DEF WayInv
      <3> QED BY <3>1, <3>2
    <2>6. ASSUME NEW k \in 1 .. Len(queue), chAt'[queue[k]] = "recv", queue[k] \notin chGone'.reset,
                 line'[queue[k]] # "empty"
          PROVE  chUp'[queue[k]] > 0
      <3>1. CASE queue[k] = c
        BY <1>3, <1>9, <1>11, <2>1, <2>3, <2>6, <3>1
      <3>2. CASE queue[k] # c
        BY <1>6, <1>9, <2>3, <2>6, <3>2 DEF WayInv
      <3> QED BY <3>1, <3>2
    <2> QED BY <2>4, <2>5, <2>6 DEF WayInv
  <1> QED BY <1>7, <1>8, <1>10, <1>12

\* A piece that a client hears.
LEMMA ChatReceives ==
  ASSUME ChatInv, NEW c \in Callers, Chat!Receives(c)
  PROVE  ChatInv'
  <1> USE DEF ChatInv
  <1>1. /\ chAt[c] = "recv"
        /\ UNCHANGED <<talk, partner, queue, line, typed, chUp, chGone>>
    BY DEF Chat!Receives
  <1>2. PICK w \in {"loop", "died"} : chAt' = [chAt EXCEPT ![c] = w]
    BY DEF Chat!Receives
  <1>3. \/ /\ chDown[c] > 0 /\ chDown' = [chDown EXCEPT ![c] = @ - 1]
           /\ heard' = [heard EXCEPT ![c] = @ + 1]
        \/ c \in chGone.server \cup chGone.reset /\ UNCHANGED <<chDown, heard>>
    BY DEF Chat!Receives
  <1>4. c \in Chat!Users /\ c # "server" /\ "server" \in Chat!Users
    BY ChatAssumption DEF Chat!Users, Chat!Server
  <1>5. ChatTypes'
    <2>1. chDown[c] \in Nat /\ heard[c] \in Nat
      BY <1>4 DEF ChatTypes
    <2>2. chDown' \in [Callers -> Nat] /\ heard' \in [Chat!Users -> Nat]
      <3>1. CASE chDown[c] > 0 /\ chDown' = [chDown EXCEPT ![c] = @ - 1]
                     /\ heard' = [heard EXCEPT ![c] = @ + 1]
        <4>1. chDown[c] - 1 \in Nat /\ heard[c] + 1 \in Nat
          BY <2>1, <3>1
        <4> QED BY <3>1, <4>1, ExceptType DEF ChatTypes
      <3> QED BY <1>3, <3>1 DEF ChatTypes
    <2>3. chAt' \in [Callers -> {"off", "loop", "recv", "close", "done", "died"}]
      BY <1>2, ExceptType DEF ChatTypes
    <2> QED BY <1>1, <2>2, <2>3 DEF ChatTypes, Chat!Users, Chat!Server
  <1>6. QueueInv'
    BY <1>1, <1>2, QueueStays
  <1>7. /\ \A x \in Callers : x # c => chAt'[x] = chAt[x] /\ chDown'[x] = chDown[x]
               /\ heard'[x] = heard[x]
        /\ chAt'[c] = w /\ heard'["server"] = heard["server"]
        /\ c \notin chGone.server \cup chGone.reset => heard'[c] = heard[c] + 1
    BY <1>2, <1>3, <1>4 DEF ChatTypes, Chat!Users
  <1>8. TurnInv'
    <2>1. ASSUME NEW x \in Callers, x \notin chGone.server \cup chGone.reset
          PROVE  /\ typed[x] <= heard'[x] + 1
                 /\ chAt'[x] \in {"off", "loop"} => typed[x] <= heard'[x]
      <3>1. typed[x] \in Nat /\ heard[x] \in Nat
        BY DEF ChatTypes, Chat!Users
      <3>2. typed[x] <= heard[x] + 1 /\ (chAt[x] \in {"off", "loop"} => typed[x] <= heard[x])
        BY <2>1 DEF TurnInv
      <3> QED BY <1>7, <2>1, <3>1, <3>2
    <2> QED BY <1>1, <1>7, <2>1 DEF TurnInv
  <1>9. WayInv'
    <2>1. talk = "recv" => partner \in Callers
      BY DEF ChatTypes
    <2>2. \A k \in 1 .. Len(queue) : queue[k] \in Callers
      BY DEF ChatTypes
    <2> QED BY <1>1, <1>7, <2>1, <2>2 DEF WayInv
  <1> QED BY <1>5, <1>6, <1>8, <1>9

\* A client that leaves.
LEMMA ChatCloses ==
  ASSUME ChatInv, NEW c \in Callers, Chat!Closes(c)
  PROVE  ChatInv'
  <1> USE DEF ChatInv
  <1>1. /\ chAt[c] = "close" /\ chAt' = [chAt EXCEPT ![c] = "done"]
        /\ UNCHANGED <<talk, partner, queue, line, typed, chUp, chDown, heard>>
    BY DEF Chat!Closes
  <1>2. /\ chGone'.client = chGone.client \cup {c} /\ chGone'.server = chGone.server
        /\ chGone.reset \subseteq chGone'.reset
        /\ chGone' \in [client : SUBSET Callers, server : SUBSET Callers, reset : SUBSET Callers]
    BY DEF Chat!Closes, ChatTypes
  <1>3. ChatTypes'
    BY <1>1, <1>2 DEF ChatTypes, Chat!Users, Chat!Server
  <1>4. QueueInv'
    BY <1>1, <1>2, QueueStays
  <1>5. \A x \in Callers : chAt'[x] = IF x = c THEN "done" ELSE chAt[x]
    BY <1>1 DEF ChatTypes
  <1>6. TurnInv'
    BY <1>1, <1>2, <1>5 DEF TurnInv
  <1>7. WayInv'
    <2>1. talk = "recv" => partner \in Callers
      BY DEF ChatTypes
    <2>2. \A k \in 1 .. Len(queue) : queue[k] \in Callers
      BY DEF ChatTypes
    <2> QED BY <1>1, <1>2, <1>5, <2>1, <2>2 DEF WayInv
  <1> QED BY <1>3, <1>4, <1>6, <1>7

\* The server turns to the first of the queue.
LEMMA ChatAccepts ==
  ASSUME ChatInv, Chat!Accepts
  PROVE  ChatInv'
  <1> USE DEF ChatInv
  <1>1. /\ talk = "accept" /\ queue # <<>>
        /\ partner' = queue[1] /\ queue' = Tail(queue) /\ talk' \in {"recv", "close"}
        /\ line' = [line EXCEPT !["server"] = "unset"]
        /\ UNCHANGED <<chAt, typed, chUp, chDown, heard, chGone>>
    BY DEF Chat!Accepts, Chat!Server
  <1>2. /\ queue[1] \in Callers /\ Len(queue) > 0 /\ Len(queue) \in Nat /\ queue' \in Seq(Callers)
        /\ Len(queue') = Len(queue) - 1 /\ \A k \in 1 .. Len(queue') : queue'[k] = queue[k + 1]
    BY <1>1, Leaves DEF ChatTypes
  <1>3. \A k \in 1 .. Len(queue') : k + 1 \in 1 .. Len(queue) /\ k + 1 # 1
    BY <1>2
  <1>4. ChatTypes'
    BY <1>1, <1>2 DEF ChatTypes, Chat!Users, Chat!Server
  <1>5. 1 \in 1 .. Len(queue)
    BY <1>2
  <1>6. QueueInv'
    <2>1. ASSUME NEW k \in 1 .. Len(queue')
          PROVE  /\ chAt[queue'[k]] # "off" /\ queue'[k] \notin chGone.server
                        /\ queue'[k] # partner'
      BY <1>1, <1>2, <1>3, <1>5 DEF QueueInv
    <2>2. ASSUME NEW k \in 1 .. Len(queue'), NEW n \in 1 .. Len(queue'), queue'[n] = queue'[k]
          PROVE  n = k
      <3>1. n + 1 = k + 1
        BY <1>2, <1>3, <2>2 DEF QueueInv
      <3> QED BY <3>1
    <2>3. chAt[partner'] # "off" /\ partner' \notin chGone.server
      BY <1>1, <1>5 DEF QueueInv
    <2> QED BY <1>1, <2>1, <2>2, <2>3 DEF QueueInv
  <1>7. TurnInv'
    BY <1>1 DEF TurnInv
  <1>8. \A x \in Callers : line'[x] = line[x] /\ x # "server"
    BY <1>1, ChatAssumption DEF ChatTypes, Chat!Users
  <1>9. WayInv'
    <2>1. \A k \in 1 .. Len(queue) : queue[k] \in Callers
      BY DEF ChatTypes
    <2> QED BY <1>1, <1>2, <1>3, <1>5, <1>8, <2>1 DEF WayInv
  <1> QED BY <1>4, <1>6, <1>7, <1>9

\* The server that dies says nothing more to anybody.
LEMMA ChatServerDies ==
  ASSUME ChatInv, Chat!ServerDies, typed' \in [Chat!Users -> Nat],
         typed'["server"] <= heard["server"],
         \A c \in Callers : typed'[c] = typed[c],
         line' \in [Chat!Users -> Chat!Lines \cup {"unset"}]
  PROVE  ChatInv'
  <1> USE DEF ChatInv
  <1>1. /\ talk' = "died" /\ queue' = <<>> /\ UNCHANGED <<chAt, partner, chUp, chDown, heard>>
        /\ chGone'.client = chGone.client /\ chGone'.server = {c \in Callers : chAt[c] # "off"}
        /\ chGone.reset \subseteq chGone'.reset
        /\ chGone' \in [client : SUBSET Callers, server : SUBSET Callers, reset : SUBSET Callers]
    BY DEF Chat!ServerDies, ChatTypes
  <1>2. ChatTypes'
    BY <1>1 DEF ChatTypes, Chat!Users, Chat!Server
  <1>3. QueueInv'
    BY <1>1 DEF QueueInv
  <1>4. \A c \in chGone.server : c \in chGone'.server
    BY <1>1 DEF QueueInv, ChatTypes
  <1>5. TurnInv'
    BY <1>1, <1>4 DEF TurnInv
  <1>6. WayInv'
    BY <1>1 DEF WayInv
  <1> QED BY <1>2, <1>3, <1>5, <1>6

\* A piece that the server hears.
LEMMA ChatServerReceives ==
  ASSUME ChatInv, Chat!ServerReceives
  PROVE  ChatInv'
  <1> USE DEF ChatInv
  <1>1. CASE Chat!ServerDies
    BY <1>1, ChatServerDies DEF Chat!ServerReceives, ChatTypes, TurnInv
  <1>2. CASE ~ Chat!ServerDies
    <2>1. /\ talk = "recv" /\ talk' = "type" /\ chUp[partner] > 0
          /\ chUp' = [chUp EXCEPT ![partner] = @ - 1]
          /\ heard' = [heard EXCEPT !["server"] = @ + 1]
          /\ UNCHANGED <<chAt, partner, queue, chDown, chGone, line, typed>>
      BY <1>2 DEF Chat!ServerReceives, Chat!Server
    <2>2. partner \in Callers /\ chUp[partner] \in Nat /\ "server" \in Chat!Users
              /\ heard["server"] \in Nat
          /\ typed["server"] \in Nat
      BY <2>1 DEF ChatTypes, Chat!Users, Chat!Server
    <2>3. chUp' \in [Callers -> Nat] /\ heard' \in [Chat!Users -> Nat]
      <3>1. chUp[partner] - 1 \in Nat /\ heard["server"] + 1 \in Nat
        BY <2>1, <2>2
      <3> QED BY <2>1, <3>1, ExceptType DEF ChatTypes
    <2>4. ChatTypes'
      BY <2>1, <2>2, <2>3 DEF ChatTypes, Chat!Users, Chat!Server
    <2>5. QueueInv'
      BY <2>1 DEF QueueInv
    <2>6. heard'["server"] = heard["server"] + 1 /\ \A c \in Callers : heard'[c] = heard[c]
      BY <2>1, <2>2, ChatAssumption DEF ChatTypes, Chat!Users
    <2>7. TurnInv'
      BY <2>1, <2>2, <2>6 DEF TurnInv
    <2>8. WayInv'
      <3>1. \A k \in 1 .. Len(queue) : queue[k] \in Callers /\ queue[k] # partner
        BY <2>1 DEF ChatTypes, QueueInv
      <3>2. \A x \in Callers : x # partner => chUp'[x] = chUp[x]
        BY <2>1 DEF ChatTypes
      <3> QED BY <2>1, <3>1, <3>2 DEF WayInv
    <2> QED BY <2>4, <2>5, <2>7, <2>8
  <1> QED BY <1>1, <1>2

\* A line of the server's user.
LEMMA ChatServerTypes ==
  ASSUME ChatInv, Chat!ServerTypes
  PROVE  ChatInv'
  <1> USE DEF ChatInv
  <1>1. talk = "type" /\ typed' = [typed EXCEPT !["server"] = @ + 1]
    BY DEF Chat!ServerTypes, Chat!Server
  <1>2. PICK text \in Chat!Lines :
        /\ line' = [line EXCEPT !["server"] = text]
        /\ \/ text # "empty" /\ Chat!ServerDies
           \/ /\ text # "empty" => partner \notin chGone.reset
              /\ talk' = IF text = "Quit" THEN "close" ELSE "recv"
              /\ IF text # "empty" /\ partner \in chGone.client
                 THEN chGone' = [chGone EXCEPT !.reset = @ \cup {partner}] /\ UNCHANGED chDown
                 ELSE chDown' = [chDown EXCEPT ![partner] = @ + Chat!Pieces[text]]
                     /\ UNCHANGED chGone
              /\ UNCHANGED <<chAt, partner, queue, chUp, heard>>
    BY DEF Chat!ServerTypes, Chat!Server
  <1>3. /\ "server" \in Chat!Users /\ typed["server"] \in Nat /\ heard["server"] \in Nat
        /\ typed["server"] < heard["server"] /\ partner \in Callers
    BY <1>1 DEF ChatTypes, Chat!Users, Chat!Server, TurnInv
  <1>4. /\ typed' \in [Chat!Users -> Nat] /\ typed'["server"] = typed["server"] + 1
        /\ \A c \in Callers : typed'[c] = typed[c] /\ line'[c] = line[c]
        /\ line' \in [Chat!Users -> Chat!Lines \cup {"unset"}] /\ line'["server"] = text
    <2>1. typed["server"] + 1 \in Nat
      BY <1>3
    <2>2. typed' \in [Chat!Users -> Nat] /\ line' \in [Chat!Users -> Chat!Lines \cup {"unset"}]
      BY <1>1, <1>2, <2>1, ExceptType DEF ChatTypes
    <2> QED BY <1>1, <1>2, <1>3, <2>2, ChatAssumption DEF ChatTypes, Chat!Users
  <1>5. CASE Chat!ServerDies
    BY <1>3, <1>4, <1>5, ChatServerDies
  <1>6. CASE ~ Chat!ServerDies
    <2>1. /\ text # "empty" => partner \notin chGone.reset
          /\ talk' = (IF text = "Quit" THEN "close" ELSE "recv")
          /\ UNCHANGED <<chAt, partner, queue, chUp, heard>>
          /\ IF text # "empty" /\ partner \in chGone.client
             THEN chGone' = [chGone EXCEPT !.reset = @ \cup {partner}] /\ UNCHANGED chDown
             ELSE chDown' = [chDown EXCEPT ![partner] = @ + Chat!Pieces[text]] /\ UNCHANGED chGone
      BY <1>2, <1>6
    <2>2. /\ chGone'.client = chGone.client /\ chGone'.server = chGone.server
          /\ chGone.reset \subseteq chGone'.reset
          /\ chGone' \in [client : SUBSET Callers, server : SUBSET Callers, reset : SUBSET Callers]
      <3>1. chGone.reset \cup {partner} \in SUBSET Callers
        BY <1>3 DEF ChatTypes
      <3>2. CASE chGone' = chGone
        BY <3>2 DEF ChatTypes
      <3>3. CASE chGone' = [chGone EXCEPT !.reset = chGone.reset \cup {partner}]
        BY <3>1, <3>3, Resets DEF ChatTypes
      <3> QED BY <2>1, <3>2, <3>3
    <2>3. Chat!Pieces[text] \in Nat /\ (text # "empty" => Chat!Pieces[text] > 0)
      BY DEF Chat!Lines, Chat!Pieces
    <2>4. chDown' \in [Callers -> Nat]
      <3>1. chDown[partner] + Chat!Pieces[text] \in Nat
        BY <1>3, <2>3 DEF ChatTypes
      <3> QED BY <2>1, <3>1, ExceptType DEF ChatTypes
    <2>5. ChatTypes'
      BY <1>3, <1>4, <2>1, <2>2, <2>4 DEF ChatTypes, Chat!Users, Chat!Server
    <2>6. QueueInv'
      BY <1>1, <2>1, <2>2 DEF QueueInv
    <2>7. TurnInv'
      BY <1>3, <1>4, <2>1, <2>2 DEF TurnInv
    <2>8. WayInv'
      <3>1. \A k \in 1 .. Len(queue) : queue[k] \in Callers
        BY DEF ChatTypes
      <3>2. ASSUME chAt[partner] = "recv", text # "empty"
            PROVE  chDown'[partner] > 0
        <4>1. partner \notin chGone.client
          BY <3>2 DEF QueueInv
        <4> QED BY <1>3, <2>1, <2>3, <3>2, <4>1 DEF ChatTypes
      <3> QED BY <1>4, <2>1, <2>2, <3>1, <3>2 DEF WayInv
    <2> QED BY <2>5, <2>6, <2>7, <2>8
  <1> QED BY <1>5, <1>6

\* The server is done with a client.
LEMMA ChatServerCloses ==
  ASSUME ChatInv, Chat!ServerCloses
  PROVE  ChatInv'
  <1> USE DEF ChatInv
  <1>1. /\ talk = "close" /\ talk' = "accept" /\ partner \in Callers
        /\ UNCHANGED <<chAt, partner, queue, line, typed, chUp, chDown, heard>>
    BY DEF Chat!ServerCloses, ChatTypes
  <1>2. /\ chGone'.server = chGone.server \cup {partner} /\ chGone'.client = chGone.client
        /\ chGone.reset \subseteq chGone'.reset
        /\ chGone' \in [client : SUBSET Callers, server : SUBSET Callers, reset : SUBSET Callers]
    BY <1>1 DEF Chat!ServerCloses, ChatTypes
  <1>3. ChatTypes'
    BY <1>1, <1>2 DEF ChatTypes, Chat!Users, Chat!Server
  <1>4. QueueInv'
    BY <1>1, <1>2 DEF QueueInv
  <1>5. TurnInv'
    BY <1>1, <1>2 DEF TurnInv
  <1>6. WayInv'
    BY <1>1, <1>2 DEF WayInv
  <1> QED BY <1>3, <1>4, <1>5, <1>6

\* Every step of the chat.
LEMMA ChatStep ==
  ASSUME ChatInv, Chat!Next
  PROVE  ChatInv'
  BY ChatConnects, ChatTypesLine, ChatReceives, ChatCloses, ChatAccepts, ChatServerReceives,
     ChatServerTypes, ChatServerCloses
  DEF Chat!Next

\* What the runs check of it.
LEMMA ChatTalks ==
  ASSUME ChatInv
  PROVE  Chat!SpeakInTurn /\ Chat!BothWaitAfterEmpty
  <1>1. Chat!SpeakInTurn
    BY DEF ChatInv, TurnInv, Chat!SpeakInTurn, Chat!Server
  <1>2. Chat!BothWaitAfterEmpty
    <2>1. SUFFICES ASSUME talk = "recv", chAt[partner] = "recv",
                          chUp[partner] + chDown[partner] = 0,
                          partner \notin chGone.reset
                   PROVE  line["server"] = "empty" \/ line[partner] = "empty"
      BY DEF Chat!BothWaitAfterEmpty, Chat!Server
    <2>2. partner \in Callers /\ chUp[partner] \in Nat /\ chDown[partner] \in Nat
      BY <2>1 DEF ChatInv, ChatTypes
    <2> QED BY <2>1, <2>2 DEF ChatInv, WayInv
  <1> QED BY <1>1, <1>2

-----------------------------------------------------------------------------
(* The echo.                                                               *)

EchoTypes ==
    /\ server \in {"one", "fork", "thread"}
    /\ main \in {"accept", "busy", "dead"}
    /\ backlog \in Seq(Callers)
    /\ open \subseteq Callers
    /\ handler \in [Callers -> {"none", "recv", "send", "close", "off"}]
    /\ client \in [Callers -> {"off", "send", "recv", "done", "died"}]
    /\ ecData \in [Callers -> Strings]
    /\ i \in [Callers -> Nat]
    /\ ecBuffer \in [Callers -> Seq(Int)] /\ got \in [Callers -> Seq(Int)]
    /\ ecUp \in [Callers -> Seq(Int)] /\ ecDown \in [Callers -> Seq(Int)]
    /\ ecGone \in [client : SUBSET Callers, server : SUBSET Callers, reset : SUBSET Callers]
    /\ \A c \in Callers : i[c] <= Len(ecData[c])

\* The bytes after the first k, and their echo.
Numbered(s, k) == \A n \in 1 .. Len(s) : s[n] = k + n
Echoed(s, k) == \A n \in 1 .. Len(s) : s[n] = -(k + n)

Buffered(c) == IF handler[c] = "send" THEN Len(ecBuffer[c]) ELSE 0
Back(c) == Len(got[c]) + Len(ecDown[c])

\* What a client has sent is, in this order, printed, on its way back, in the handler's
\* buffer, and on its way there.
StreamInv(c) ==
    /\ Echoed(got[c], 0) /\ Echoed(ecDown[c], Len(got[c]))
    /\ handler[c] # "off" /\ c \notin ecGone.reset =>
        /\ handler[c] = "send" => Numbered(ecBuffer[c], Back(c))
        /\ Numbered(ecUp[c], Back(c) + Buffered(c))
        /\ Back(c) + Buffered(c) + Len(ecUp[c]) = Echo!Bytes(c, i[c])

\* Who waits to be accepted, and who has a handler.
HandlerInv ==
    /\ Echo!DescriptorsReturn
    /\ server = "fork" => main # "dead"
    /\ \A k \in 1 .. Len(backlog) :
        /\ handler[backlog[k]] = "none" /\ client[backlog[k]] # "off"
        /\ \A n \in 1 .. Len(backlog) : backlog[n] = backlog[k] => n = k
    /\ main = "dead" => \A c \in Callers : handler[c] = "off"
    /\ main # "dead" => \A c \in Callers :
        /\ client[c] = "off" => handler[c] = "none"
        /\ c \in ecGone.server => handler[c] = "off"

Good(c) == Echo!Plain(c) /\ (server = "fork" \/ \A x \in Callers : Echo!Plain(x))

\* A good client has at most one string on its way, and that in one piece.
AnswerInv(c) ==
    /\ main # "dead" /\ c \notin ecGone.reset /\ client[c] # "died"
    /\ client[c] # "recv" => ecUp[c] = <<>> /\ ecDown[c] = <<>> /\ handler[c] # "send"
    /\ client[c] # "done" => handler[c] \notin {"close", "off"} /\ c \notin ecGone.client
    /\ client[c] = "recv" =>
        /\ i[c] > 0 /\ Len(got[c]) = Echo!Bytes(c, i[c] - 1)
        /\ ecUp[c] # <<>> => handler[c] # "send" /\ ecDown[c] = <<>>
        /\ ecDown[c] # <<>> => handler[c] # "send"
    /\ client[c] = "done" => Len(got[c]) = Echo!Bytes(c, i[c])

EchoInv ==
    /\ EchoTypes /\ HandlerInv
    /\ \A c \in Callers : StreamInv(c) /\ (Good(c) => AnswerInv(c))

\* A stream, cut in two.
LEMMA Parts ==
  ASSUME NEW s \in Seq(Int), NEW n \in 1 .. Len(s)
  PROVE  /\ SubSeq(s, 1, n) \in Seq(Int) /\ Len(SubSeq(s, 1, n)) = n
         /\ \A k \in 1 .. n : SubSeq(s, 1, n)[k] = s[k]
         /\ SubSeq(s, n + 1, Len(s)) \in Seq(Int) /\ Len(SubSeq(s, n + 1, Len(s))) = Len(s) - n
         /\ \A k \in 1 .. Len(s) - n : SubSeq(s, n + 1, Len(s))[k] = s[n + k]
  OBVIOUS

\* A stream that gets longer.
LEMMA Together ==
  ASSUME NEW s \in Seq(Int), NEW t \in Seq(Int)
  PROVE  /\ s \o t \in Seq(Int) /\ Len(s \o t) = Len(s) + Len(t)
         /\ \A k \in 1 .. Len(s) : (s \o t)[k] = s[k]
         /\ \A k \in Len(s) + 1 .. Len(s) + Len(t) : (s \o t)[k] = t[k - Len(s)]
  OBVIOUS

\* The bytes of a stream that is cut are numbered on.
LEMMA Splits ==
  ASSUME NEW s \in Seq(Int), NEW n \in 1 .. Len(s), NEW k \in Int
  PROVE  /\ Numbered(s, k) => Numbered(SubSeq(s, 1, n), k)
                /\ Numbered(SubSeq(s, n + 1, Len(s)), k + n)
         /\ Echoed(s, k) => Echoed(SubSeq(s, 1, n), k) /\ Echoed(SubSeq(s, n + 1, Len(s)), k + n)
  <1>1. n \in Nat /\ Len(s) \in Nat /\ \A m \in 1 .. Len(s) - n : n + m \in 1 .. Len(s)
    OBVIOUS
  <1> DEFINE a == SubSeq(s, 1, n)  b == SubSeq(s, n + 1, Len(s))
  <1>2. /\ Len(a) = n /\ \A m \in 1 .. n : a[m] = s[m]
        /\ Len(b) = Len(s) - n /\ \A m \in 1 .. Len(s) - n : b[m] = s[n + m]
    BY Parts
  <1>3. \A m \in 1 .. n : m \in 1 .. Len(s)
    BY <1>1
  <1> HIDE DEF a, b
  <1>4. ASSUME NEW m \in 1 .. Len(s) - n
        PROVE  n + m \in 1 .. Len(s) /\ k + (n + m) = (k + n) + m
    BY <1>1
  <1>5. Numbered(s, k) => Numbered(a, k) /\ Numbered(b, k + n)
    <2> SUFFICES ASSUME Numbered(s, k)
                 PROVE  Numbered(a, k) /\ Numbered(b, k + n)
      OBVIOUS
    <2>1. \A m \in 1 .. n : a[m] = k + m
      BY <1>2, <1>3 DEF Numbered
    <2>2. ASSUME NEW m \in 1 .. Len(s) - n
          PROVE  b[m] = (k + n) + m
      <3>1. s[n + m] = k + (n + m)
        BY <1>4 DEF Numbered
      <3> QED BY <1>2, <1>4, <3>1
    <2> QED BY <1>2, <2>1, <2>2 DEF Numbered
  <1>6. Echoed(s, k) => Echoed(a, k) /\ Echoed(b, k + n)
    <2> SUFFICES ASSUME Echoed(s, k)
                 PROVE  Echoed(a, k) /\ Echoed(b, k + n)
      OBVIOUS
    <2>1. \A m \in 1 .. n : a[m] = -(k + m)
      BY <1>2, <1>3 DEF Echoed
    <2>2. ASSUME NEW m \in 1 .. Len(s) - n
          PROVE  b[m] = -((k + n) + m)
      <3>1. s[n + m] = -(k + (n + m))
        BY <1>4 DEF Echoed
      <3> QED BY <1>2, <1>4, <3>1
    <2> QED BY <1>2, <2>1, <2>2 DEF Echoed
  <1> QED BY <1>5, <1>6 DEF a, b

\* And those of a stream that gets longer.
LEMMA Continues ==
  ASSUME NEW s \in Seq(Int), NEW t \in Seq(Int), NEW k \in Int
  PROVE  /\ Numbered(s, k) /\ Numbered(t, k + Len(s)) => Numbered(s \o t, k)
         /\ Echoed(s, k) /\ Echoed(t, k + Len(s)) => Echoed(s \o t, k)
  <1> DEFINE u == s \o t
  <1>1. /\ Len(u) = Len(s) + Len(t) /\ \A m \in 1 .. Len(s) : u[m] = s[m]
        /\ \A m \in Len(s) + 1 .. Len(s) + Len(t) : u[m] = t[m - Len(s)]
    BY Together
  <1>2. /\ Len(s) \in Nat /\ Len(t) \in Nat
        /\ \A m \in Len(s) + 1 .. Len(s) + Len(t) : m - Len(s) \in 1 .. Len(t)
    OBVIOUS
  <1> HIDE DEF u
  <1>3. \A m \in 1 .. Len(u) : m \in 1 .. Len(s) \/ m \in Len(s) + 1 .. Len(s) + Len(t)
    BY <1>1, <1>2
  <1>4. Numbered(s, k) /\ Numbered(t, k + Len(s)) => Numbered(u, k)
    BY <1>1, <1>2, <1>3 DEF Numbered
  <1>5. ASSUME Echoed(s, k), Echoed(t, k + Len(s)) PROVE Echoed(u, k)
    <2>1. ASSUME NEW m \in 1 .. Len(s) PROVE u[m] = -(k + m)
      BY <1>1, <1>5 DEF Echoed
    <2>2. ASSUME NEW m \in Len(s) + 1 .. Len(s) + Len(t) PROVE u[m] = -(k + m)
      <3>1. u[m] = t[m - Len(s)] /\ m - Len(s) \in 1 .. Len(t)
        BY <1>1, <1>2
      <3>2. t[m - Len(s)] = -((k + Len(s)) + (m - Len(s)))
        BY <1>5, <3>1 DEF Echoed
      <3>3. (k + Len(s)) + (m - Len(s)) = k + m
        BY <1>2
      <3> QED BY <3>1, <3>2, <3>3
    <2> QED BY <1>3, <2>1, <2>2 DEF Echoed
  <1> QED BY <1>4, <1>5 DEF u

\* The next string of a client.
LEMMA NextString ==
  ASSUME EchoTypes, NEW c \in Callers, i[c] < Len(ecData[c])
  PROVE  /\ Echo!Bytes(c, i[c]) \in Nat /\ Echo!Bytes(c, i[c] + 1) \in Nat
         /\ Echo!Bytes(c, i[c]) <= Echo!Bytes(c, i[c] + 1)
         /\ Echo!String(c, i[c] + 1) \in Seq(Int)
         /\ Len(Echo!String(c, i[c] + 1)) = Echo!Bytes(c, i[c] + 1) - Echo!Bytes(c, i[c])
         /\ Numbered(Echo!String(c, i[c] + 1), Echo!Bytes(c, i[c]))
  <1>1. ecData[c] \in Seq(Nat) /\ i[c] \in Nat
            /\ \A k \in 1 .. Len(ecData[c]) - 1 : ecData[c][k] <= ecData[c][k + 1]
    BY EchoAssumption DEF EchoTypes
  <1>2. /\ Echo!Bytes(c, i[c]) \in Nat /\ Echo!Bytes(c, i[c] + 1) \in Nat
        /\ Echo!Bytes(c, i[c]) <= Echo!Bytes(c, i[c] + 1)
    <2>1. i[c] + 1 \in 1 .. Len(ecData[c]) /\ Echo!Bytes(c, i[c] + 1) = ecData[c][i[c] + 1]
      BY <1>1 DEF Echo!Bytes
    <2>2. ecData[c][i[c] + 1] \in Nat
      BY <1>1, <2>1
    <2>3. CASE i[c] = 0
      <3>1. Echo!Bytes(c, i[c]) = 0
        BY <2>3 DEF Echo!Bytes
      <3> QED BY <2>1, <2>2, <3>1
    <2>4. CASE i[c] # 0
      <3>1. i[c] \in 1 .. Len(ecData[c]) - 1 /\ Echo!Bytes(c, i[c]) = ecData[c][i[c]]
        BY <1>1, <2>4 DEF Echo!Bytes
      <3>2. ecData[c][i[c]] \in Nat /\ ecData[c][i[c]] <= ecData[c][i[c] + 1]
        BY <1>1, <3>1, SMTT(30)
      <3> QED BY <2>1, <2>2, <3>1, <3>2
    <2> QED BY <2>3, <2>4
  <1> DEFINE m == Echo!Bytes(c, i[c] + 1) - Echo!Bytes(c, i[c])
             s == [n \in 1 .. m |-> Echo!Bytes(c, i[c]) + n]
  <1>3. Echo!String(c, i[c] + 1) = s
    BY <1>1 DEF Echo!String
  <1>4. m \in Nat /\ \A n \in 1 .. m : Echo!Bytes(c, i[c]) + n \in Int
    BY <1>2
  <1> HIDE DEF m
  <1>5. s \in Seq(Int) /\ Len(s) = m /\ \A n \in 1 .. m : s[n] = Echo!Bytes(c, i[c]) + n
    BY <1>4
  <1> QED BY <1>2, <1>3, <1>5 DEF Numbered, m

\* How many bytes a client has sent.
LEMMA BytesAre ==
  ASSUME EchoTypes, NEW c \in Callers
  PROVE  Echo!Bytes(c, i[c]) \in Nat
  BY EchoAssumption DEF EchoTypes, Echo!Bytes

\* The lengths of the streams.
LEMMA LengthsAre ==
  ASSUME EchoTypes, NEW c \in Callers
  PROVE  /\ Len(got[c]) \in Nat /\ Len(ecDown[c]) \in Nat /\ Len(ecUp[c]) \in Nat
                /\ Len(ecBuffer[c]) \in Nat
         /\ Back(c) \in Nat /\ Buffered(c) \in Nat
  BY DEF EchoTypes, Back, Buffered

\* What a recv brings.
LEMMA BringsSome ==
  ASSUME NEW s \in Seq(Int), NEW c, NEW n \in Echo!Brings(c, s), n > 0
  PROVE  n \in 1 .. Len(s) /\ (c \in Whole /\ Len(s) <= Buffer => n = Len(s))
  BY EchoAssumption DEF Echo!Brings, Echo!Lesser

\* Between two strings a good client has all of its echo.
LEMMA Answered ==
  ASSUME EchoTypes, NEW c \in Callers, StreamInv(c), AnswerInv(c), client[c] = "send"
  PROVE  Len(got[c]) = Echo!Bytes(c, i[c])
  <1>1. handler[c] \notin {"send", "off"} /\ ecUp[c] = <<>> /\ ecDown[c] = <<>>
            /\ c \notin ecGone.reset
    BY DEF AnswerInv
  <1>2. Len(got[c]) + 0 + 0 + 0 = Echo!Bytes(c, i[c])
    BY <1>1 DEF StreamInv, Back, Buffered
  <1> QED BY <1>2 DEF EchoTypes

\* The initial state of the echo.
LEMMA EchoStart == Echo!Init => EchoInv
  <1> SUFFICES ASSUME Echo!Init PROVE EchoInv
    OBVIOUS
  <1>1. EchoTypes
    BY EchoAssumption DEF Echo!Init, EchoTypes
  <1>2. HandlerInv
    BY DEF Echo!Init, HandlerInv, Echo!DescriptorsReturn
  <1>3. ASSUME NEW c \in Callers PROVE StreamInv(c) /\ AnswerInv(c)
    BY DEF Echo!Init, StreamInv, AnswerInv, Numbered, Echoed, Back, Buffered, Echo!Bytes
  <1> QED BY <1>1, <1>2, <1>3 DEF EchoInv

\* A step that changes nothing of a client, but perhaps that it is closed or done with,
\* leaves what it has sent.
LEMMA OthersStream ==
  ASSUME NEW x \in Callers, StreamInv(x), handler'[x] \in {handler[x], "off"} ,
         got'[x] = got[x], ecDown'[x] = ecDown[x], ecUp'[x] = ecUp[x], ecBuffer'[x] = ecBuffer[x],
         i'[x] = i[x], ecData' = ecData, ecGone.reset \subseteq ecGone'.reset
  PROVE  StreamInv(x)'
  BY DEF StreamInv, Numbered, Echoed, Back, Buffered, Echo!Bytes

\* And a good client as it is.
LEMMA OthersAnswer ==
  ASSUME NEW x \in Callers, AnswerInv(x), handler'[x] = handler[x], client'[x] = client[x],
         got'[x] = got[x], ecDown'[x] = ecDown[x], ecUp'[x] = ecUp[x],
         i'[x] = i[x], ecData' = ecData, main' # "dead",
         x \in ecGone'.reset => x \in ecGone.reset, x \in ecGone'.client => x \in ecGone.client
  PROVE  AnswerInv(x)'
  BY DEF AnswerInv, Echo!Bytes

\* Who is good, stays so.
LEMMA GoodStays ==
  ASSUME UNCHANGED <<server, ecData>>, NEW x \in Callers
  PROVE  Good(x)' <=> Good(x)
  BY DEF Good, Echo!Plain, Echo!Bytes

\* A client that connects waits to be accepted.
LEMMA EchoConnects ==
  ASSUME EchoInv, NEW c \in Callers, Echo!Connects(c)
  PROVE  EchoInv'
  <1>0. EchoTypes /\ HandlerInv /\ backlog \in Seq(Callers) /\ Len(backlog) \in Nat
    BY DEF EchoInv, EchoTypes
  <1>1. /\ client[c] = "off"
        /\ \/ main = "dead" /\ client' = [client EXCEPT ![c] = "died"] /\ backlog' = backlog
           \/ main # "dead" /\ client' = [client EXCEPT ![c] = "send"]
                  /\ backlog' = Append(backlog, c)
        /\ UNCHANGED <<server, ecData, main, open, handler, ecBuffer, i, got, ecUp, ecDown, ecGone>>
    BY DEF Echo!Connects
  <1>2. EchoTypes'
    <2>1. backlog' \in Seq(Callers)
      <3>1. backlog \in Seq(Callers) /\ Append(backlog, c) \in Seq(Callers)
        BY Joins DEF EchoInv, EchoTypes
      <3> QED BY <1>1, <3>1
    <2>2. PICK w \in {"send", "died"} : client' = [client EXCEPT ![c] = w]
      BY <1>1
    <2>3. client' \in [Callers -> {"off", "send", "recv", "done", "died"}]
      BY <2>2, ExceptType DEF EchoInv, EchoTypes
    <2> QED BY <1>1, <2>1, <2>3 DEF EchoInv, EchoTypes
  <1>3. \A x \in Callers : IF x = c THEN client'[x] \in {"send", "died"}
            /\ (main # "dead" => client'[x] = "send")
                           ELSE client'[x] = client[x]
    BY <1>1 DEF EchoInv, EchoTypes
  <1>4. \A k \in 1 .. Len(backlog') :
            \/ k \in 1 .. Len(backlog) /\ backlog'[k] = backlog[k]
            \/ k = Len(backlog) + 1 /\ backlog'[k] = c /\ main # "dead"
    <2>1. CASE backlog' = backlog
      BY <2>1
    <2>2. CASE main # "dead" /\ backlog' = Append(backlog, c)
      <3>1. /\ Len(backlog') = Len(backlog) + 1 /\ backlog'[Len(backlog) + 1] = c
            /\ \A k \in 1 .. Len(backlog) : backlog'[k] = backlog[k]
        BY <1>0, <2>2, Joins
      <3> QED BY <1>0, <2>2, <3>1
    <2> QED BY <1>1, <2>1, <2>2
  <1>5. \A k \in 1 .. Len(backlog) : backlog[k] # c /\ backlog[k] \in Callers
    <2>1. \A k \in 1 .. Len(backlog) : client[backlog[k]] # "off" /\ backlog[k] \in Callers
      BY <1>0 DEF HandlerInv
    <2> QED BY <1>1, <2>1
  <1>6. HandlerInv'
    <2>1. ASSUME NEW k \in 1 .. Len(backlog')
          PROVE  handler'[backlog'[k]] = "none" /\ client'[backlog'[k]] # "off"
      BY <1>1, <1>3, <1>4, <1>5 DEF EchoInv, HandlerInv
    <2>2. ASSUME NEW k \in 1 .. Len(backlog'), NEW n \in 1 .. Len(backlog'),
                 backlog'[n] = backlog'[k]
          PROVE  n = k
      <3>1. Len(backlog) \in Nat
        BY DEF EchoInv, EchoTypes
      <3> QED BY <1>4, <1>5, <2>2, <3>1 DEF EchoInv, HandlerInv
    <2>3. Echo!DescriptorsReturn' /\ (server' = "fork" => main' # "dead")
      BY <1>1 DEF EchoInv, HandlerInv, Echo!DescriptorsReturn
    <2>4. \A x \in Callers : /\ main' = "dead" => handler'[x] = "off"
                             /\ main' # "dead" /\ client'[x] = "off" => handler'[x] = "none"
                             /\ main' # "dead" /\ x \in ecGone'.server => handler'[x] = "off"
      BY <1>0, <1>1, <1>3 DEF HandlerInv
    <2> QED BY <2>1, <2>2, <2>3, <2>4 DEF HandlerInv
  <1>7. ASSUME NEW x \in Callers PROVE StreamInv(x)'
    BY <1>1, OthersStream DEF EchoInv
  <1>8. ASSUME NEW x \in Callers, Good(x) PROVE AnswerInv(x)'
    <2>1. AnswerInv(x) /\ main # "dead"
      BY <1>8 DEF EchoInv, AnswerInv
    <2>2. CASE x # c
      BY <1>1, <1>3, <2>1, <2>2, OthersAnswer
    <2>3. CASE x = c
      BY <1>1, <1>3, <2>1, <2>3 DEF AnswerInv
    <2> QED BY <2>2, <2>3
  <1> QED BY <1>1, <1>2, <1>6, <1>7, <1>8, GoodStays DEF EchoInv

\* The steps of a client that is connected leave the handlers alone.
LEMMA ClientHandlers ==
  ASSUME EchoTypes, HandlerInv, NEW c \in Callers, client[c] # "off", NEW w,
         client' = [client EXCEPT ![c] = w],
         w # "off", UNCHANGED <<server, main, backlog, open, handler>>,
         ecGone'.server = ecGone.server
  PROVE  HandlerInv'
  <1>1. \A x \in Callers : x # c => client'[x] = client[x]
    BY DEF EchoTypes
  <1>2. client'[c] # "off"
    BY DEF EchoTypes
  <1>3. \A k \in 1 .. Len(backlog) : backlog[k] \in Callers
    BY DEF EchoTypes
  <1> QED BY <1>1, <1>2, <1>3 DEF HandlerInv, Echo!DescriptorsReturn

\* The next string of a client.
LEMMA EchoSends ==
  ASSUME EchoInv, NEW c \in Callers, Echo!Sends(c)
  PROVE  EchoInv'
  <1>0. EchoTypes /\ HandlerInv
    BY DEF EchoInv
  <1>1. /\ client[c] = "send" /\ i[c] < Len(ecData[c]) /\ i' = [i EXCEPT ![c] = @ + 1]
        /\ UNCHANGED <<server, ecData, main, backlog, open, handler, ecBuffer, got, ecDown>>
    BY DEF Echo!Sends, Echo!serverVars
  <1>2. PICK w \in {"died", "recv"} : client' = [client EXCEPT ![c] = w]
            /\ (c \notin ecGone.reset => w = "recv")
    BY DEF Echo!Sends
  <1>3. i[c] \in Nat /\ i'[c] = i[c] + 1 /\ \A x \in Callers : x # c => i'[x] = i[x]
            /\ client'[x] = client[x]
    BY <1>0, <1>1, <1>2 DEF EchoTypes
  <1>4. \/ /\ c \in ecGone.server \cup ecGone.reset
           /\ ecGone' = [ecGone EXCEPT !.reset = ecGone.reset \cup {c}] /\ ecUp' = ecUp
        \/ /\ c \notin ecGone.server \cup ecGone.reset /\ ecGone' = ecGone
           /\ ecUp' = [ecUp EXCEPT ![c] = @ \o Echo!String(c, i[c] + 1)]
    BY <1>3 DEF Echo!Sends
  <1>5. /\ ecGone'.client = ecGone.client /\ ecGone'.server = ecGone.server
        /\ ecGone.reset \subseteq ecGone'.reset /\ \A x \in ecGone'.reset : x = c
               \/ x \in ecGone.reset
        /\ ecGone' \in [client : SUBSET Callers, server : SUBSET Callers, reset : SUBSET Callers]
    <2>1. ecGone.reset \cup {c} \in SUBSET Callers
      BY <1>0 DEF EchoTypes
    <2>2. CASE ecGone' = ecGone
      BY <1>0, <2>2 DEF EchoTypes
    <2>3. CASE ecGone' = [ecGone EXCEPT !.reset = ecGone.reset \cup {c}]
      BY <1>0, <2>1, <2>3, Resets DEF EchoTypes
    <2> QED BY <1>4, <2>2, <2>3
  <1>6. \A x \in Callers : x # c => ecUp'[x] = ecUp[x]
    BY <1>0, <1>4 DEF EchoTypes
  <1>7. EchoTypes'
    <2>1. ecUp' \in [Callers -> Seq(Int)]
      <3>1. ecUp[c] \o Echo!String(c, i[c] + 1) \in Seq(Int)
        BY <1>0, <1>1, NextString, Together DEF EchoTypes
      <3>2. [ecUp EXCEPT ![c] = @ \o Echo!String(c, i[c] + 1)] \in [Callers -> Seq(Int)]
        BY <1>0, <3>1, ExceptType DEF EchoTypes
      <3>3. ecUp \in [Callers -> Seq(Int)]
        BY <1>0 DEF EchoTypes
      <3> QED BY <1>4, <3>2, <3>3
    <2>2. i' \in [Callers -> Nat]
      <3>1. i[c] + 1 \in Nat
        BY <1>3
      <3> QED BY <1>0, <1>1, <3>1, ExceptType DEF EchoTypes
    <2>3. client' \in [Callers -> {"off", "send", "recv", "done", "died"}]
      BY <1>0, <1>2, ExceptType DEF EchoTypes
    <2>4. \A x \in Callers : i'[x] <= Len(ecData'[x])
      BY <1>0, <1>1, <1>3, EchoAssumption DEF EchoTypes
    <2> QED BY <1>0, <1>1, <1>5, <2>1, <2>2, <2>3, <2>4 DEF EchoTypes
  <1>8. HandlerInv'
    BY <1>0, <1>1, <1>2, <1>5, ClientHandlers
  <1>9. ASSUME NEW x \in Callers, x # c PROVE StreamInv(x)' /\ (Good(x) => AnswerInv(x)')
    <2>1. StreamInv(x)'
      BY <1>1, <1>3, <1>5, <1>6, <1>9, OthersStream DEF EchoInv
    <2>2. ASSUME Good(x) PROVE AnswerInv(x)'
      <3>1. AnswerInv(x) /\ main # "dead"
        BY <2>2 DEF EchoInv, AnswerInv
      <3> QED BY <1>1, <1>3, <1>5, <1>6, <1>9, <3>1, OthersAnswer
    <2> QED BY <2>1, <2>2
  <1>10. StreamInv(c)'
    <2>1. StreamInv(c)
      BY DEF EchoInv
    <2>2. CASE c \in ecGone'.reset
      BY <1>1, <2>1, <2>2 DEF StreamInv, Echoed
    <2>3. CASE c \notin ecGone'.reset
      <3>1. /\ c \notin ecGone.reset /\ ecUp'[c] = ecUp[c] \o Echo!String(c, i[c] + 1)
        BY <1>0, <1>4, <1>5, <2>3 DEF EchoTypes
      <3>2. CASE handler[c] = "off"
        BY <1>1, <2>1, <3>2 DEF StreamInv, Echoed
      <3>3. CASE handler[c] # "off"
        <4>1. /\ Numbered(ecUp[c], Back(c) + Buffered(c))
              /\ Back(c) + Buffered(c) + Len(ecUp[c]) = Echo!Bytes(c, i[c])
          BY <2>1, <3>1, <3>3 DEF StreamInv
        <4>2. Back(c)' = Back(c) /\ Buffered(c)' = Buffered(c)
          BY <1>1 DEF Back, Buffered
        <4>3. Back(c) + Buffered(c) \in Int
          BY <1>0, LengthsAre
        <4>4. ecUp[c] \in Seq(Int) /\ Echo!String(c, i[c] + 1) \in Seq(Int)
          BY <1>0, <1>1, NextString DEF EchoTypes
        <4>5. Numbered(Echo!String(c, i[c] + 1), Back(c) + Buffered(c) + Len(ecUp[c]))
          BY <1>0, <1>1, <4>1, NextString
        <4>6. Numbered(ecUp'[c], Back(c)' + Buffered(c)')
          BY <3>1, <4>1, <4>2, <4>3, <4>4, <4>5, Continues
        <4>7. Back(c)' + Buffered(c)' + Len(ecUp'[c]) = Echo!Bytes(c, i[c] + 1)
          <5>1. Len(ecUp'[c]) = Len(ecUp[c]) + Echo!Bytes(c, i[c] + 1) - Echo!Bytes(c, i[c])
            <6>1. Len(ecUp[c]) \in Int /\ Len(Echo!String(c, i[c] + 1)) \in Int
                  /\ Echo!Bytes(c, i[c] + 1) \in Int /\ Echo!Bytes(c, i[c]) \in Int
              BY <1>0, <1>1, <4>4, NextString
            <6>2. Len(ecUp'[c]) = Len(ecUp[c]) + Len(Echo!String(c, i[c] + 1))
              BY <3>1, <4>4, Together
            <6>3. Len(Echo!String(c, i[c] + 1)) = Echo!Bytes(c, i[c] + 1) - Echo!Bytes(c, i[c])
              BY <1>0, <1>1, NextString
            <6> QED BY <6>1, <6>2, <6>3
          <5>2. /\ Len(ecUp[c]) \in Int /\ Back(c) \in Int /\ Buffered(c) \in Int
                /\ Echo!Bytes(c, i[c] + 1) \in Int /\ Echo!Bytes(c, i[c]) \in Int
            BY <1>0, <1>1, LengthsAre, NextString
          <5> QED BY <4>1, <4>2, <5>1, <5>2
        <4>8. Echo!Bytes(c, i[c])' = Echo!Bytes(c, i[c] + 1)
          BY <1>1, <1>3 DEF Echo!Bytes
        <4>9. handler'[c] = "send" => Numbered(ecBuffer'[c], Back(c)')
          BY <1>1, <2>1, <3>1, <3>3, <4>2 DEF StreamInv
        <4>10. Echoed(got'[c], 0) /\ Echoed(ecDown'[c], Len(got'[c]))
          BY <1>1, <2>1 DEF StreamInv
        <4> QED BY <4>6, <4>7, <4>8, <4>9, <4>10 DEF StreamInv, Numbered, Echoed
      <3> QED BY <3>2, <3>3
    <2> QED BY <2>2, <2>3
  <1>11. ASSUME Good(c) PROVE AnswerInv(c)'
    <2>1. AnswerInv(c) /\ StreamInv(c)
      BY <1>11 DEF EchoInv
    <2>2. c \notin ecGone.reset /\ c \notin ecGone.server
      BY <1>0, <1>1, <2>1 DEF AnswerInv, HandlerInv
    <2>3. client'[c] = "recv"
      BY <1>0, <1>2, <2>2 DEF EchoTypes
    <2>4. Len(got[c]) = Echo!Bytes(c, i[c])
      BY <1>0, <1>1, <2>1, Answered
    <2>5. Echo!Bytes(c, i[c] - 1)' = Echo!Bytes(c, i[c])
      BY <1>1, <1>3 DEF Echo!Bytes
    <2>6. i'[c] > 0
      BY <1>3
    <2> QED BY <1>1, <1>4, <2>1, <2>2, <2>3, <2>4, <2>5, <2>6 DEF AnswerInv
  <1> QED BY <1>1, <1>7, <1>8, <1>9, <1>10, <1>11, GoodStays DEF EchoInv

\* What a client prints.
LEMMA EchoReceives ==
  ASSUME EchoInv, NEW c \in Callers, Echo!Receives(c)
  PROVE  EchoInv'
  <1>0. EchoTypes /\ HandlerInv /\ StreamInv(c)
    BY DEF EchoInv
  <1>1. /\ client[c] = "recv"
        /\ UNCHANGED <<server, ecData, main, backlog, open, handler, ecBuffer, i, ecUp, ecGone>>
    BY DEF Echo!Receives, Echo!serverVars
  <1>2. \/ \E n \in Echo!Brings(c, ecDown[c]) :
            /\ n > 0
            /\ got' = [got EXCEPT ![c] = @ \o SubSeq(ecDown[c], 1, n)]
            /\ ecDown' = [ecDown EXCEPT ![c] = SubSeq(@, n + 1, Len(@))]
            /\ client' = [client EXCEPT ![c] = "send"]
        \/ /\ c \in ecGone.server \/ c \in ecGone.reset
           /\ UNCHANGED <<got, ecDown>>
           /\ \E w \in {"send", "died"} : client' = [client EXCEPT ![c] = w]
    BY DEF Echo!Receives
  <1>3. PICK w \in {"send", "died"} : client' = [client EXCEPT ![c] = w]
    BY <1>2
  <1>4. HandlerInv'
    BY <1>0, <1>1, <1>3, ClientHandlers
  <1>5. client' \in [Callers -> {"off", "send", "recv", "done", "died"}]
    BY <1>0, <1>3, ExceptType DEF EchoTypes
  <1>6. \A x \in Callers : x # c => client'[x] = client[x] /\ got'[x] = got[x]
            /\ ecDown'[x] = ecDown[x]
    BY <1>0, <1>2, <1>3 DEF EchoTypes
  <1>7. ASSUME NEW x \in Callers, x # c PROVE StreamInv(x)' /\ (Good(x) => AnswerInv(x)')
    <2>1. StreamInv(x)'
      BY <1>1, <1>6, <1>7, OthersStream DEF EchoInv
    <2>2. ASSUME Good(x) PROVE AnswerInv(x)'
      <3>1. AnswerInv(x) /\ main # "dead"
        BY <2>2 DEF EchoInv, AnswerInv
      <3> QED BY <1>1, <1>6, <1>7, <3>1, OthersAnswer
    <2> QED BY <2>1, <2>2
  <1>8. ASSUME c \in ecGone.server \/ c \in ecGone.reset, UNCHANGED <<got, ecDown>>
        PROVE  EchoInv'
    <2>1. EchoTypes'
      BY <1>0, <1>1, <1>5, <1>8 DEF EchoTypes
    <2>2. StreamInv(c)'
      BY <1>0, <1>1, <1>8, OthersStream
    <2>3. ~ Good(c)
      BY <1>0, <1>1, <1>8 DEF EchoInv, AnswerInv, HandlerInv
    <2> QED BY <1>1, <1>4, <1>7, <2>1, <2>2, <2>3, GoodStays DEF EchoInv
  <1>9. ASSUME NEW n \in Echo!Brings(c, ecDown[c]), n > 0,
               got' = [got EXCEPT ![c] = @ \o SubSeq(ecDown[c], 1, n)],
               ecDown' = [ecDown EXCEPT ![c] = SubSeq(@, n + 1, Len(@))],
               client' = [client EXCEPT ![c] = "send"]
        PROVE  EchoInv'
    <2> DEFINE d == ecDown[c]  g == got[c]
    <2>1. d \in Seq(Int) /\ g \in Seq(Int) /\ n \in 1 .. Len(d)
          /\ (c \in Whole /\ Len(d) <= Buffer => n = Len(d))
      BY <1>0, <1>9, BringsSome DEF EchoTypes
    <2>2. got'[c] = g \o SubSeq(d, 1, n) /\ ecDown'[c] = SubSeq(d, n + 1, Len(d))
              /\ client'[c] = "send"
      BY <1>0, <1>9 DEF EchoTypes
    <2>3. /\ got'[c] \in Seq(Int) /\ ecDown'[c] \in Seq(Int)
          /\ Len(got'[c]) = Len(g) + n /\ Len(ecDown'[c]) = Len(d) - n
      <3>1. /\ SubSeq(d, 1, n) \in Seq(Int) /\ Len(SubSeq(d, 1, n)) = n
            /\ SubSeq(d, n + 1, Len(d)) \in Seq(Int) /\ Len(SubSeq(d, n + 1, Len(d))) = Len(d) - n
        BY <2>1, Parts
      <3> HIDE DEF d, g
      <3>2. /\ g \o SubSeq(d, 1, n) \in Seq(Int)
            /\ Len(g \o SubSeq(d, 1, n)) = Len(g) + Len(SubSeq(d, 1, n))
        BY <2>1, <3>1, Together
      <3> QED BY <2>2, <3>1, <3>2
    <2>4. EchoTypes'
      <3>1. g \o SubSeq(d, 1, n) \in Seq(Int) /\ SubSeq(d, n + 1, Len(d)) \in Seq(Int)
        BY <2>2, <2>3
      <3>2. got' \in [Callers -> Seq(Int)] /\ ecDown' \in [Callers -> Seq(Int)]
        BY <1>0, <1>9, <3>1, ExceptType DEF EchoTypes
      <3> QED BY <1>0, <1>1, <1>5, <3>2 DEF EchoTypes
    <2>5. StreamInv(c)'
      <3>1. Echoed(g, 0) /\ Echoed(d, Len(g))
        BY <1>0 DEF StreamInv
      <3>2. Len(g) \in Int /\ n \in Int /\ Len(d) \in Int /\ Len(g) = 0 + Len(g)
        BY <2>1
      <3>3. Echoed(SubSeq(d, 1, n), Len(g)) /\ Echoed(ecDown'[c], Len(g) + n)
        BY <2>1, <2>2, <3>1, <3>2, Splits
      <3>4. SubSeq(d, 1, n) \in Seq(Int)
        BY <2>1, Parts
      <3>5. Echoed(got'[c], 0)
        <4> HIDE DEF d, g
        <4>1. Echoed(SubSeq(d, 1, n), 0 + Len(g))
          BY <3>2, <3>3
        <4>2. g \in Seq(Int) /\ 0 \in Int
          BY <2>1
        <4>3. Echoed(g \o SubSeq(d, 1, n), 0)
          BY <3>1, <3>4, <4>1, <4>2, Continues
        <4> QED BY <2>2, <4>3
      <3>6. Back(c)' = Back(c) /\ Buffered(c)' = Buffered(c)
        <4>1. handler' = handler /\ ecBuffer' = ecBuffer
          BY <1>1
        <4>2. Len(got'[c]) + Len(ecDown'[c]) = Len(g) + Len(d)
          <5> HIDE DEF d, g
          <5> QED BY <2>3, <3>2
        <4> QED BY <4>1, <4>2 DEF Back, Buffered
      <3>7. Echo!Bytes(c, i[c])' = Echo!Bytes(c, i[c])
        BY <1>1 DEF Echo!Bytes
      <3>8. Echoed(ecDown'[c], Len(got'[c]))
        BY <2>3, <3>3
      <3> QED BY <1>0, <1>1, <3>5, <3>8, <3>6, <3>7 DEF StreamInv, Numbered, Echoed
    <2>6. ASSUME Good(c) PROVE AnswerInv(c)'
      <3>1. AnswerInv(c)
        BY <2>6 DEF EchoInv
      <3>2. d # <<>>
        BY <2>1
      <3>3. handler[c] \notin {"send", "close", "off"} /\ ecUp[c] = <<>> /\ c \notin ecGone.reset
        BY <1>1, <3>1, <3>2 DEF AnswerInv
      <3>4. Len(g) + Len(d) = Echo!Bytes(c, i[c])
        <4>1. Back(c) + Buffered(c) + Len(ecUp[c]) = Echo!Bytes(c, i[c])
          BY <1>0, <3>3 DEF StreamInv
        <4>2. Back(c) = Len(g) + Len(d) /\ Buffered(c) = 0 /\ Len(ecUp[c]) = 0
          BY <3>3 DEF Back, Buffered
        <4>3. Len(g) \in Int /\ Len(d) \in Int
          BY <2>1
        <4> HIDE DEF d, g
        <4> QED BY <4>1, <4>2, <4>3
      <3>5. Len(g) = Echo!Bytes(c, i[c] - 1)
        BY <1>1, <3>1 DEF AnswerInv
      <3>6. c \in Whole /\ Echo!Bytes(c, i[c]) - Echo!Bytes(c, i[c] - 1) <= Buffer
        BY <1>0, <1>1, <2>6, <3>1, EchoAssumption DEF Good, Echo!Plain, EchoTypes, AnswerInv
      <3>7. n = Len(d)
        BY <2>1, <3>4, <3>5, <3>6
      <3>8. ecDown'[c] = <<>>
        BY <2>1, <2>3, <3>7
      <3> QED BY <1>1, <2>2, <3>1, <3>3, <3>8 DEF AnswerInv
    <2> QED BY <1>1, <1>4, <1>7, <2>4, <2>5, <2>6, GoodStays DEF EchoInv
  <1> QED BY <1>2, <1>8, <1>9

\* A client that has had all its answers.
LEMMA EchoCloses ==
  ASSUME EchoInv, NEW c \in Callers, Echo!Closes(c)
  PROVE  EchoInv'
  <1>0. EchoTypes /\ HandlerInv /\ StreamInv(c)
    BY DEF EchoInv
  <1>1. /\ client[c] = "send" /\ client' = [client EXCEPT ![c] = "done"]
        /\ UNCHANGED <<server, ecData, main, backlog, open, handler, ecBuffer>>
        /\ UNCHANGED <<i, got, ecUp, ecDown>>
    BY DEF Echo!Closes, Echo!serverVars
  <1>2. /\ ecGone'.client = ecGone.client \cup {c} /\ ecGone'.server = ecGone.server
        /\ ecGone'.reset = IF ecDown[c] = <<>> THEN ecGone.reset ELSE ecGone.reset \cup {c}
        /\ ecGone' \in [client : SUBSET Callers, server : SUBSET Callers, reset : SUBSET Callers]
    BY <1>0 DEF Echo!Closes, EchoTypes
  <1>3. EchoTypes'
    BY <1>0, <1>1, <1>2, ExceptType DEF EchoTypes
  <1>4. HandlerInv'
    BY <1>0, <1>1, <1>2, ClientHandlers
  <1>5. \A x \in Callers : client'[x] = IF x = c THEN "done" ELSE client[x]
    BY <1>0, <1>1 DEF EchoTypes
  <1>6. ASSUME NEW x \in Callers PROVE StreamInv(x)'
    BY <1>1, <1>2, <1>6, OthersStream DEF EchoInv
  <1>7. ASSUME NEW x \in Callers, Good(x) PROVE AnswerInv(x)'
    <2>1. AnswerInv(x)
      BY <1>7 DEF EchoInv
    <2>2. CASE x # c
      BY <1>1, <1>2, <1>5, <2>1, <2>2, OthersAnswer DEF AnswerInv
    <2>3. CASE x = c
      <3>1. Len(got[c]) = Echo!Bytes(c, i[c])
        BY <1>0, <1>1, <2>1, <2>3, Answered
      <3>2. Echo!Bytes(c, i[c])' = Echo!Bytes(c, i[c])
        BY <1>1 DEF Echo!Bytes
      <3> QED BY <1>1, <1>2, <1>5, <2>1, <2>3, <3>1, <3>2 DEF AnswerInv
    <2> QED BY <2>2, <2>3
  <1> QED BY <1>1, <1>3, <1>4, <1>6, <1>7, GoodStays DEF EchoInv

\* Three lengths.
LEMMA Sums ==
  ASSUME NEW k \in Int, NEW m \in Int, NEW n \in Int
  PROVE  k + (m + n) = (k + m) + n
  OBVIOUS

\* The echo of what is in a buffer.
LEMMA Echoes ==
  ASSUME NEW b \in Seq(Int), NEW k \in Int
  PROVE  LET e == [n \in DOMAIN b |-> -b[n]]
         IN  /\ e \in Seq(Int) /\ Len(e) = Len(b)
             /\ Numbered(b, k) => Echoed(e, k)
  <1> DEFINE e == [n \in DOMAIN b |-> -b[n]]
  <1>1. DOMAIN b = 1 .. Len(b) /\ Len(b) \in Nat /\ \A n \in 1 .. Len(b) : b[n] \in Int
            /\ -b[n] \in Int
    OBVIOUS
  <1>2. e \in Seq(Int) /\ Len(e) = Len(b)
    BY <1>1
  <1>3. Numbered(b, k) => Echoed(e, k)
    BY <1>1, <1>2 DEF Numbered, Echoed
  <1> QED BY <1>2, <1>3

\* A handler starts.
LEMMA EchoAccepts ==
  ASSUME EchoInv, Echo!Accepts
  PROVE  EchoInv'
  <1>0. EchoTypes /\ HandlerInv /\ backlog \in Seq(Callers) /\ Len(backlog) \in Nat
    BY DEF EchoInv, EchoTypes
  <1> PICK c : c = backlog[1]
    OBVIOUS
  <1>1. /\ main = "accept" /\ backlog # <<>> /\ backlog' = Tail(backlog) /\ Head(backlog) = c
        /\ handler' = [handler EXCEPT ![c] = "recv"] /\ open' = open \cup {c}
        /\ main' \in {"busy", "accept"}
        /\ UNCHANGED <<server, ecData, ecBuffer, i, client, got, ecUp, ecDown, ecGone>>
    BY <1>0, Leaves DEF Echo!Accepts, Echo!clientVars
  <1>2. /\ c \in Callers /\ Len(backlog) > 0 /\ backlog' \in Seq(Callers)
        /\ Len(backlog') = Len(backlog) - 1
               /\ \A k \in 1 .. Len(backlog') : backlog'[k] = backlog[k + 1]
    BY <1>0, <1>1, Leaves
  <1>3. 1 \in 1 .. Len(backlog) /\ \A k \in 1 .. Len(backlog') : k + 1 \in 1 .. Len(backlog)
            /\ k + 1 # 1
    BY <1>0, <1>2
  <1>4. handler[c] = "none" /\ client[c] # "off"
    BY <1>0, <1>3 DEF HandlerInv
  <1>5. \A x \in Callers : handler'[x] = IF x = c THEN "recv" ELSE handler[x]
    BY <1>0, <1>1 DEF EchoTypes
  <1>6. EchoTypes'
    <2>1. handler' \in [Callers -> {"none", "recv", "send", "close", "off"}]
      BY <1>0, <1>1, ExceptType DEF EchoTypes
    <2> QED BY <1>0, <1>1, <1>2, <2>1 DEF EchoTypes
  <1>7. HandlerInv'
    <2>1. ASSUME NEW k \in 1 .. Len(backlog')
          PROVE  handler'[backlog'[k]] = "none" /\ client'[backlog'[k]] # "off"
      <3>1. /\ handler[backlog'[k]] = "none" /\ client[backlog'[k]] # "off" /\ backlog'[k] # c
            /\ backlog'[k] \in Callers
        BY <1>0, <1>2, <1>3 DEF HandlerInv
      <3> QED BY <1>1, <1>5, <3>1
    <2>2. ASSUME NEW k \in 1 .. Len(backlog'), NEW n \in 1 .. Len(backlog'),
                 backlog'[n] = backlog'[k]
          PROVE  n = k
      <3>1. n + 1 = k + 1
        BY <1>0, <1>2, <1>3, <2>2 DEF HandlerInv
      <3> QED BY <3>1
    <2>3. Echo!DescriptorsReturn'
      BY <1>0, <1>1, <1>2, <1>5 DEF HandlerInv, Echo!DescriptorsReturn
    <2>4. main # "dead" /\ main' # "dead"
      BY <1>1
    <2>5. \A x \in Callers : /\ client'[x] = "off" => handler'[x] = "none"
                             /\ x \in ecGone'.server => handler'[x] = "off"
      BY <1>0, <1>1, <1>4, <1>5, <2>4 DEF HandlerInv
    <2> QED BY <2>1, <2>2, <2>3, <2>4, <2>5 DEF HandlerInv
  <1>8. ASSUME NEW x \in Callers PROVE StreamInv(x)'
    <2>1. StreamInv(x)
      BY DEF EchoInv
    <2>2. CASE x # c
      BY <1>1, <1>5, <2>1, <2>2, OthersStream
    <2>3. CASE x = c
      <3>1. handler[c] = "none" /\ handler'[c] = "recv"
        BY <1>2, <1>4, <1>5
      <3>2. Buffered(c) = 0 /\ Buffered(c)' = 0
        BY <3>1 DEF Buffered
      <3>3. Back(c)' = Back(c) /\ Echo!Bytes(c, i[c])' = Echo!Bytes(c, i[c])
        BY <1>1 DEF Back, Echo!Bytes
      <3>4. StreamInv(c)
        BY <2>1, <2>3
      <3>5. StreamInv(c)'
        BY <1>1, <3>1, <3>2, <3>3, <3>4 DEF StreamInv, Numbered, Echoed
      <3> QED BY <2>3, <3>5
    <2> QED BY <2>2, <2>3
  <1>9. ASSUME NEW x \in Callers, Good(x) PROVE AnswerInv(x)'
    <2>1. AnswerInv(x) /\ main' # "dead"
      BY <1>1, <1>9 DEF EchoInv
    <2>2. CASE x # c
      BY <1>1, <1>5, <2>1, <2>2, OthersAnswer
    <2>3. CASE x = c
      BY <1>1, <1>4, <1>5, <2>1, <2>3 DEF AnswerInv, Echo!Bytes
    <2> QED BY <2>2, <2>3
  <1> QED BY <1>1, <1>6, <1>7, <1>8, <1>9, GoodStays DEF EchoInv

\* A handler dies, and with it its process.
LEMMA EchoDies ==
  ASSUME EchoInv, NEW c \in Callers, Echo!Dies(c), c \in ecGone.reset,
         handler[c] \in {"recv", "send"},
         UNCHANGED <<server, ecData, open, ecBuffer, i, client, got, ecUp, ecDown>>
  PROVE  EchoInv'
  <1>0. EchoTypes /\ HandlerInv /\ backlog \in Seq(Callers) /\ Len(backlog) \in Nat
    BY DEF EchoInv, EchoTypes
  <1>1. ~ Good(c)
    BY DEF EchoInv, AnswerInv
  <1>2. CASE server = "fork"
    <2>1. handler' = [handler EXCEPT ![c] = "off"] /\ UNCHANGED <<main, backlog, ecGone>>
      BY <1>2 DEF Echo!Dies
    <2>2. \A x \in Callers : handler'[x] = IF x = c THEN "off" ELSE handler[x]
      BY <1>0, <2>1 DEF EchoTypes
    <2>3. EchoTypes'
      <3>1. handler' \in [Callers -> {"none", "recv", "send", "close", "off"}]
        BY <1>0, <2>1, ExceptType DEF EchoTypes
      <3> QED BY <1>0, <2>1, <3>1 DEF EchoTypes
    <2>4. HandlerInv'
      <3>1. \A k \in 1 .. Len(backlog) : backlog[k] # c /\ backlog[k] \in Callers
        BY <1>0 DEF HandlerInv
      <3>2. main # "dead"
        BY <1>0, <1>2 DEF HandlerInv
      <3> QED BY <1>0, <1>2, <2>1, <2>2, <3>1, <3>2 DEF HandlerInv, Echo!DescriptorsReturn
    <2>5. ASSUME NEW x \in Callers PROVE StreamInv(x)'
      <3>1. StreamInv(x) /\ handler'[x] \in {handler[x], "off"}
        BY <2>2 DEF EchoInv
      <3> QED BY <2>1, <3>1, OthersStream
    <2>6. ASSUME NEW x \in Callers, Good(x) PROVE AnswerInv(x)'
      <3>1. x # c /\ AnswerInv(x)
        BY <1>1, <2>6 DEF EchoInv
      <3>2. main' # "dead" /\ handler'[x] = handler[x]
        BY <2>1, <2>2, <3>1 DEF AnswerInv
      <3> QED BY <2>1, <3>1, <3>2, OthersAnswer
    <2> QED BY <2>3, <2>4, <2>5, <2>6, GoodStays DEF EchoInv
  <1>3. CASE server # "fork"
    <2>1. /\ handler' = [x \in Callers |-> "off"] /\ main' = "dead" /\ backlog' = <<>>
          /\ ecGone.reset \subseteq ecGone'.reset
          /\ ecGone' \in [client : SUBSET Callers, server : SUBSET Callers, reset : SUBSET Callers]
      <3> DEFINE V == {x \in Callers : client[x] # "off"}
                 R == ecGone.reset \cup
                      {x \in Callers : ecUp[x] # <<>> \/ \E k \in DOMAIN backlog : x = backlog[k]}
      <3>1. /\ handler' = [x \in Callers |-> "off"] /\ main' = "dead" /\ backlog' = <<>>
            /\ ecGone' = [ecGone EXCEPT !.server = V, !.reset = R]
        BY <1>3 DEF Echo!Dies
      <3>2. V \in SUBSET Callers /\ R \in SUBSET Callers /\ ecGone.reset \subseteq R
            /\ ecGone \in [client : SUBSET Callers, server : SUBSET Callers, reset : SUBSET Callers]
        BY <1>0 DEF EchoTypes
      <3> HIDE DEF V, R
      <3> QED BY <3>1, <3>2, Leaving
    <2>2. EchoTypes'
      BY <1>0, <2>1 DEF EchoTypes
    <2>3. HandlerInv'
      BY <1>3, <2>1 DEF HandlerInv, Echo!DescriptorsReturn
    <2>4. ASSUME NEW x \in Callers PROVE StreamInv(x)'
      <3>1. StreamInv(x) /\ handler'[x] \in {handler[x], "off"}
        BY <2>1 DEF EchoInv
      <3> QED BY <2>1, <3>1, OthersStream
    <2>5. ASSUME NEW x \in Callers PROVE ~ Good(x)
      BY <1>1, <1>3 DEF Good
    <2> QED BY <2>2, <2>3, <2>4, <2>5, GoodStays DEF EchoInv
  <1> QED BY <1>2, <1>3

\* A handler that goes on.
LEMMA HandlerGoesOn ==
  ASSUME EchoTypes, HandlerInv, NEW c \in Callers, handler[c] \in {"recv", "send"},
         NEW w \in {"recv", "send", "close"}, handler' = [handler EXCEPT ![c] = w],
         UNCHANGED <<server, main, backlog, open, client>>, ecGone'.server = ecGone.server
  PROVE  /\ HandlerInv'
         /\ handler' \in [Callers -> {"none", "recv", "send", "close", "off"}]
         /\ \A x \in Callers : handler'[x] = IF x = c THEN w ELSE handler[x]
  <1>1. handler' \in [Callers -> {"none", "recv", "send", "close", "off"}]
    BY ExceptType DEF EchoTypes
  <1>2. \A x \in Callers : handler'[x] = IF x = c THEN w ELSE handler[x]
    BY DEF EchoTypes
  <1>3. \A k \in 1 .. Len(backlog) : backlog[k] \in Callers /\ backlog[k] # c
    <2>1. backlog \in Seq(Callers)
      BY DEF EchoTypes
    <2> QED BY <2>1 DEF HandlerInv
  <1>4. main # "dead"
    BY DEF HandlerInv
  <1>5. Echo!DescriptorsReturn'
    BY <1>2 DEF HandlerInv, Echo!DescriptorsReturn
  <1> QED BY <1>1, <1>2, <1>3, <1>4, <1>5 DEF HandlerInv

\* What a handler reads.
LEMMA EchoHandlerReceives ==
  ASSUME EchoInv, NEW c \in Callers, Echo!HandlerReceives(c)
  PROVE  EchoInv'
  <1>0. EchoTypes /\ HandlerInv /\ StreamInv(c)
    BY DEF EchoInv
  <1>1. /\ handler[c] = "recv" /\ UNCHANGED <<server, ecData, open, i, client, got, ecDown>>
        /\ \/ \E n \in Echo!Brings(c, ecUp[c]) :
                /\ n > 0
                /\ ecBuffer' = [ecBuffer EXCEPT ![c] = SubSeq(ecUp[c], 1, n)]
                /\ ecUp' = [ecUp EXCEPT ![c] = SubSeq(@, n + 1, Len(@))]
                /\ handler' = [handler EXCEPT ![c] = "send"]
                /\ UNCHANGED <<main, backlog, ecGone>>
           \/ /\ ecUp[c] = <<>> /\ c \in ecGone.client
              /\ handler' = [handler EXCEPT ![c] = "close"]
              /\ UNCHANGED <<main, backlog, ecBuffer, ecUp, ecGone>>
           \/ c \in ecGone.reset /\ Echo!Dies(c) /\ UNCHANGED <<ecBuffer, ecUp>>
    BY DEF Echo!HandlerReceives, Echo!clientVars
  <1>2. CASE c \in ecGone.reset /\ Echo!Dies(c) /\ UNCHANGED <<ecBuffer, ecUp>>
    BY <1>1, <1>2, EchoDies
  <1>3. ASSUME UNCHANGED <<main, backlog, ecGone>>, NEW w \in {"send", "close"},
               handler' = [handler EXCEPT ![c] = w],
               \A x \in Callers : x # c => ecUp'[x] = ecUp[x] /\ ecBuffer'[x] = ecBuffer[x]
        PROVE  /\ HandlerInv' /\ handler'[c] = w
               /\ handler' \in [Callers -> {"none", "recv", "send", "close", "off"}]
               /\ \A x \in Callers : x # c => StreamInv(x)' /\ (Good(x) => AnswerInv(x)')
    <2>1. /\ HandlerInv' /\ \A x \in Callers : handler'[x] = IF x = c THEN w ELSE handler[x]
          /\ handler' \in [Callers -> {"none", "recv", "send", "close", "off"}]
      BY <1>0, <1>1, <1>3, HandlerGoesOn
    <2>2. ASSUME NEW x \in Callers, x # c PROVE StreamInv(x)'
      <3>1. StreamInv(x) /\ handler'[x] \in {handler[x], "off"}
        BY <2>1, <2>2 DEF EchoInv
      <3> QED BY <1>1, <1>3, <2>2, <3>1, OthersStream
    <2>3. ASSUME NEW x \in Callers, x # c, Good(x) PROVE AnswerInv(x)'
      <3>1. AnswerInv(x) /\ main' # "dead" /\ handler'[x] = handler[x]
        BY <1>3, <2>1, <2>3 DEF EchoInv, AnswerInv
      <3> QED BY <1>1, <1>3, <2>3, <3>1, OthersAnswer
    <2> QED BY <2>1, <2>2, <2>3
  <1>4. CASE /\ ecUp[c] = <<>> /\ c \in ecGone.client
             /\ handler' = [handler EXCEPT ![c] = "close"]
             /\ UNCHANGED <<main, backlog, ecBuffer, ecUp, ecGone>>
    <2>1. /\ HandlerInv' /\ handler'[c] = "close"
          /\ handler' \in [Callers -> {"none", "recv", "send", "close", "off"}]
          /\ \A x \in Callers : x # c => StreamInv(x)' /\ (Good(x) => AnswerInv(x)')
      BY <1>3, <1>4
    <2>2. EchoTypes'
      BY <1>0, <1>1, <1>4, <2>1 DEF EchoTypes
    <2>3. StreamInv(c)'
      BY <1>0, <1>1, <1>4, <2>1 DEF StreamInv, Numbered, Echoed, Back, Buffered, Echo!Bytes
    <2>4. Good(c) => AnswerInv(c)'
      BY <1>1, <1>4, <2>1 DEF EchoInv, AnswerInv, Echo!Bytes
    <2> QED BY <1>1, <2>1, <2>2, <2>3, <2>4, GoodStays DEF EchoInv
  <1>5. ASSUME NEW n \in Echo!Brings(c, ecUp[c]), n > 0,
               ecBuffer' = [ecBuffer EXCEPT ![c] = SubSeq(ecUp[c], 1, n)],
               ecUp' = [ecUp EXCEPT ![c] = SubSeq(@, n + 1, Len(@))],
               handler' = [handler EXCEPT ![c] = "send"],
               UNCHANGED <<main, backlog, ecGone>>
        PROVE  EchoInv'
    <2> DEFINE u == ecUp[c]
    <2>1. u \in Seq(Int) /\ n \in 1 .. Len(u) /\ (c \in Whole /\ Len(u) <= Buffer => n = Len(u))
      BY <1>0, <1>5, BringsSome DEF EchoTypes
    <2>2. ecBuffer'[c] = SubSeq(u, 1, n) /\ ecUp'[c] = SubSeq(u, n + 1, Len(u))
      BY <1>0, <1>5 DEF EchoTypes
    <2>3. \A x \in Callers : x # c => ecUp'[x] = ecUp[x] /\ ecBuffer'[x] = ecBuffer[x]
      BY <1>0, <1>5 DEF EchoTypes
    <2>4. /\ HandlerInv' /\ handler'[c] = "send"
          /\ handler' \in [Callers -> {"none", "recv", "send", "close", "off"}]
          /\ \A x \in Callers : x # c => StreamInv(x)' /\ (Good(x) => AnswerInv(x)')
      BY <1>3, <1>5, <2>3
    <2>5. /\ ecBuffer'[c] \in Seq(Int) /\ Len(ecBuffer'[c]) = n
          /\ ecUp'[c] \in Seq(Int) /\ Len(ecUp'[c]) = Len(u) - n
      <3>1. /\ SubSeq(u, 1, n) \in Seq(Int) /\ Len(SubSeq(u, 1, n)) = n
            /\ SubSeq(u, n + 1, Len(u)) \in Seq(Int) /\ Len(SubSeq(u, n + 1, Len(u))) = Len(u) - n
        BY <2>1, Parts
      <3> QED BY <2>2, <3>1
    <2>6. EchoTypes'
      <3>1. SubSeq(u, 1, n) \in Seq(Int) /\ SubSeq(u, n + 1, Len(u)) \in Seq(Int)
        BY <2>2, <2>5
      <3>2. ecBuffer' \in [Callers -> Seq(Int)] /\ ecUp' \in [Callers -> Seq(Int)]
        BY <1>0, <1>5, <3>1, ExceptType DEF EchoTypes
      <3> QED BY <1>0, <1>1, <1>5, <2>4, <3>2 DEF EchoTypes
    <2>7. StreamInv(c)'
      <3>1. got'[c] = got[c] /\ ecDown'[c] = ecDown[c] /\ ecGone' = ecGone
                /\ Echo!Bytes(c, i[c])' = Echo!Bytes(c, i[c])
        BY <1>1, <1>5 DEF Echo!Bytes
      <3>2. Back(c)' = Back(c) /\ Buffered(c) = 0 /\ Buffered(c)' = n /\ Back(c) \in Int
        BY <1>0, <1>1, <2>4, <2>5, <3>1, LengthsAre DEF Back, Buffered
      <3>3. CASE c \in ecGone.reset
        BY <1>0, <3>1, <3>3 DEF StreamInv, Echoed
      <3>4. CASE c \notin ecGone.reset
        <4>1. Numbered(u, Back(c) + 0) /\ Back(c) + 0 + Len(u) = Echo!Bytes(c, i[c])
          BY <1>0, <1>1, <3>2, <3>4 DEF StreamInv
        <4>2. Back(c) + 0 = Back(c)
          BY <3>2
        <4>3. Numbered(SubSeq(u, 1, n), Back(c)) /\ Numbered(SubSeq(u, n + 1, Len(u)), Back(c) + n)
          BY <2>1, <3>2, <4>1, <4>2, Splits
        <4>4. Numbered(ecBuffer'[c], Back(c)') /\ Numbered(ecUp'[c], Back(c)' + Buffered(c)')
          BY <2>2, <3>2, <4>3
        <4>5. Back(c)' + Buffered(c)' + Len(ecUp'[c]) = Echo!Bytes(c, i[c])'
          <5>1. Len(u) \in Int /\ n \in Int
            BY <2>1
          <5> HIDE DEF u
          <5> QED BY <2>5, <3>1, <3>2, <4>1, <5>1
        <4>6. Echoed(got'[c], 0) /\ Echoed(ecDown'[c], Len(got'[c]))
          BY <1>0, <3>1 DEF StreamInv
        <4> QED BY <4>4, <4>5, <4>6 DEF StreamInv, Numbered, Echoed
      <3> QED BY <3>3, <3>4
    <2>8. ASSUME Good(c) PROVE AnswerInv(c)'
      <3>1. AnswerInv(c) /\ u # <<>>
        BY <2>1, <2>8 DEF EchoInv
      <3>2. client[c] = "recv" /\ ecDown[c] = <<>> /\ c \notin ecGone.reset
        BY <3>1 DEF AnswerInv
      <3>3. Len(got[c]) + Len(u) = Echo!Bytes(c, i[c])
        <4>1. Back(c) + Buffered(c) + Len(u) = Echo!Bytes(c, i[c])
          BY <1>0, <1>1, <3>2 DEF StreamInv
        <4>2. Back(c) = Len(got[c]) + 0 /\ Buffered(c) = 0
          BY <1>1, <3>2 DEF Back, Buffered
        <4>3. Len(got[c]) \in Int /\ Len(u) \in Int
          BY <1>0, LengthsAre
        <4> HIDE DEF u
        <4> QED BY <4>1, <4>2, <4>3
      <3>4. Len(got[c]) = Echo!Bytes(c, i[c] - 1)
        BY <3>1, <3>2 DEF AnswerInv
      <3>5. c \in Whole /\ Echo!Bytes(c, i[c]) - Echo!Bytes(c, i[c] - 1) <= Buffer
        BY <1>0, <2>8, <3>1, <3>2, EchoAssumption DEF Good, Echo!Plain, EchoTypes, AnswerInv
      <3>6. n = Len(u)
        BY <2>1, <3>3, <3>4, <3>5
      <3>7. ecUp'[c] = <<>>
        BY <2>1, <2>5, <3>6
      <3> QED BY <1>1, <1>5, <2>4, <3>1, <3>2, <3>4, <3>7 DEF AnswerInv, Echo!Bytes
    <2> QED BY <1>1, <2>4, <2>6, <2>7, <2>8, GoodStays DEF EchoInv
  <1> QED BY <1>1, <1>2, <1>4, <1>5

\* What a handler answers.
LEMMA EchoHandlerSends ==
  ASSUME EchoInv, NEW c \in Callers, Echo!HandlerSends(c)
  PROVE  EchoInv'
  <1>0. EchoTypes /\ HandlerInv /\ StreamInv(c)
    BY DEF EchoInv
  <1> DEFINE e == [n \in DOMAIN ecBuffer[c] |-> -ecBuffer[c][n]]
  <1>1. /\ handler[c] = "send" /\ UNCHANGED <<server, ecData, open, ecBuffer, i, client, got, ecUp>>
        /\ \/ /\ c \notin ecGone.reset /\ handler' = [handler EXCEPT ![c] = "recv"]
              /\ \/ /\ c \in ecGone.client /\ ecDown' = ecDown
                    /\ ecGone' = [ecGone EXCEPT !.reset = ecGone.reset \cup {c}]
                 \/ /\ c \notin ecGone.client /\ ecGone' = ecGone
                    /\ ecDown' = [ecDown EXCEPT ![c] = @ \o e]
              /\ UNCHANGED <<main, backlog>>
           \/ c \in ecGone.reset /\ Echo!Dies(c) /\ UNCHANGED ecDown
    BY DEF Echo!HandlerSends, Echo!clientVars
  <1> HIDE DEF e
  <1>2. CASE c \in ecGone.reset /\ Echo!Dies(c) /\ UNCHANGED ecDown
    BY <1>1, <1>2, EchoDies
  <1>3. CASE ~ (c \in ecGone.reset /\ Echo!Dies(c) /\ UNCHANGED ecDown)
    <2>1. /\ c \notin ecGone.reset /\ handler' = [handler EXCEPT ![c] = "recv"]
                 /\ UNCHANGED <<main, backlog>>
          /\ \/ /\ c \in ecGone.client /\ ecDown' = ecDown
                /\ ecGone' = [ecGone EXCEPT !.reset = ecGone.reset \cup {c}]
             \/ /\ c \notin ecGone.client /\ ecGone' = ecGone
                /\ ecDown' = [ecDown EXCEPT ![c] = @ \o e]
      BY <1>1, <1>3
    <2>2. /\ ecGone'.client = ecGone.client /\ ecGone'.server = ecGone.server
          /\ ecGone.reset \subseteq ecGone'.reset /\ \A x \in ecGone'.reset : x = c
                 \/ x \in ecGone.reset
          /\ ecGone' \in [client : SUBSET Callers, server : SUBSET Callers, reset : SUBSET Callers]
          /\ c \in ecGone'.reset <=> c \in ecGone.client
      <3>1. ecGone.reset \cup {c} \in SUBSET Callers
        BY <1>0 DEF EchoTypes
      <3>2. CASE c \notin ecGone.client /\ ecGone' = ecGone
        BY <1>0, <2>1, <3>2 DEF EchoTypes
      <3>3. CASE c \in ecGone.client /\ ecGone' = [ecGone EXCEPT !.reset = ecGone.reset \cup {c}]
        BY <1>0, <3>1, <3>3, Resets DEF EchoTypes
      <3> QED BY <2>1, <3>2, <3>3
    <2>3. /\ HandlerInv' /\ \A x \in Callers : handler'[x] = IF x = c THEN "recv" ELSE handler[x]
          /\ handler' \in [Callers -> {"none", "recv", "send", "close", "off"}]
      BY <1>0, <1>1, <2>1, <2>2, HandlerGoesOn
    <2>4. ecBuffer[c] \in Seq(Int) /\ ecDown[c] \in Seq(Int) /\ Back(c) \in Int
      BY <1>0, LengthsAre DEF EchoTypes
    <2>5. e \in Seq(Int) /\ Len(e) = Len(ecBuffer[c])
              /\ (Numbered(ecBuffer[c], Back(c)) => Echoed(e, Back(c)))
      BY <2>4, Echoes DEF e
    <2>6. ecDown' \in [Callers -> Seq(Int)] /\ \A x \in Callers : x # c => ecDown'[x] = ecDown[x]
      <3>1. ecDown[c] \o e \in Seq(Int) /\ ecDown \in [Callers -> Seq(Int)]
        BY <1>0, <2>4, <2>5, Together DEF EchoTypes
      <3>2. [ecDown EXCEPT ![c] = @ \o e] \in [Callers -> Seq(Int)]
        BY <3>1, ExceptType
      <3> QED BY <2>1, <3>1, <3>2
    <2>7. EchoTypes'
      BY <1>0, <1>1, <2>1, <2>2, <2>3, <2>6 DEF EchoTypes
    <2>8. ASSUME NEW x \in Callers, x # c PROVE StreamInv(x)' /\ (Good(x) => AnswerInv(x)')
      <3>1. StreamInv(x) /\ handler'[x] = handler[x]
        BY <2>3, <2>8 DEF EchoInv
      <3>2. StreamInv(x)'
        BY <1>1, <2>1, <2>2, <2>6, <2>8, <3>1, OthersStream
      <3>3. ASSUME Good(x) PROVE AnswerInv(x)'
        <4>1. AnswerInv(x) /\ main' # "dead"
          BY <2>1, <3>3 DEF EchoInv, AnswerInv
        <4> QED BY <1>1, <2>2, <2>6, <2>8, <3>1, <4>1, OthersAnswer
      <3> QED BY <3>2, <3>3
    <2>9. CASE c \in ecGone.client
      <3>1. ~ Good(c)
        BY <1>1, <2>9 DEF EchoInv, AnswerInv
      <3>2. StreamInv(c)'
        BY <1>0, <1>1, <2>1, <2>2, <2>9 DEF StreamInv, Echoed
      <3> QED BY <1>1, <2>3, <2>7, <2>8, <3>1, <3>2, GoodStays DEF EchoInv
    <2>10. CASE c \notin ecGone.client
      <3>1. ecGone' = ecGone /\ ecDown'[c] = ecDown[c] \o e /\ handler'[c] = "recv"
        BY <1>0, <2>1, <2>3, <2>10 DEF EchoTypes
      <3>2. StreamInv(c)'
        <4>1. /\ Echoed(got[c], 0) /\ Echoed(ecDown[c], Len(got[c]))
                     /\ Numbered(ecBuffer[c], Back(c))
              /\ Numbered(ecUp[c], Back(c) + Buffered(c))
              /\ Back(c) + Buffered(c) + Len(ecUp[c]) = Echo!Bytes(c, i[c])
          BY <1>0, <1>1, <2>1 DEF StreamInv
        <4>2. Back(c) = Len(got[c]) + Len(ecDown[c]) /\ Buffered(c) = Len(ecBuffer[c])
                  /\ Buffered(c)' = 0
          BY <1>1, <3>1 DEF Back, Buffered
        <4>3. Len(got[c]) \in Int /\ Len(ecDown[c]) \in Int /\ Len(ecBuffer[c]) \in Int
                  /\ Len(ecUp[c]) \in Int
          BY <1>0, LengthsAre
        <4>4. Echoed(ecDown'[c], Len(got[c]))
          <5>1. Echoed(e, Len(got[c]) + Len(ecDown[c]))
            BY <2>5, <4>1, <4>2
          <5> QED BY <2>4, <2>5, <3>1, <4>1, <4>3, <5>1, Continues
        <4>5. Len(ecDown'[c]) = Len(ecDown[c]) + Len(ecBuffer[c])
          <5>1. Len(ecDown[c] \o e) = Len(ecDown[c]) + Len(e)
            BY <2>4, <2>5, Together
          <5> QED BY <2>5, <3>1, <5>1
        <4>6. Back(c)' = Back(c) + Buffered(c)
          <5>1. Back(c)' = Len(got[c]) + Len(ecDown'[c])
            BY <1>1 DEF Back
          <5>2. Len(got[c]) + (Len(ecDown[c]) + Len(ecBuffer[c]))
                    = (Len(got[c]) + Len(ecDown[c])) + Len(ecBuffer[c])
            BY <4>3, Sums
          <5> QED BY <4>2, <4>5, <5>1, <5>2
        <4>7. Back(c)' + Buffered(c)' = Back(c) + Buffered(c)
          BY <4>2, <4>3, <4>6
        <4>8. Echo!Bytes(c, i[c])' = Echo!Bytes(c, i[c])
          BY <1>1 DEF Echo!Bytes
        <4> QED BY <1>1, <3>1, <4>1, <4>4, <4>7, <4>8 DEF StreamInv, Numbered, Echoed
      <3>3. ASSUME Good(c) PROVE AnswerInv(c)'
        <4>1. AnswerInv(c)
          BY <3>3 DEF EchoInv
        <4>2. client[c] = "recv" /\ ecUp[c] = <<>>
          BY <1>1, <4>1 DEF AnswerInv
        <4> QED BY <1>1, <2>1, <3>1, <4>1, <4>2 DEF AnswerInv, Echo!Bytes
      <3> QED BY <1>1, <2>3, <2>7, <2>8, <3>2, <3>3, GoodStays DEF EchoInv
    <2> QED BY <2>9, <2>10
  <1> QED BY <1>2, <1>3

\* A handler that is done.
LEMMA EchoHandlerCloses ==
  ASSUME EchoInv, NEW c \in Callers, Echo!HandlerCloses(c)
  PROVE  EchoInv'
  <1>0. EchoTypes /\ HandlerInv
    BY DEF EchoInv
  <1>1. /\ handler[c] = "close" /\ handler' = [handler EXCEPT ![c] = "off"]
        /\ main' = (IF server = "one" THEN "accept" ELSE main)
        /\ \/ server = "fork" /\ UNCHANGED <<open, ecGone>>
           \/ server # "fork" /\ open' = open \ {c}
                  /\ ecGone' = [ecGone EXCEPT !.server = @ \cup {c}]
        /\ UNCHANGED <<server, ecData, backlog, ecBuffer, i, client, got, ecUp, ecDown>>
    BY DEF Echo!HandlerCloses, Echo!clientVars
  <1>2. main # "dead" /\ main' # "dead"
    BY <1>0, <1>1 DEF HandlerInv
  <1>3. /\ ecGone'.client = ecGone.client /\ ecGone'.reset = ecGone.reset
        /\ \A x \in ecGone'.server : x = c \/ x \in ecGone.server
        /\ ecGone' \in [client : SUBSET Callers, server : SUBSET Callers, reset : SUBSET Callers]
    <2>1. ecGone.server \cup {c} \in SUBSET Callers
          /\ ecGone \in [client : SUBSET Callers, server : SUBSET Callers, reset : SUBSET Callers]
      BY <1>0 DEF EchoTypes
    <2>2. CASE ecGone' = ecGone
      BY <2>1, <2>2
    <2>3. CASE ecGone' = [ecGone EXCEPT !.server = ecGone.server \cup {c}]
      BY <2>1, <2>3, Leaving
    <2> QED BY <1>1, <2>2, <2>3
  <1>4. \A x \in Callers : handler'[x] = IF x = c THEN "off" ELSE handler[x]
    BY <1>0, <1>1 DEF EchoTypes
  <1>5. EchoTypes'
    <2>1. handler' \in [Callers -> {"none", "recv", "send", "close", "off"}]
      BY <1>0, <1>1, ExceptType DEF EchoTypes
    <2>2. open' \subseteq Callers /\ main' \in {"accept", "busy", "dead"}
      BY <1>0, <1>1 DEF EchoTypes
    <2> QED BY <1>0, <1>1, <1>3, <2>1, <2>2 DEF EchoTypes
  <1>6. HandlerInv'
    <2>1. \A k \in 1 .. Len(backlog) : backlog[k] \in Callers /\ backlog[k] # c
      <3>1. backlog \in Seq(Callers)
        BY <1>0 DEF EchoTypes
      <3> QED BY <1>0, <1>1, <3>1 DEF HandlerInv
    <2>2. Echo!DescriptorsReturn'
      BY <1>0, <1>1, <1>2, <1>4 DEF HandlerInv, Echo!DescriptorsReturn
    <2>3. \A x \in Callers : /\ client'[x] = "off" => handler'[x] = "none"
                             /\ x \in ecGone'.server => handler'[x] = "off"
      BY <1>0, <1>1, <1>2, <1>3, <1>4 DEF HandlerInv
    <2> QED BY <1>0, <1>1, <1>2, <1>4, <2>1, <2>2, <2>3 DEF HandlerInv
  <1>7. ASSUME NEW x \in Callers PROVE StreamInv(x)'
    <2>1. StreamInv(x) /\ handler'[x] \in {handler[x], "off"}
      BY <1>4 DEF EchoInv
    <2> QED BY <1>1, <1>3, <2>1, OthersStream
  <1>8. ASSUME NEW x \in Callers, Good(x) PROVE AnswerInv(x)'
    <2>1. AnswerInv(x)
      BY <1>8 DEF EchoInv
    <2>2. CASE x # c
      BY <1>1, <1>2, <1>3, <1>4, <2>1, <2>2, OthersAnswer
    <2>3. CASE x = c
      <3>1. client[c] = "done"
        BY <1>1, <2>1, <2>3 DEF AnswerInv
      <3> QED BY <1>1, <1>2, <1>3, <1>4, <2>1, <2>3, <3>1 DEF AnswerInv, Echo!Bytes
    <2> QED BY <2>2, <2>3
  <1> QED BY <1>1, <1>5, <1>6, <1>7, <1>8, GoodStays DEF EchoInv

\* Every step of the echo.
LEMMA EchoStep ==
  ASSUME EchoInv, Echo!Next
  PROVE  EchoInv'
  BY EchoConnects, EchoSends, EchoReceives, EchoCloses, EchoAccepts, EchoHandlerReceives,
     EchoHandlerSends, EchoHandlerCloses
  DEF Echo!Next, Echo!Runs, Echo!Handles

\* What the runs check of it.
LEMMA EchoTalks ==
  ASSUME EchoInv
  PROVE  Echo!EchoedInOrder /\ Echo!EachItsAnswer /\ Echo!DescriptorsReturn
  <1>1. Echo!EchoedInOrder
    <2>1. ASSUME NEW c \in Callers, NEW n \in DOMAIN got[c] PROVE got[c][n] = -n
      <3>1. n \in 1 .. Len(got[c]) /\ Echoed(got[c], 0)
        BY DEF EchoInv, EchoTypes, StreamInv
      <3>2. got[c][n] = -(0 + n)
        BY <3>1 DEF Echoed
      <3> QED BY <3>1, <3>2
    <2> QED BY <2>1 DEF Echo!EchoedInOrder
  <1>2. Echo!EachItsAnswer
    <2>1. ASSUME NEW c \in Callers, Good(c)
          PROVE  /\ client[c] # "died"
                 /\ client[c] \in {"send", "done"} => Len(got[c]) = Echo!Bytes(c, i[c])
      <3>1. EchoTypes /\ StreamInv(c) /\ AnswerInv(c)
        BY <2>1 DEF EchoInv
      <3>2. client[c] = "send" => Len(got[c]) = Echo!Bytes(c, i[c])
        BY <3>1, Answered
      <3> QED BY <3>1, <3>2 DEF AnswerInv
    <2> QED BY <2>1 DEF Echo!EachItsAnswer, Good
  <1>3. Echo!DescriptorsReturn
    BY DEF EchoInv, HandlerInv
  <1> QED BY <1>1, <1>2, <1>3

-----------------------------------------------------------------------------
\* For any clients, strings and buffer, and any pieces TCP delivers: what an echo
\* client prints is its own text, nothing lost, doubled or exchanged; a plain client
\* gets all of each answer before it goes on; the descriptors come back. And for any
\* number of lines, the users of the chat speak in turn, and wait for each other only
\* after an empty line.
THEOREM TheyTalk == Spec => []TalksOverTcp
  <1>1. Init => EchoInv /\ ChatInv
    BY EchoStart, ChatStart DEF Init
  <1>2. EchoInv /\ ChatInv /\ [Next]_vars => (EchoInv /\ ChatInv)'
    <2> SUFFICES ASSUME EchoInv, ChatInv, [Next]_vars PROVE EchoInv' /\ ChatInv'
      OBVIOUS
    <2>1. EchoInv'
      <3>1. CASE UNCHANGED echoVars
        <4>1. EchoTypes'
          BY <3>1 DEF echoVars, EchoInv, EchoTypes
        <4>2. HandlerInv'
          BY <3>1 DEF echoVars, EchoInv, HandlerInv, Echo!DescriptorsReturn
        <4>3. ASSUME NEW c \in Callers PROVE StreamInv(c)' /\ (Good(c) => AnswerInv(c)')
          <5>1. StreamInv(c)'
            BY <3>1, OthersStream DEF echoVars, EchoInv
          <5>2. ASSUME Good(c) PROVE AnswerInv(c)'
            <6>1. AnswerInv(c) /\ main' # "dead"
              BY <3>1, <5>2 DEF echoVars, EchoInv, AnswerInv
            <6> QED BY <3>1, <6>1, OthersAnswer DEF echoVars
          <5> QED BY <5>1, <5>2
        <4> QED BY <3>1, <4>1, <4>2, <4>3, GoodStays DEF echoVars, EchoInv
      <3> QED BY <3>1, Frame, EchoStep
    <2>2. ChatInv'
      <3>1. CASE UNCHANGED chatVars
        BY <3>1 DEF chatVars, ChatInv, ChatTypes, QueueInv, TurnInv, WayInv
      <3> QED BY <3>1, Frame, ChatStep
    <2> QED BY <2>1, <2>2
  <1>3. EchoInv /\ ChatInv => TalksOverTcp
    BY EchoTalks, ChatTalks DEF TalksOverTcp
  <1> QED BY <1>1, <1>2, <1>3, PTL DEF Spec
-----------------------------------------------------------------------------
(* The buffers. What is proved in ProducerConsumerProofs and BaBufferProofs is    *)
(* true of the scenes that are instances of them.                                 *)

SingleProof == INSTANCE ProducerConsumerProofs WITH
    MaxData <- MaxData.single, Resets <- FALSE, MaxStarts <- 1

SeveralProof == INSTANCE ProducerConsumerProofs WITH
    MaxData <- MaxData.several, Resets <- TRUE, MaxStarts <- 3

OnceProof == INSTANCE BaBufferProofs WITH
    Consumers <- Takers, Places <- BaPlaces, MaxData <- MaxData.once, MaxCreations <- 1,
    sem <- baSem, buffer <- baBuffer, in <- baIn, out <- baOut, step <- baStep,
    taken <- baTaken, alarm <- baAlarm

TwiceProof == INSTANCE BaBufferProofs WITH
    Consumers <- Takers, Places <- BaPlaces, MaxData <- MaxData.twice, MaxCreations <- 2,
    sem <- baSem, buffer <- baBuffer, in <- baIn, out <- baOut, step <- baStep,
    taken <- baTaken, alarm <- baAlarm

\* The constants are what those proofs assume.
LEMMA BoundsHold ==
  SingleProof!Bounds /\ SeveralProof!Bounds /\ OnceProof!Bounds /\ TwiceProof!Bounds
  <1>1. SingleProof!Bounds /\ SeveralProof!Bounds
    BY BufferAssumption
    DEF SingleProof!Bounds, SeveralProof!Bounds,
        IsFiniteSet, SingleProof!IsFiniteSet, SeveralProof!IsFiniteSet
  <1>2. PICK n \in Nat \ {0} : 0 .. n - 1 \subseteq BaPlaces /\ \A p \in Producers : SizeOf[p] = n
    <2>1. PICK p \in Producers : TRUE
      BY ProducersAssumption
    <2>2. SizeOf[p] \in Nat \ {0} /\ 0 .. SizeOf[p] - 1 \subseteq BaPlaces
      BY ProducersAssumption
    <2>3. \A q \in Producers : SizeOf[q] = SizeOf[p]
      BY ProducersAssumption
    <2> QED BY <2>2, <2>3
  <1>3. (CHOOSE p \in Producers : TRUE) \in Producers
    BY ProducersAssumption
  <1>4. OnceProof!TheSize = n /\ TwiceProof!TheSize = n
    BY <1>2, <1>3 DEF OnceProof!TheSize, TwiceProof!TheSize
  <1> QED
    BY <1>1, <1>2, <1>4, BufferAssumption, ProducersAssumption
    DEF OnceProof!Bounds, TwiceProof!Bounds,
        IsFiniteSet, OnceProof!IsFiniteSet, TwiceProof!IsFiniteSet

\* What Single is for ProducerConsumerProofs it is for the exercises.
LEMMA SingleAgrees ==
  /\ Single!Init => SingleProof!Init
  /\ [Single!Next]_(Single!vars) => [SingleProof!Next]_(SingleProof!vars)
  /\ SingleProof!TypeOK => Single!TypeOK
  /\ SingleProof!SemaphoreAccounts => Single!SemaphoreAccounts
  <1>1. Single!Init => SingleProof!Init
    BY DEF Single!Init, SingleProof!Init, Single!Procs, SingleProof!Procs, Single!Places,
           SingleProof!Places
  <1>2. Single!Next => SingleProof!Next
    BY DEF
         Single!Next, SingleProof!Next, Single!Creates, SingleProof!Creates,
         Single!StartsProducing, SingleProof!StartsProducing, Single!Produces,
         SingleProof!Produces, Single!ResetsAll, SingleProof!ResetsAll, Single!Quits,
         SingleProof!Quits, Single!Starts, SingleProof!Starts, Single!Opens, SingleProof!Opens,
         Single!Chooses, SingleProof!Chooses, Single!Consumes, SingleProof!Consumes,
         Single!Takes, SingleProof!Takes, Single!GoesOnConsuming, SingleProof!GoesOnConsuming,
         Single!GoesOnProducing, SingleProof!GoesOnProducing, Single!Locks, SingleProof!Locks,
         Single!Appends, SingleProof!Appends, Single!Goes, SingleProof!Goes, Single!SemWait,
         SingleProof!SemWait, Single!SemPost, SingleProof!SemPost, Single!Bound,
         SingleProof!Bound, Single!Creation, SingleProof!Creation, Single!Removal,
         SingleProof!Removal, Single!Places, SingleProof!Places, Single!Procs, SingleProof!Procs,
         Single!objVars, SingleProof!objVars, Single!bufVars, SingleProof!bufVars,
         Single!conVars, SingleProof!conVars, Single!vars, SingleProof!vars
  <1>3. UNCHANGED Single!vars => UNCHANGED SingleProof!vars
    BY DEF
         Single!vars, SingleProof!vars, Single!objVars, SingleProof!objVars, Single!bufVars,
         SingleProof!bufVars, Single!conVars, SingleProof!conVars
  <1>4. SingleProof!TypeOK => Single!TypeOK
    BY DEF
         Single!TypeOK, SingleProof!TypeOK, Single!Creation, SingleProof!Creation,
         Single!Removal, SingleProof!Removal, Single!Places, SingleProof!Places, Single!Procs,
         SingleProof!Procs, Single!Labels, SingleProof!Labels
  <1>5. SingleProof!SemaphoreAccounts => Single!SemaphoreAccounts
    BY DEF
         Single!SemaphoreAccounts, SingleProof!SemaphoreAccounts, Single!Hands,
         SingleProof!Hands, Single!Owners, SingleProof!Owners, Single!At, SingleProof!At,
         Single!Procs, SingleProof!Procs, Single!Cardinality, SingleProof!Cardinality
  <1> QED BY <1>1, <1>2, <1>3, <1>4, <1>5

\* What Several is for ProducerConsumerProofs it is for the exercises.
LEMMA SeveralAgrees ==
  /\ Single!Init => SeveralProof!Init
  /\ [Several!Next]_(Several!vars) => [SeveralProof!Next]_(SeveralProof!vars)
  /\ SeveralProof!TypeOK => Several!TypeOK
  /\ SeveralProof!SemaphoreAccounts => Several!SemaphoreAccounts
  <1>1. Single!Init => SeveralProof!Init
    BY DEF Single!Init, SeveralProof!Init, Single!Procs, SeveralProof!Procs, Single!Places,
           SeveralProof!Places
  <1>2. Several!Next => SeveralProof!Next
    BY DEF
         Several!Next, SeveralProof!Next, Several!Creates, SeveralProof!Creates,
         Several!StartsProducing, SeveralProof!StartsProducing, Several!Produces,
         SeveralProof!Produces, Several!ResetsAll, SeveralProof!ResetsAll, Several!Quits,
         SeveralProof!Quits, Several!Starts, SeveralProof!Starts, Several!Opens,
         SeveralProof!Opens, Several!Chooses, SeveralProof!Chooses, Several!Consumes,
         SeveralProof!Consumes, Several!Takes, SeveralProof!Takes, Several!GoesOnConsuming,
         SeveralProof!GoesOnConsuming, Several!GoesOnProducing, SeveralProof!GoesOnProducing,
         Several!Locks, SeveralProof!Locks, Several!Appends, SeveralProof!Appends, Several!Goes,
         SeveralProof!Goes, Several!SemWait, SeveralProof!SemWait, Several!SemPost,
         SeveralProof!SemPost, Several!Bound, SeveralProof!Bound, Several!Creation,
         SeveralProof!Creation, Several!Removal, SeveralProof!Removal, Several!Places,
         SeveralProof!Places, Several!Procs, SeveralProof!Procs, Several!objVars,
         SeveralProof!objVars, Several!bufVars, SeveralProof!bufVars, Several!conVars,
         SeveralProof!conVars, Several!vars, SeveralProof!vars
  <1>3. UNCHANGED Several!vars => UNCHANGED SeveralProof!vars
    BY DEF
         Several!vars, SeveralProof!vars, Several!objVars, SeveralProof!objVars, Several!bufVars,
         SeveralProof!bufVars, Several!conVars, SeveralProof!conVars
  <1>4. SeveralProof!TypeOK => Several!TypeOK
    BY DEF
         Several!TypeOK, SeveralProof!TypeOK, Several!Creation, SeveralProof!Creation,
         Several!Removal, SeveralProof!Removal, Several!Places, SeveralProof!Places,
         Several!Procs, SeveralProof!Procs, Several!Labels, SeveralProof!Labels
  <1>5. SeveralProof!SemaphoreAccounts => Several!SemaphoreAccounts
    BY DEF
         Several!SemaphoreAccounts, SeveralProof!SemaphoreAccounts, Several!Hands,
         SeveralProof!Hands, Several!Owners, SeveralProof!Owners, Several!At, SeveralProof!At,
         Several!Procs, SeveralProof!Procs, Several!Cardinality, SeveralProof!Cardinality
  <1> QED BY <1>1, <1>2, <1>3, <1>4, <1>5

\* What Once is for BaBufferProofs it is for the exercises.
LEMMA OnceAgrees ==
  /\ Once!Init => OnceProof!Init
  /\ [Once!Next]_(Once!vars) => [OnceProof!Next]_(OnceProof!vars)
  /\ OnceProof!TypeOK /\ OnceProof!SemaphoreAccounts => Once!TypeOK /\ Once!SemaphoreAccounts
  <1>1. Once!Init => OnceProof!Init
    BY DEF Once!Init, OnceProof!Init, Once!Procs, OnceProof!Procs
  <1>2. Once!Next => OnceProof!Next
    BY DEF
         Once!Next, OnceProof!Next, Once!Opens, OnceProof!Opens, Once!Reads, OnceProof!Reads,
         Once!GoesOn, OnceProof!GoesOn, Once!Crashes, OnceProof!Crashes, Once!Chooses,
         OnceProof!Chooses, Once!Creates, OnceProof!Creates, Once!Removes, OnceProof!Removes,
         Once!Locks, OnceProof!Locks, Once!Appends, OnceProof!Appends, Once!Starts,
         OnceProof!Starts, Once!Takes, OnceProof!Takes, Once!Goes, OnceProof!Goes,
         Once!Continues, OnceProof!Continues, Once!Truncates, OnceProof!Truncates, Once!Opened,
         OnceProof!Opened, Once!Names, OnceProof!Names, Once!Creation, OnceProof!Creation,
         Once!Opening, OnceProof!Opening, Once!Removal, OnceProof!Removal, Once!Procs,
         OnceProof!Procs, Once!SemWait, OnceProof!SemWait, Once!SemPost, OnceProof!SemPost,
         Once!nameVars, OnceProof!nameVars, Once!bufVars, OnceProof!bufVars, Once!ownVars,
         OnceProof!ownVars, Once!vars, OnceProof!vars
  <1>3. UNCHANGED Once!vars => UNCHANGED OnceProof!vars
    BY DEF
         Once!vars, OnceProof!vars, Once!nameVars, OnceProof!nameVars, Once!bufVars,
         OnceProof!bufVars, Once!ownVars, OnceProof!ownVars
  <1>4. OnceProof!TypeOK => Once!TypeOK
    BY DEF
         Once!TypeOK, OnceProof!TypeOK, Once!Names, OnceProof!Names, Once!Procs, OnceProof!Procs,
         Once!Labels, OnceProof!Labels, Once!Opening, OnceProof!Opening, Once!TheSize,
         OnceProof!TheSize, Once!Cardinality, OnceProof!Cardinality
  <1>5. OnceProof!SemaphoreAccounts => Once!SemaphoreAccounts
    BY DEF
         Once!SemaphoreAccounts, OnceProof!SemaphoreAccounts, Once!Known, OnceProof!Known,
         Once!Hands, OnceProof!Hands, Once!Owners, OnceProof!Owners, Once!At, OnceProof!At,
         Once!Procs, OnceProof!Procs, Once!TheSize, OnceProof!TheSize, Once!Cardinality,
         OnceProof!Cardinality
  <1> QED BY <1>1, <1>2, <1>3, <1>4, <1>5

\* What Twice is for BaBufferProofs it is for the exercises.
LEMMA TwiceAgrees ==
  /\ Once!Init => TwiceProof!Init
  /\ [Twice!Next]_(Twice!vars) => [TwiceProof!Next]_(TwiceProof!vars)
  /\ TwiceProof!TypeOK /\ TwiceProof!SemaphoreAccounts => Twice!TypeOK /\ Twice!SemaphoreAccounts
  <1>1. Once!Init => TwiceProof!Init
    BY DEF Once!Init, TwiceProof!Init, Once!Procs, TwiceProof!Procs
  <1>2. Twice!Next => TwiceProof!Next
    BY DEF
         Twice!Next, TwiceProof!Next, Twice!Opens, TwiceProof!Opens, Twice!Reads,
         TwiceProof!Reads, Twice!GoesOn, TwiceProof!GoesOn, Twice!Crashes, TwiceProof!Crashes,
         Twice!Chooses, TwiceProof!Chooses, Twice!Creates, TwiceProof!Creates, Twice!Removes,
         TwiceProof!Removes, Twice!Locks, TwiceProof!Locks, Twice!Appends, TwiceProof!Appends,
         Twice!Starts, TwiceProof!Starts, Twice!Takes, TwiceProof!Takes, Twice!Goes,
         TwiceProof!Goes, Twice!Continues, TwiceProof!Continues, Twice!Truncates,
         TwiceProof!Truncates, Twice!Opened, TwiceProof!Opened, Twice!Names, TwiceProof!Names,
         Twice!Creation, TwiceProof!Creation, Twice!Opening, TwiceProof!Opening, Twice!Removal,
         TwiceProof!Removal, Twice!Procs, TwiceProof!Procs, Twice!SemWait, TwiceProof!SemWait,
         Twice!SemPost, TwiceProof!SemPost, Twice!nameVars, TwiceProof!nameVars, Twice!bufVars,
         TwiceProof!bufVars, Twice!ownVars, TwiceProof!ownVars, Twice!vars, TwiceProof!vars
  <1>3. UNCHANGED Twice!vars => UNCHANGED TwiceProof!vars
    BY DEF
         Twice!vars, TwiceProof!vars, Twice!nameVars, TwiceProof!nameVars, Twice!bufVars,
         TwiceProof!bufVars, Twice!ownVars, TwiceProof!ownVars
  <1>4. TwiceProof!TypeOK => Twice!TypeOK
    BY DEF
         Twice!TypeOK, TwiceProof!TypeOK, Twice!Names, TwiceProof!Names, Twice!Procs,
         TwiceProof!Procs, Twice!Labels, TwiceProof!Labels, Twice!Opening, TwiceProof!Opening,
         Twice!TheSize, TwiceProof!TheSize, Twice!Cardinality, TwiceProof!Cardinality
  <1>5. TwiceProof!SemaphoreAccounts => Twice!SemaphoreAccounts
    BY DEF
         Twice!SemaphoreAccounts, TwiceProof!SemaphoreAccounts, Twice!Known, TwiceProof!Known,
         Twice!Hands, TwiceProof!Hands, Twice!Owners, TwiceProof!Owners, Twice!At, TwiceProof!At,
         Twice!Procs, TwiceProof!Procs, Twice!TheSize, TwiceProof!TheSize, Twice!Cardinality,
         TwiceProof!Cardinality
  <1> QED BY <1>1, <1>2, <1>3, <1>4, <1>5


\* In its scene Single behaves as its specification says.
LEMMA SingleBehaves == Spec => SingleProof!Spec \/ [](~ (scene = "single"))
  <1>1. Init => SingleProof!Init
    BY SingleAgrees DEF Init
  <1>2. [Next]_vars =>
          /\ scene = "single" => (scene = "single")' /\ [SingleProof!Next]_(SingleProof!vars)
          /\ ~ (scene = "single") => (~ (scene = "single"))'
    <2>1. UNCHANGED ringVars => UNCHANGED Single!vars
      BY DEF ringVars, Single!vars, Single!objVars, Single!bufVars, Single!conVars
    <2> QED BY <2>1, Frame, SingleAgrees
  <1> QED BY <1>1, <1>2, PTL DEF Spec, SingleProof!Spec

\* In its scene Several behaves as its specification says.
LEMMA SeveralBehaves == Spec => SeveralProof!Spec \/ [](~ (scene = "several"))
  <1>1. Init => SeveralProof!Init
    BY SeveralAgrees DEF Init
  <1>2. [Next]_vars =>
          /\ scene = "several" => (scene = "several")' /\ [SeveralProof!Next]_(SeveralProof!vars)
          /\ ~ (scene = "several") => (~ (scene = "several"))'
    <2>1. UNCHANGED ringVars => UNCHANGED Several!vars
      BY DEF ringVars, Several!vars, Several!objVars, Several!bufVars, Several!conVars
    <2> QED BY <2>1, Frame, SeveralAgrees
  <1> QED BY <1>1, <1>2, PTL DEF Spec, SeveralProof!Spec

\* In its scene Once behaves as its specification says.
LEMMA OnceBehaves == Spec => OnceProof!Spec \/ [](~ (scene = "once"))
  <1>1. Init => OnceProof!Init
    BY OnceAgrees DEF Init
  <1>2. [Next]_vars =>
          /\ scene = "once" => (scene = "once")' /\ [OnceProof!Next]_(OnceProof!vars)
          /\ ~ (scene = "once") => (~ (scene = "once"))'
    <2>1. UNCHANGED baVars => UNCHANGED Once!vars
      BY DEF baVars, Once!vars, Once!nameVars, Once!bufVars, Once!ownVars
    <2> QED BY <2>1, Frame, OnceAgrees
  <1> QED BY <1>1, <1>2, PTL DEF Spec, OnceProof!Spec

\* In its scene Twice behaves as its specification says.
LEMMA TwiceBehaves == Spec => TwiceProof!Spec \/ [](~ (scene = "twice"))
  <1>1. Init => TwiceProof!Init
    BY TwiceAgrees DEF Init
  <1>2. [Next]_vars =>
          /\ scene = "twice" => (scene = "twice")' /\ [TwiceProof!Next]_(TwiceProof!vars)
          /\ ~ (scene = "twice") => (~ (scene = "twice"))'
    <2>1. UNCHANGED baVars => UNCHANGED Twice!vars
      BY DEF baVars, Twice!vars, Twice!nameVars, Twice!bufVars, Twice!ownVars
    <2> QED BY <2>1, Frame, TwiceAgrees
  <1> QED BY <1>1, <1>2, PTL DEF Spec, TwiceProof!Spec

\* The semaphores of all buffers add up, whatever users choose and whoever fails halfway,
\* and only two creators can make a producer use what it does not have.
THEOREM TheyAddUp == Spec => []SemaphoresAddUp
  <1>1. SingleProof!Spec => [](SingleProof!TypeOK /\ SingleProof!SemaphoreAccounts)
    <2>1. SingleProof!IInv => SingleProof!TypeOK /\ SingleProof!SemaphoreAccounts
      BY DEF SingleProof!IInv
    <2> QED BY <2>1, SingleProof!Invariance, BoundsHold, PTL
  <1>2. SeveralProof!Spec => [](SeveralProof!TypeOK /\ SeveralProof!SemaphoreAccounts)
    <2>1. SeveralProof!IInv => SeveralProof!TypeOK /\ SeveralProof!SemaphoreAccounts
      BY DEF SeveralProof!IInv
    <2> QED BY <2>1, SeveralProof!Invariance, BoundsHold, PTL
  <1>3. OnceProof!Spec =>
          [](OnceProof!TypeOK /\ OnceProof!SemaphoreAccounts /\ OnceProof!CrashedAfterTwo)
    <2>1. OnceProof!IInv => OnceProof!TypeOK /\ OnceProof!SemaphoreAccounts
      BY DEF OnceProof!IInv
    <2> QED BY <2>1, OnceProof!Invariance, OnceProof!OneCreatorIsEnough, BoundsHold, PTL
  <1>4. TwiceProof!Spec =>
          [](TwiceProof!TypeOK /\ TwiceProof!SemaphoreAccounts /\ TwiceProof!CrashedAfterTwo)
    <2>1. TwiceProof!IInv => TwiceProof!TypeOK /\ TwiceProof!SemaphoreAccounts
      BY DEF TwiceProof!IInv
    <2> QED BY <2>1, TwiceProof!Invariance, TwiceProof!OneCreatorIsEnough, BoundsHold, PTL
  <1>5. /\ OnceProof!CrashedAfterTwo => Once!CrashedAfterTwo
        /\ TwiceProof!CrashedAfterTwo => Twice!CrashedAfterTwo
    BY DEF OnceProof!CrashedAfterTwo, Once!CrashedAfterTwo,
           TwiceProof!CrashedAfterTwo, Twice!CrashedAfterTwo
  <1>6. \/ SingleProof!TypeOK /\ SingleProof!SemaphoreAccounts
        \/ ~ (scene = "single")
        => (scene = "single" => Single!SemaphoreAccounts)
    BY SingleAgrees
  <1>7. \/ SeveralProof!TypeOK /\ SeveralProof!SemaphoreAccounts
        \/ ~ (scene = "several")
        => (scene = "several" => Several!TypeOK /\ Several!SemaphoreAccounts)
    BY SeveralAgrees
  <1>8. \/ OnceProof!TypeOK /\ OnceProof!SemaphoreAccounts /\ OnceProof!CrashedAfterTwo
        \/ ~ (scene = "once")
        => (scene = "once" => Once!TypeOK /\ Once!SemaphoreAccounts /\ Once!CrashedAfterTwo)
    BY <1>5, OnceAgrees
  <1>9. \/ TwiceProof!TypeOK /\ TwiceProof!SemaphoreAccounts /\ TwiceProof!CrashedAfterTwo
        \/ ~ (scene = "twice")
        => (scene = "twice" => Twice!TypeOK /\ Twice!SemaphoreAccounts /\ Twice!CrashedAfterTwo)
    BY <1>5, TwiceAgrees
  <1> QED
    BY <1>1, <1>2, <1>3, <1>4, <1>6, <1>7, <1>8, <1>9,
       SingleBehaves, SeveralBehaves, OnceBehaves, TwiceBehaves, PTL
    DEF SemaphoresAddUp

\* With one consumer of consumer.c, or any of baconsumer.c and one creator, the buffers
\* are bounded FIFOs.
THEOREM TheyAreFifos == Spec => BuffersAreFifos
  <1>1. Init => Single!Fifo!FifoInit /\ Once!Fifo!FifoInit
    <2> SUFFICES ASSUME Init PROVE Single!Fifo!FifoInit /\ Once!Fifo!FifoInit
      OBVIOUS
    <2>1. in = 0 /\ taken = <<>> /\ data = 0 /\ baIn = 0 /\ baOut = 0 /\ value = 0
      BY DEF Init, Single!Init, Once!Init
    <2>2. /\ Single!Inside = [k \in 1 .. 0 |-> buffer[(0 + k - 1) % Size]]
          /\ Once!Inside = [k \in 1 .. 0 |-> baBuffer[(0 + k - 1) % Once!TheSize]]
          /\ 1 .. 0 = {}
      BY <2>1 DEF Single!Inside, Once!Inside
    <2>3. Single!Inside = <<>> /\ Once!Inside = <<>>
      BY <2>2
    <2> QED BY <2>1, <2>3 DEF Single!Fifo!FifoInit, Once!Fifo!FifoInit
  <1>2. /\ Single!Inside = SingleProof!Inside /\ Single!Inside' = SingleProof!Inside'
        /\ Once!Inside = OnceProof!Inside /\ Once!Inside' = OnceProof!Inside'
        /\ Once!TheSize = OnceProof!TheSize
    BY DEF Single!Inside, SingleProof!Inside, Once!Inside, OnceProof!Inside,
           Once!TheSize, OnceProof!TheSize
  <1>3. [SingleProof!Fifo!FifoNext]_(SingleProof!Fifo!fifoVars) =>
            [scene = "single" => Single!Fifo!FifoNext]_(Single!Fifo!fifoVars)
    BY <1>2 DEF Single!Fifo!FifoNext, Single!Fifo!Put, Single!Fifo!Get, Single!Fifo!fifoVars,
           SingleProof!Fifo!FifoNext, SingleProof!Fifo!Put, SingleProof!Fifo!Get,
           SingleProof!Fifo!fifoVars
  <1>4. [OnceProof!Fifo!FifoNext]_(OnceProof!Fifo!fifoVars) =>
            [scene = "once" => Once!Fifo!FifoNext]_(Once!Fifo!fifoVars)
    BY <1>2 DEF Once!Fifo!FifoNext, Once!Fifo!Put, Once!Fifo!Get, Once!Fifo!fifoVars,
           OnceProof!Fifo!FifoNext, OnceProof!Fifo!Put, OnceProof!Fifo!Get,
           OnceProof!Fifo!fifoVars
  <1>5. /\ ~ (scene = "single") => [scene = "single" => Single!Fifo!FifoNext]_(Single!Fifo!fifoVars)
        /\ ~ (scene = "once") => [scene = "once" => Once!Fifo!FifoNext]_(Once!Fifo!fifoVars)
    OBVIOUS
  <1>6. /\ SingleProof!TakenInOrder /\ SingleProof!NoAlarm => Single!NoAlarm /\ Single!TakenInOrder
        /\ OnceProof!NoAlarm /\ OnceProof!TakenInOrder => Once!NoAlarm /\ Once!TakenInOrder
        /\ TwiceProof!NoAlarm /\ TwiceProof!TakenInOrder => Once!NoAlarm /\ Once!TakenInOrder
    BY DEF Single!NoAlarm, Single!TakenInOrder, SingleProof!NoAlarm, SingleProof!TakenInOrder,
           Once!NoAlarm, Once!TakenInOrder, OnceProof!NoAlarm, OnceProof!TakenInOrder,
           TwiceProof!NoAlarm, TwiceProof!TakenInOrder
  <1>7. /\ ~ (scene = "single") => (scene = "single" => Single!NoAlarm /\ Single!TakenInOrder)
        /\ ~ (scene = "once") /\ ~ (scene = "twice") =>
              (scene \in {"once", "twice"} => Once!NoAlarm /\ Once!TakenInOrder)
    OBVIOUS
  <1>8. /\ SingleProof!Spec => SingleProof!ImplementsFifo
        /\ SingleProof!Spec => [](SingleProof!TakenInOrder /\ SingleProof!NoAlarm)
    BY SingleProof!FifoImplemented, SingleProof!PrintedInOrder, BoundsHold
  <1>9. /\ OnceProof!Spec => OnceProof!ImplementsFifo
        /\ OnceProof!Spec => [](OnceProof!NoAlarm /\ OnceProof!TakenInOrder)
        /\ TwiceProof!Spec => [](TwiceProof!NoAlarm /\ TwiceProof!TakenInOrder)
    BY OnceProof!FifoImplemented, OnceProof!InOrder, TwiceProof!InOrder, BoundsHold
  <1> QED
    BY <1>1, <1>3, <1>4, <1>5, <1>6, <1>7, <1>8, <1>9,
       SingleBehaves, OnceBehaves, TwiceBehaves, PTL
    DEF Spec, BuffersAreFifos, SingleProof!ImplementsFifo, SingleProof!Fifo!FifoSpec,
        OnceProof!ImplementsFifo, OnceProof!Fifo!FifoSpec

=============================================================================
