----------------------- MODULE ProducerConsumerProofs -----------------------
(***************************************************************************)
(* Proofs about producer.c and consumer.c, for any size of the buffer and  *)
(* any number of consumers: the semaphores add up whatever the users do,   *)
(* and with one consumer the buffer is a bounded FIFO.                     *)
(***************************************************************************)
EXTENDS ProducerConsumerProperties, RingLemmas, SequenceTheorems, FiniteSetTheorems, TLAPS

USE DEF vars, objVars, bufVars, conVars

\* What the numbers and the processes are.
Bounds ==
    /\ Size \in Nat \ {0} /\ MaxData \in Nat /\ MaxStarts \in Nat
    /\ Resets \in BOOLEAN
    /\ IsFiniteSet(Consumers) /\ P \notin Consumers

-----------------------------------------------------------------------------
(* The processes that are somewhere.                                       *)

\* Processes are finitely many, wherever they are.
LEMMA FinitelyMany ==
  ASSUME Bounds
  PROVE  /\ IsFiniteSet(Procs)
         /\ \A S \in SUBSET Procs : IsFiniteSet(S) /\ Cardinality(S) \in Nat
  <1>1. IsFiniteSet(Procs)
    BY FS_AddElement, FS_Union, FS_Singleton DEF Bounds, Procs
  <1> QED BY <1>1, FS_Subset, FS_CardinalityType

\* A process that goes from one label to another enters or leaves the sets it goes
\* between, and no other.
LEMMA Moves ==
  ASSUME Bounds, TypeOK, NEW p \in Procs, NEW from, NEW to, Goes(p, from, to), NEW L
  PROVE  /\ from \notin L /\ to \notin L => At(L)' = At(L)
         /\ from \in L /\ to \in L => At(L)' = At(L)
         /\ from \notin L /\ to \in L =>
                At(L)' = At(L) \cup {p} /\ Cardinality(At(L)') = Cardinality(At(L)) + 1
         /\ from \in L /\ to \notin L =>
                At(L)' = At(L) \ {p} /\ Cardinality(At(L)') = Cardinality(At(L)) - 1
         /\ Cardinality(At(L)) \in Nat /\ Cardinality(At(L)') \in Nat
  <1>1. /\ \A q \in Procs : pc'[q] = IF q = p THEN to ELSE pc[q]
        /\ pc[p] = from
    BY DEF Goes, TypeOK
  <1>2. /\ At(L) \in SUBSET Procs /\ At(L)' \in SUBSET Procs
        /\ IsFiniteSet(At(L)) /\ Cardinality(At(L)) \in Nat /\ Cardinality(At(L)') \in Nat
    BY FinitelyMany DEF At
  <1>3. (from \in L <=> to \in L) => At(L)' = At(L)
    BY <1>1 DEF At
  <1>4. ASSUME from \notin L, to \in L
        PROVE  At(L)' = At(L) \cup {p} /\ Cardinality(At(L)') = Cardinality(At(L)) + 1
    <2>1. At(L)' = At(L) \cup {p} /\ p \notin At(L)
      BY <1>1, <1>4 DEF At
    <2> QED BY <1>2, <2>1, FS_AddElement
  <1>5. ASSUME from \in L, to \notin L
        PROVE  At(L)' = At(L) \ {p} /\ Cardinality(At(L)') = Cardinality(At(L)) - 1
    <2>1. p \in At(L) /\ p \notin At(L)'
      BY <1>1, <1>5 DEF At
    <2>2. \A q \in Procs : q # p => (q \in At(L)' <=> q \in At(L))
      BY <1>1 DEF At
    <2>3. At(L)' = At(L) \ {p}
      BY <1>2, <2>1, <2>2
    <2> QED BY <1>2, <2>1, <2>3, FS_RemoveElement
  <1> QED BY <1>2, <1>3, <1>4, <1>5

-----------------------------------------------------------------------------
(* The kinds of steps. Only work(), append() and take() concern processes  *)
(* between the two semaphores.                                             *)

Middle == {"enter", "inside", "leave", "announce"}

\* Nobody enters or leaves the middle of work(), and no semaphore changes.
Quiet ==
    /\ UNCHANGED sem
    /\ \/ UNCHANGED pc
       \/ \E p \in Procs, from, to \in Labels \ Middle : Goes(p, from, to)

\* What a step can be.
LEMMA Kinds ==
  ASSUME TypeOK, WhereInv, [Next]_vars
  PROVE  \/ Locks(P, "e", "n") \/ Appends
         \/ \E c \in Consumers : Locks(c, "n", "e") \/ Takes(c)
         \/ Quiet /\ UNCHANGED <<taken, alarm>> /\ (~Resets => UNCHANGED <<buffer, in, data>>)
  <1> USE DEF Procs, Labels, Middle, Quiet
  <1>1. CASE Creates
    BY <1>1 DEF Creates
  <1>2. CASE StartsProducing \/ GoesOnProducing
    BY <1>2 DEF StartsProducing, GoesOnProducing
  <1>3. CASE ResetsAll
    <2>1. UNCHANGED <<sem, taken, alarm>> /\ Resets
      BY <1>3 DEF ResetsAll
    <2>2. UNCHANGED pc \/ Goes(P, "menu", "reset") \/ Goes(P, "reset", "menu")
      BY <1>3 DEF ResetsAll, Goes
    <2> QED BY <2>1, <2>2
  <1>4. CASE Quits
    BY <1>4 DEF Quits
  <1>5. ASSUME NEW c \in Consumers, Starts(c) \/ Chooses(c) \/ GoesOnConsuming(c)
        PROVE  Quiet /\ UNCHANGED <<taken, alarm, buffer, in, data>>
    BY <1>5 DEF Starts, Chooses, GoesOnConsuming
  <1>6. ASSUME NEW c \in Consumers, Opens(c)
        PROVE  Quiet /\ UNCHANGED <<taken, alarm, buffer, in, data>>
    <2>1. Goes(c, "open", "menu") \/ Goes(c, "open", "open") \/ Goes(c, "open", "off")
      BY <1>6 DEF Opens, Goes
    <2> QED BY <1>6, <2>1 DEF Opens
  <1>7. CASE UNCHANGED vars
    BY <1>7
  <1> QED BY <1>1, <1>2, <1>3, <1>4, <1>5, <1>6, <1>7 DEF Next, Produces, Consumes

-----------------------------------------------------------------------------
(* The semaphores.                                                         *)

\* A process that waits or posts in work() has its place from then on, or gives it
\* back, and so with the buffer.
LEMMA LocksAccounts ==
  ASSUME Bounds, TypeOK, SemaphoreAccounts, NEW p \in Procs,
         NEW mine \in {"e", "n"}, NEW other \in {"e", "n"} \ {mine}, Locks(p, mine, other)
  PROVE  SemaphoreAccounts' /\ sem' \in [{"e", "n", "s"} -> Nat]
  <1> DEFINE Inner == {"inside", "leave"}
  <1>1. /\ sem \in [{"e", "n", "s"} -> Nat] /\ Size \in Nat
        /\ sem["e"] + sem["n"] + Cardinality(At(Middle)) = Size
        /\ sem["s"] + Cardinality(At(Inner)) = 1
    BY DEF TypeOK, SemaphoreAccounts, Hands, Owners, Bounds, Middle
  <1>2. CASE Goes(p, "work", "enter") /\ SemWait(mine)
    <2>1. /\ Cardinality(At(Middle)') = Cardinality(At(Middle)) + 1
          /\ At(Inner)' = At(Inner) /\ Cardinality(At(Middle)) \in Nat
      BY <1>2, Moves DEF Middle
    <2>2. /\ sem' \in [{"e", "n", "s"} -> Nat] /\ sem'["s"] = sem["s"]
          /\ sem'["e"] + sem'["n"] = sem["e"] + sem["n"] - 1
      BY <1>1, <1>2 DEF SemWait
    <2> QED BY <1>1, <2>1, <2>2 DEF SemaphoreAccounts, Hands, Owners, Middle
  <1>3. CASE Goes(p, "enter", "inside") /\ SemWait("s")
    <2>1. /\ Cardinality(At(Inner)') = Cardinality(At(Inner)) + 1
          /\ At(Middle)' = At(Middle) /\ Cardinality(At(Inner)) \in Nat
      BY <1>3, Moves DEF Middle
    <2>2. /\ sem' \in [{"e", "n", "s"} -> Nat] /\ sem'["s"] = sem["s"] - 1
          /\ sem'["e"] = sem["e"] /\ sem'["n"] = sem["n"]
      BY <1>1, <1>3 DEF SemWait
    <2> QED BY <1>1, <2>1, <2>2 DEF SemaphoreAccounts, Hands, Owners, Middle
  <1>4. CASE Goes(p, "leave", "announce") /\ SemPost("s")
    <2>1. /\ Cardinality(At(Inner)') = Cardinality(At(Inner)) - 1
          /\ At(Middle)' = At(Middle) /\ Cardinality(At(Inner)) \in Nat
      BY <1>4, Moves DEF Middle
    <2>2. /\ sem' \in [{"e", "n", "s"} -> Nat] /\ sem'["s"] = sem["s"] + 1
          /\ sem'["e"] = sem["e"] /\ sem'["n"] = sem["n"]
      BY <1>1, <1>4 DEF SemPost
    <2> QED BY <1>1, <2>1, <2>2 DEF SemaphoreAccounts, Hands, Owners, Middle
  <1>5. CASE Goes(p, "announce", "pause") /\ SemPost(other)
    <2>1. /\ Cardinality(At(Middle)') = Cardinality(At(Middle)) - 1
          /\ At(Inner)' = At(Inner) /\ Cardinality(At(Middle)) \in Nat
      BY <1>5, Moves DEF Middle
    <2>2. /\ sem' \in [{"e", "n", "s"} -> Nat] /\ sem'["s"] = sem["s"]
          /\ sem'["e"] + sem'["n"] = sem["e"] + sem["n"] + 1
      BY <1>1, <1>5 DEF SemPost
    <2> QED BY <1>1, <2>1, <2>2 DEF SemaphoreAccounts, Hands, Owners, Middle
  <1> QED BY <1>2, <1>3, <1>4, <1>5 DEF Locks

\* Every step keeps the sums, whoever resets, quits or starts meanwhile.
LEMMA AccountsStep ==
  ASSUME Bounds, TypeOK, WhereInv, SemaphoreAccounts, [Next]_vars
  PROVE  SemaphoreAccounts' /\ sem' \in [{"e", "n", "s"} -> Nat]
  <1>1. ASSUME Hands' = Hands, Owners' = Owners, UNCHANGED sem
        PROVE  SemaphoreAccounts' /\ sem' \in [{"e", "n", "s"} -> Nat]
    BY <1>1 DEF SemaphoreAccounts, TypeOK, Bounds
  <1>2. CASE Locks(P, "e", "n")
    BY <1>2, LocksAccounts DEF Procs
  <1>3. ASSUME NEW c \in Consumers, Locks(c, "n", "e")
        PROVE  SemaphoreAccounts' /\ sem' \in [{"e", "n", "s"} -> Nat]
    BY <1>3, LocksAccounts DEF Procs
  <1>4. CASE Appends \/ \E c \in Consumers : Takes(c)
    <2>1. PICK p \in Procs : Goes(p, "inside", "leave")
      BY <1>4 DEF Appends, Takes, Procs
    <2>2. Hands' = Hands /\ Owners' = Owners
      BY <2>1, Moves DEF Hands, Owners
    <2>3. UNCHANGED sem
      BY <1>4 DEF Appends, Takes
    <2> QED BY <1>1, <2>2, <2>3
  <1>5. CASE Quiet
    <2>1. CASE UNCHANGED pc
      BY <1>1, <1>5, <2>1 DEF Hands, Owners, At, Quiet
    <2>2. ASSUME NEW p \in Procs, NEW from \in Labels \ Middle, NEW to \in Labels \ Middle,
                 Goes(p, from, to)
          PROVE  Hands' = Hands /\ Owners' = Owners
      BY <2>2, Moves DEF Hands, Owners, Middle
    <2> QED BY <1>1, <1>5, <2>1, <2>2 DEF Quiet
  <1> QED BY <1>2, <1>3, <1>4, <1>5, Kinds

-----------------------------------------------------------------------------
(* Types, and where the producer is.                                       *)

\* The sums bound each semaphore.
LEMMA SemTypes ==
  ASSUME Bounds, TypeOK, WhereInv, SemaphoreAccounts, [Next]_vars
  PROVE  sem' \in [{"e", "n", "s"} -> 0..Size] /\ sem'["s"] <= 1
  <1>1. SemaphoreAccounts' /\ sem' \in [{"e", "n", "s"} -> Nat]
    BY AccountsStep
  <1>2. Cardinality(Hands') \in Nat /\ Cardinality(Owners') \in Nat
    BY FinitelyMany DEF Hands, Owners, At
  <1> QED BY <1>1, <1>2 DEF SemaphoreAccounts, Bounds

\* A process that goes somewhere is somewhere.
LEMMA GoesTypes ==
  ASSUME TypeOK, NEW p \in Procs, NEW from, NEW to \in Labels, Goes(p, from, to)
  PROVE  pc' \in [Procs -> Labels] /\ \A q \in Procs : pc'[q] = IF q = p THEN to ELSE pc[q]
  BY DEF Goes, TypeOK

Rest == TypeOK /\ WhereInv

\* The steps of work() leave everything but the semaphores and the labels.
LEMMA LocksTypes ==
  ASSUME Bounds, Rest, SemaphoreAccounts, [Next]_vars, NEW p \in Procs,
         NEW mine, NEW other, Locks(p, mine, other)
  PROVE  Rest'
  <1>1. UNCHANGED <<objVars, bufVars, step, conVars>>
    BY DEF Locks
  <1>2. sem' \in [{"e", "n", "s"} -> 0..Size] /\ sem'["s"] <= 1
    BY SemTypes DEF Rest
  <1>3. ASSUME NEW from \in {"work", "enter", "leave", "announce"},
               NEW to \in {"enter", "inside", "announce", "pause"}, Goes(p, from, to),
               to = "enter" => from = "work", to = "inside" => from = "enter"
        PROVE  Rest'
    <2>1. pc' \in [Procs -> Labels] /\ (\A q \in Procs : pc'[q] = IF q = p THEN to ELSE pc[q])
          /\ pc[p] = from
      BY <1>3, GoesTypes DEF Rest, Labels, Goes
    <2>2. TypeOK'
      BY <1>1, <1>2, <2>1 DEF Rest, TypeOK
    <2>3. P \in Procs /\ \A c \in Consumers : c \in Procs
      BY DEF Procs
    <2>4. pc'[P] \in {"work", "enter", "inside"} => data < MaxData
      BY <1>3, <2>1, <2>3 DEF Rest, WhereInv
    <2>5. \A q \in Procs : pc'[q] = pc[q]
                \/ {pc[q], pc'[q]} \cap {"create", "remove", "open", "reset", "off"} = {}
      BY <1>3, <2>1
    <2> QED BY <1>1, <2>2, <2>3, <2>4, <2>5 DEF Rest, WhereInv
  <1> QED BY <1>3 DEF Locks

\* The types after append.
LEMMA AppendsTypes ==
  ASSUME Bounds, Rest, Appends
  PROVE  Rest'
  <1> USE DEF Rest, TypeOK, Bounds
  <1>1. data < MaxData /\ P \in Procs /\ pc[P] = "inside"
    BY DEF Appends, Goes, WhereInv, Procs
  <1>2. pc' \in [Procs -> Labels] /\ \A q \in Procs : pc'[q] = IF q = P THEN "leave" ELSE pc[q]
    BY <1>1, GoesTypes DEF Appends, Labels
  <1>3. data' \in 0..MaxData /\ in' \in Nat /\ alarm' \in BOOLEAN
    BY <1>1 DEF Appends
  <1>4. buffer' \in [Places -> 0..MaxData]
    <2>1. data + 1 \in 0..MaxData
      BY <1>1
    <2> QED BY <2>1 DEF Appends
  <1>5. UNCHANGED <<objVars, sem, step, conVars>>
    BY DEF Appends
  <1> QED BY <1>1, <1>2, <1>3, <1>4, <1>5 DEF WhereInv, Procs

\* After take.
LEMMA TakesTypes ==
  ASSUME Bounds, Rest, NEW c \in Consumers, Takes(c)
  PROVE  Rest'
  <1> USE DEF Rest, TypeOK, Bounds
  <1>1. c \in Procs /\ c # P /\ out[c] \in Nat
    BY DEF Procs
  <1>2. pc' \in [Procs -> Labels] /\ \A q \in Procs : pc'[q] = IF q = c THEN "leave" ELSE pc[q]
    BY <1>1, GoesTypes, SMTT(30) DEF Takes, Labels
  <1>3. out[c] % Size \in Places
    BY <1>1, Division DEF Places
  <1>4. buffer' \in [Places -> 0..MaxData] /\ out' \in [Consumers -> Nat]
    BY <1>1, <1>3, SMTT(30) DEF Takes
  <1>5. taken' \in Seq(0..MaxData)
    BY <1>3 DEF Takes
  <1>6. UNCHANGED <<objVars, sem, in, data, alarm, step, starts>>
    BY DEF Takes
  <1> QED BY <1>1, <1>2, <1>4, <1>5, <1>6 DEF WhereInv, Procs

\* And in resetAll, which has places to reset as long as it goes on.
LEMMA ResetsTypes ==
  ASSUME Bounds, Rest, ResetsAll
  PROVE  Rest'
  <1> USE DEF Rest, TypeOK, Bounds
  <1>1. P \in Procs /\ 0 \in Places /\ step[P] \in Nat
    BY DEF Procs, Places
  <1>2. UNCHANGED <<objVars, sem, alarm, conVars>> /\ Resets
    BY DEF ResetsAll
  <1>3. CASE pc[P] = "menu" /\ buffer' = [buffer EXCEPT ![step[P]] = 0]
    BY <1>1, <1>2, <1>3 DEF ResetsAll, Goes, WhereInv, Labels, Procs
  <1>4. CASE pc[P] = "reset" /\ step[P] < Size /\ buffer' = [buffer EXCEPT ![step[P]] = 0]
    <2>1. step' = [step EXCEPT ![P] = step[P] + 1] /\ UNCHANGED <<in, data, pc>>
      BY <1>4 DEF ResetsAll, Goes
    <2>2. step' \in [Procs -> Nat] /\ step'[P] <= Size
      BY <1>1, <1>4, <2>1
    <2>3. step[P] \in Places
      BY <1>1, <1>4 DEF Places
    <2>4. buffer' \in [Places -> 0..MaxData]
      BY <1>4, <2>3
    <2> QED BY <1>2, <1>4, <2>1, <2>2, <2>4 DEF WhereInv
  <1>5. CASE Goes(P, "reset", "menu") /\ step[P] = Size /\ UNCHANGED buffer
    BY <1>1, <1>2, <1>5 DEF ResetsAll, Goes, WhereInv, Labels, Procs
  <1> QED BY <1>3, <1>4, <1>5 DEF ResetsAll

\* Every step keeps the types and the labels.
LEMMA RestStep ==
  ASSUME Bounds, Rest, SemaphoreAccounts, [Next]_vars
  PROVE  Rest'
  <1>1. /\ P \in Procs /\ (\A c \in Consumers : c \in Procs /\ c # P)
        /\ Len(Creation) = 5 /\ Len(Removal) = 4
    BY DEF Procs, Bounds, Creation, Removal
  <1>2. CASE Creates
    <2>1. pc' \in [Procs -> Labels] /\ \A q \in Procs : q # P => pc'[q] = pc[q]
      BY <1>1, <1>2 DEF Creates, Goes, Rest, TypeOK, Labels
    <2>2. pc[P] = "create" /\ pc'[P] = IF made + 1 = 5 THEN "menu" ELSE "create"
      BY <1>1, <1>2 DEF Creates, Goes, Rest, TypeOK
    <2> QED BY <1>1, <1>2, <2>1, <2>2 DEF Creates, Rest, TypeOK, WhereInv
  <1>3. CASE StartsProducing \/ GoesOnProducing
    <2>1. PICK from \in {"menu", "pause"}, to \in {"work", "menu"} :
              Goes(P, from, to) /\ (to = "work" => data < MaxData)
      BY <1>3 DEF StartsProducing, GoesOnProducing
    <2>2. pc' \in [Procs -> Labels] /\ \A q \in Procs : pc'[q] = IF q = P THEN to ELSE pc[q]
      BY <1>1, <2>1, GoesTypes DEF Rest, Labels
    <2>3. UNCHANGED <<objVars, sem, bufVars, step, conVars>> /\ pc[P] = from
      BY <1>3, <2>1 DEF StartsProducing, GoesOnProducing, Goes
    <2> QED BY <1>1, <2>1, <2>2, <2>3 DEF Rest, TypeOK, WhereInv
  <1>4. CASE Quits
    <2>1. pc' \in [Procs -> Labels] /\ (\A q \in Procs : q # P => pc'[q] = pc[q])
          /\ pc'[P] \in {"remove", "off"} /\ pc[P] \in {"menu", "remove"}
      BY <1>1, <1>4 DEF Quits, Goes, Rest, TypeOK, Labels
    <2>2. UNCHANGED <<made, sem, bufVars, step, conVars>>
      BY <1>4 DEF Quits
    <2>3. unmade' \in 0..4 /\ (pc'[P] = "remove" => unmade' < 4)
      <3>1. CASE Goes(P, "menu", "remove") /\ UNCHANGED unmade
        <4>1. unmade = 0
          BY <3>1 DEF Rest, WhereInv, Goes
        <4> QED BY <1>1, <3>1, <4>1 DEF Goes
      <3>2. CASE /\ Goes(P, "remove", IF unmade + 1 = Len(Removal) THEN "off" ELSE "remove")
                 /\ unmade' = unmade + 1
        <4>1. unmade \in 0..3
          BY <1>1, <3>2 DEF Rest, TypeOK, WhereInv, Goes
        <4>2. unmade + 1 = 4 => pc'[P] = "off"
          BY <1>1, <3>2 DEF Goes, Rest, TypeOK
        <4> QED BY <3>2, <4>1, <4>2
      <3> QED BY <1>4, <3>1, <3>2 DEF Quits
    <2> QED BY <1>1, <2>1, <2>2, <2>3 DEF Rest, TypeOK, WhereInv
  <1>5. ASSUME NEW c \in Consumers, Starts(c)
        PROVE  Rest'
    <2>1. pc' \in [Procs -> Labels] /\ \A q \in Procs : pc'[q] = IF q = c THEN "open" ELSE pc[q]
      BY <1>1, <1>5, GoesTypes DEF Rest, Labels, Starts
    <2>2. /\ starts' \in 0..MaxStarts /\ step' \in [Procs -> Nat] /\ step'[P] = step[P]
          /\ out' \in [Consumers -> Nat]
      BY <1>1, <1>5 DEF Starts, Rest, TypeOK, Bounds
    <2>3. UNCHANGED <<objVars, sem, bufVars, taken>>
      BY <1>5 DEF Starts
    <2> QED BY <1>1, <2>1, <2>2, <2>3 DEF Rest, TypeOK, WhereInv
  <1>6. ASSUME NEW c \in Consumers, Opens(c)
        PROVE  Rest'
    <2>1. pc' \in [Procs -> Labels] /\ (\A q \in Procs : q # c => pc'[q] = pc[q])
          /\ pc'[c] \in {"menu", "open", "off"}
      BY <1>1, <1>6 DEF Opens, Rest, TypeOK, Labels
    <2>2. step' \in [Procs -> Nat] /\ step'[P] = step[P]
      BY <1>1, <1>6 DEF Opens, Rest, TypeOK
    <2> QED BY <1>1, <1>6, <2>1, <2>2 DEF Opens, Rest, TypeOK, WhereInv
  <1>7. ASSUME NEW c \in Consumers, Chooses(c) \/ GoesOnConsuming(c)
        PROVE  Rest'
    <2>1. PICK from \in {"menu", "pause"}, to \in {"work", "off", "menu"} : Goes(c, from, to)
      BY <1>7 DEF Chooses, GoesOnConsuming
    <2>2. pc' \in [Procs -> Labels] /\ \A q \in Procs : pc'[q] = IF q = c THEN to ELSE pc[q]
      BY <1>1, <2>1, GoesTypes DEF Rest, Labels
    <2>3. UNCHANGED <<objVars, sem, bufVars, step, conVars>>
      BY <1>7 DEF Chooses, GoesOnConsuming
    <2> QED BY <1>1, <2>1, <2>2, <2>3 DEF Rest, TypeOK, WhereInv
  <1>8. CASE UNCHANGED vars
    BY <1>8 DEF Rest, TypeOK, WhereInv
  <1> QED BY <1>1, <1>2, <1>3, <1>4, <1>5, <1>6, <1>7, <1>8, LocksTypes, AppendsTypes,
             TakesTypes, ResetsTypes DEF Next, Produces, Consumes

-----------------------------------------------------------------------------
(* What is inside, for any number of consumers and without resets.         *)

\* Whether a process counts in Coming where it is.
Counts(p, label) ==
    (p = P /\ label \in {"leave", "announce"}) \/ (p \in Consumers /\ label \in {"enter", "inside"})

\* Who enters or leaves changes the number of numbers on their way by one, or not.
LEMMA ComingMoves ==
  ASSUME Bounds, TypeOK, NEW p \in Procs, NEW from, NEW to, Goes(p, from, to)
  PROVE  /\ (Counts(p, from) <=> Counts(p, to)) => Coming' = Coming
         /\ ~Counts(p, from) /\ Counts(p, to) =>
                Cardinality(Coming') = Cardinality(Coming) + 1
         /\ Counts(p, from) /\ ~Counts(p, to) =>
                Cardinality(Coming') = Cardinality(Coming) - 1
         /\ Cardinality(Coming) \in Nat
  <1>1. /\ \A q \in Procs : q \in Coming <=> Counts(q, pc[q])
        /\ \A q \in Procs : q \in Coming' <=> Counts(q, pc'[q])
        /\ Coming \in SUBSET Procs /\ Coming' \in SUBSET Procs
    BY DEF Coming, Counts, At, Procs, Bounds
  <1>2. pc[p] = from /\ \A q \in Procs : pc'[q] = IF q = p THEN to ELSE pc[q]
    BY DEF Goes, TypeOK
  <1>3. \A q \in Procs : q # p => (q \in Coming' <=> q \in Coming)
    BY <1>1, <1>2
  <1>4. IsFiniteSet(Coming) /\ Cardinality(Coming) \in Nat
    BY <1>1, FinitelyMany
  <1>5. ASSUME Counts(p, from) <=> Counts(p, to)
        PROVE  Coming' = Coming
    BY <1>1, <1>2, <1>3, <1>5
  <1>6. ASSUME ~Counts(p, from), Counts(p, to)
        PROVE  Cardinality(Coming') = Cardinality(Coming) + 1
    <2>1. Coming' = Coming \cup {p} /\ p \notin Coming
      BY <1>1, <1>2, <1>3, <1>6
    <2> QED BY <1>4, <2>1, FS_AddElement
  <1>7. ASSUME Counts(p, from), ~Counts(p, to)
        PROVE  Cardinality(Coming') = Cardinality(Coming) - 1
    <2>1. Coming' = Coming \ {p} /\ p \in Coming
      BY <1>1, <1>2, <1>3, <1>7
    <2> QED BY <1>4, <2>1, FS_RemoveElement
  <1> QED BY <1>4, <1>5, <1>6, <1>7

\* A number that is announced stays inside; one that is promised is still there.
LEMMA InsideStep ==
  ASSUME Bounds, Rest, InsideInv, [Next]_vars
  PROVE  InsideInv'
  <1> SUFFICES ASSUME ~Resets
               PROVE  in' = data' /\ in' = Len(taken') + sem'["n"] + Cardinality(Coming')
    BY DEF InsideInv
  <1>1. /\ in = data /\ in = Len(taken) + sem["n"] + Cardinality(Coming)
        /\ in \in Nat /\ Len(taken) \in Nat
        /\ sem \in [{"e", "n", "s"} -> Nat]
    BY DEF InsideInv, Rest, TypeOK, Bounds
  <1>2. P \in Procs /\ P \notin Consumers /\ \A c \in Consumers : c \in Procs /\ c # P
    BY DEF Procs, Bounds
  <1>3. CASE Locks(P, "e", "n")
    <2>1. UNCHANGED <<in, data, taken>>
      BY <1>3 DEF Locks
    <2>2. CASE Goes(P, "announce", "pause") /\ SemPost("n")
      <3>1. Cardinality(Coming') = Cardinality(Coming) - 1 /\ Cardinality(Coming) \in Nat
        BY <1>2, <2>2, ComingMoves DEF Rest, Counts
      <3>2. sem'["n"] = sem["n"] + 1
        BY <1>1, <2>2 DEF SemPost
      <3>3. in' = in /\ Len(taken') = Len(taken) /\ in' = data'
        BY <1>1, <2>1
      <3>4. sem["n"] + Cardinality(Coming) = sem'["n"] + Cardinality(Coming')
        BY <1>1, <3>1, <3>2
      <3>5. in' = Len(taken') + sem'["n"] + Cardinality(Coming')
        BY <1>1, <3>1, <3>2, <3>3, <3>4
      <3> QED BY <3>3, <3>5
    <2>3. ASSUME NEW from, NEW to, Goes(P, from, to), sem'["n"] = sem["n"],
                 Counts(P, from) <=> Counts(P, to)
          PROVE  in' = data' /\ in' = Len(taken') + sem'["n"] + Cardinality(Coming')
      <3>1. Coming' = Coming
        BY <1>2, <2>3, ComingMoves DEF Rest
      <3> QED BY <1>1, <2>1, <2>3, <3>1
    <2>4. SemWait("e") \/ SemWait("s") \/ SemPost("s") => sem'["n"] = sem["n"]
      BY <1>1 DEF SemWait, SemPost
    <2>5. /\ Counts(P, "work") <=> Counts(P, "enter")
          /\ Counts(P, "enter") <=> Counts(P, "inside")
          /\ Counts(P, "leave") <=> Counts(P, "announce")
      BY <1>2 DEF Counts
    <2> QED BY <1>3, <2>2, <2>3, <2>4, <2>5 DEF Locks
  <1>4. ASSUME NEW c \in Consumers, Locks(c, "n", "e")
        PROVE  in' = data' /\ in' = Len(taken') + sem'["n"] + Cardinality(Coming')
    <2>1. UNCHANGED <<in, data, taken>>
      BY <1>4 DEF Locks
    <2>2. CASE Goes(c, "work", "enter") /\ SemWait("n")
      <3>1. Cardinality(Coming') = Cardinality(Coming) + 1 /\ Cardinality(Coming) \in Nat
        BY <1>2, <2>2, ComingMoves DEF Rest, Counts
      <3>2. sem'["n"] = sem["n"] - 1
        BY <1>1, <2>2 DEF SemWait
      <3>3. in' = in /\ Len(taken') = Len(taken) /\ in' = data'
        BY <1>1, <2>1
      <3>4. sem["n"] + Cardinality(Coming) = sem'["n"] + Cardinality(Coming')
        BY <1>1, <3>1, <3>2
      <3>5. in' = Len(taken') + sem'["n"] + Cardinality(Coming')
        BY <1>1, <3>1, <3>2, <3>3, <3>4
      <3> QED BY <3>3, <3>5
    <2>3. ASSUME NEW from, NEW to, Goes(c, from, to), sem'["n"] = sem["n"],
                 Counts(c, from) <=> Counts(c, to)
          PROVE  in' = data' /\ in' = Len(taken') + sem'["n"] + Cardinality(Coming')
      <3>1. Coming' = Coming
        BY <1>2, <2>3, ComingMoves DEF Rest
      <3> QED BY <1>1, <2>1, <2>3, <3>1
    <2>4. SemWait("s") \/ SemPost("s") \/ SemPost("e") => sem'["n"] = sem["n"]
      BY <1>1 DEF SemWait, SemPost
    <2>5. /\ Counts(c, "enter") <=> Counts(c, "inside")
          /\ Counts(c, "leave") <=> Counts(c, "announce")
          /\ Counts(c, "announce") <=> Counts(c, "pause")
      BY <1>2 DEF Counts
    <2> QED BY <1>4, <2>2, <2>3, <2>4, <2>5 DEF Locks
  <1>5. CASE Appends
    <2>1. Cardinality(Coming') = Cardinality(Coming) + 1 /\ Cardinality(Coming) \in Nat
      BY <1>2, <1>5, ComingMoves DEF Appends, Rest, Counts
    <2>2. in' = in + 1 /\ in' = data' /\ taken' = taken /\ sem' = sem
      BY <1>1, <1>5 DEF Appends
    <2>3. in' = Len(taken') + sem'["n"] + Cardinality(Coming')
      BY <1>1, <2>1, <2>2
    <2> QED BY <2>2, <2>3
  <1>6. ASSUME NEW c \in Consumers, Takes(c)
        PROVE  in' = data' /\ in' = Len(taken') + sem'["n"] + Cardinality(Coming')
    <2>1. Cardinality(Coming') = Cardinality(Coming) - 1 /\ Cardinality(Coming) \in Nat
      BY <1>2, <1>6, ComingMoves DEF Takes, Rest, Counts
    <2>2. Len(taken') = Len(taken) + 1
      BY <1>6 DEF Takes, Rest, TypeOK
    <2>3. in' = in /\ in' = data' /\ sem' = sem
      BY <1>1, <1>6 DEF Takes
    <2>4. in' = Len(taken') + sem'["n"] + Cardinality(Coming')
      BY <1>1, <2>1, <2>2, <2>3
    <2> QED BY <2>3, <2>4
  <1>7. CASE Quiet /\ UNCHANGED <<taken, alarm>> /\ UNCHANGED <<buffer, in, data>>
    <2>1. Coming' = Coming
      <3>1. CASE UNCHANGED pc
        BY <3>1 DEF Coming, At
      <3>2. ASSUME NEW p \in Procs, NEW from \in Labels \ Middle, NEW to \in Labels \ Middle,
                   Goes(p, from, to)
            PROVE  Coming' = Coming
        BY <3>2, ComingMoves DEF Counts, Middle, Rest
      <3> QED BY <1>7, <3>1, <3>2 DEF Quiet
    <2> QED BY <1>1, <1>7, <2>1 DEF Quiet
  <1> QED BY <1>3, <1>4, <1>5, <1>6, <1>7, Kinds DEF Rest

\* There is a place for who appends, and a number for who takes.
LEMMA Room ==
  ASSUME Bounds, TypeOK, SemaphoreAccounts, InsideInv, ~Resets
  PROVE  /\ Len(taken) \in Nat /\ in \in Nat
         /\ Len(taken) <= in /\ in <= Len(taken) + Size
         /\ pc[P] = "inside" => in < Len(taken) + Size
         /\ \A c \in Consumers : pc[c] = "inside" => Len(taken) < in
  <1>1. /\ in = Len(taken) + sem["n"] + Cardinality(Coming)
        /\ in \in Nat /\ Len(taken) \in Nat
        /\ sem["e"] \in Nat /\ sem["n"] \in Nat /\ Size \in Nat
        /\ sem["e"] + sem["n"] + Cardinality(Hands) = Size
    BY DEF InsideInv, TypeOK, Bounds, SemaphoreAccounts
  <1>2. Hands \in SUBSET Procs /\ Coming \in SUBSET Hands
    BY DEF Coming, Hands, At, Procs
  <1>3. /\ IsFiniteSet(Hands) /\ Cardinality(Hands) \in Nat
        /\ IsFiniteSet(Coming) /\ Cardinality(Coming) \in Nat
        /\ Cardinality(Coming) <= Cardinality(Hands)
    BY <1>2, FinitelyMany, FS_Subset
  <1>4. ASSUME pc[P] = "inside"
        PROVE  Cardinality(Coming) < Cardinality(Hands)
    <2>1. P \in Hands /\ P \notin Coming
      BY <1>4 DEF Coming, Hands, At, Procs, Bounds
    <2> QED BY <1>2, <1>3, <2>1, FS_Subset
  <1>5. ASSUME NEW c \in Consumers, pc[c] = "inside"
        PROVE  Cardinality(Coming) > 0
    <2>1. c \in Coming
      BY <1>5 DEF Coming, At, Procs
    <2> QED BY <1>3, <2>1, FS_EmptySet
  <1> QED BY <1>1, <1>3, <1>4, <1>5

-----------------------------------------------------------------------------
(* The ring, for one consumer that is started once.                        *)

Ring == InsideInv /\ RingInv

\* The consumer has an index, and numbers to print, only while it runs.
Alone ==
    /\ starts = 0 => taken = <<>> /\ \A c \in Consumers : pc[c] = "off"
    /\ \A c \in Consumers : pc[c] # "off" =>
            out[c] = Len(taken) /\ \A d \in Consumers : pc[d] # "off" => d = c

\* Every step keeps that.
LEMMA AloneStep ==
  ASSUME Bounds, Rest, Alone, MaxStarts = 1, [Next]_vars
  PROVE  Alone'
  <1>1. /\ pc \in [Procs -> Labels] /\ starts \in Nat /\ out \in [Consumers -> Nat]
        /\ \A c \in Consumers : c \in Procs /\ c # P
    BY DEF Rest, TypeOK, Bounds, Procs
  <1>2. ASSUME UNCHANGED <<starts, taken, out>>,
               \A c \in Consumers : pc'[c] = pc[c] \/ pc[c] # "off"
        PROVE  Alone'
    BY <1>2 DEF Alone
  <1>3. ASSUME NEW from, NEW to, NEW p \in Procs, Goes(p, from, to), p = P \/ from # "off"
        PROVE  \A c \in Consumers : pc'[c] = pc[c] \/ pc[c] # "off"
    BY <1>1, <1>3 DEF Goes
  <1>4. CASE Creates \/ StartsProducing \/ Produces \/ ResetsAll \/ Quits
    <2>1. UNCHANGED <<starts, taken, out>>
      BY <1>4 DEF Creates, StartsProducing, Produces, Locks, Appends, GoesOnProducing,
                  ResetsAll, Quits
    <2>2. \A c \in Consumers : pc'[c] = pc[c]
      BY <1>1, <1>4 DEF Creates, StartsProducing, Produces, Locks, Appends, GoesOnProducing,
                        ResetsAll, Quits, Goes
    <2> QED BY <1>2, <2>1, <2>2
  <1>5. ASSUME NEW c \in Consumers, Starts(c)
        PROVE  Alone'
    <2>1. starts = 0 /\ starts' = 1
      BY <1>1, <1>5 DEF Starts
    <2>2. taken' = <<>> /\ Len(<<>>) = 0 /\ \A d \in Consumers : pc[d] = "off"
      BY <1>5, <2>1 DEF Starts, Alone
    <2>3. /\ \A d \in Consumers : pc'[d] = IF d = c THEN "open" ELSE "off"
          /\ out'[c] = 0
      BY <1>1, <1>5, <2>2 DEF Starts, Goes
    <2> QED BY <2>1, <2>2, <2>3 DEF Alone
  <1>6. ASSUME NEW c \in Consumers,
               Opens(c) \/ Chooses(c) \/ Locks(c, "n", "e") \/ GoesOnConsuming(c)
        PROVE  Alone'
    <2>1. UNCHANGED <<starts, taken, out>>
      BY <1>6 DEF Opens, Chooses, Locks, GoesOnConsuming
    <2>2. \A d \in Consumers : pc'[d] = pc[d] \/ pc[d] # "off"
      BY <1>1, <1>6 DEF Opens, Chooses, Locks, GoesOnConsuming, Goes
    <2> QED BY <1>2, <2>1, <2>2
  <1>7. ASSUME NEW c \in Consumers, Takes(c)
        PROVE  Alone'
    <2>1. pc[c] = "inside" /\ \A d \in Consumers : pc'[d] = IF d = c THEN "leave" ELSE pc[d]
      BY <1>1, <1>7 DEF Takes, Goes
    <2>2. out[c] = Len(taken) /\ starts # 0 /\ \A d \in Consumers : pc[d] # "off" => d = c
      BY <2>1 DEF Alone
    <2>3. Len(taken') = Len(taken) + 1
      BY <1>7 DEF Takes, Rest, TypeOK
    <2>4. out'[c] = Len(taken') /\ starts' = starts
      BY <1>1, <1>7, <2>2, <2>3 DEF Takes
    <2> QED BY <2>1, <2>2, <2>4 DEF Alone
  <1>8. CASE UNCHANGED vars
    BY <1>2, <1>8
  <1> QED BY <1>4, <1>5, <1>6, <1>7, <1>8 DEF Next, Consumes

\* The ring holds what has been produced and not taken.
Holding == RingHolds(buffer, Size, Len(taken), in)

\* append finds its place empty.
LEMMA AppendsRing ==
  ASSUME Bounds, Rest, SemaphoreAccounts, Ring, ~Resets, MaxStarts = 1, Appends
  PROVE  Holding /\ Holding' /\ NoAlarm' /\ TakenInOrder'
  <1> DEFINE m == Len(taken)
  <1>1. /\ m \in Nat /\ in \in Nat /\ m <= in /\ in < m + Size /\ in = data
        /\ Size \in Nat \ {0}
    BY Room DEF Rest, Ring, InsideInv, Appends, Goes, Bounds
  <1>2. Holding /\ ~alarm /\ TakenInOrder
    BY DEF Ring, RingInv, NoAlarm, Holding, RingHolds, Places
  <1>3. buffer \in [Places -> 0..MaxData] /\ in % Size \in Places /\ Places = 0 .. Size - 1
    BY <1>1, Division, SMTT(30) DEF Rest, TypeOK, Places
  <1>4. /\ UNCHANGED taken /\ in' = in + 1
        /\ alarm' = (alarm \/ buffer[in % Size] # 0)
        /\ \A x \in 0 .. Size - 1 : buffer'[x] = IF x = in % Size THEN in + 1 ELSE buffer[x]
    BY <1>1, <1>3 DEF Appends
  <1> HIDE DEF m
  <1>5. buffer[in % Size] = 0 /\ RingHolds(buffer', Size, m, in + 1)
    BY <1>1, <1>2, <1>4, Fills DEF Holding, m
  <1> QED BY <1>2, <1>4, <1>5 DEF NoAlarm, TakenInOrder, Holding, m

\* The consumer finds the oldest number at its index.
LEMMA TakesRing ==
  ASSUME Bounds, Rest, SemaphoreAccounts, Ring, ~Resets, MaxStarts = 1,
         NEW c \in Consumers, Takes(c)
  PROVE  Holding /\ Holding' /\ NoAlarm' /\ TakenInOrder' /\ Len(taken') = Len(taken) + 1
  <1> DEFINE m == Len(taken)
  <1>1. /\ m \in Nat /\ in \in Nat /\ m < in /\ in <= m + Size
        /\ Size \in Nat \ {0}
    BY Room DEF Rest, Ring, InsideInv, Takes, Goes, Bounds
  <1>2. Holding /\ ~alarm /\ TakenInOrder /\ out[c] = m
    BY DEF Ring, RingInv, NoAlarm, Takes, Goes, Holding, RingHolds, Places
  <1>3. buffer \in [Places -> 0..MaxData] /\ m % Size \in Places /\ Places = 0 .. Size - 1
    BY <1>1, Division, SMTT(30) DEF Rest, TypeOK, Places
  <1>4. /\ UNCHANGED <<in, alarm>> /\ taken' = Append(taken, buffer[m % Size])
        /\ \A x \in 0 .. Size - 1 : buffer'[x] = IF x = m % Size THEN 0 ELSE buffer[x]
    <2>1. /\ UNCHANGED <<in, alarm>> /\ taken' = Append(taken, buffer[out[c] % Size])
          /\ buffer' = [buffer EXCEPT ![out[c] % Size] = 0]
      BY DEF Takes
    <2>2. out[c] = m
      BY <1>2
    <2> HIDE DEF m
    <2> QED BY <1>3, <2>1, <2>2
  <1>5. buffer[m % Size] = m + 1 /\ RingHolds(buffer', Size, m + 1, in)
    <2> HIDE DEF m
    <2> QED BY <1>1, <1>2, <1>4, Drains DEF Holding, m
  <1>6. /\ Len(taken') = m + 1 /\ DOMAIN taken = 1 .. m /\ DOMAIN taken' = 1 .. m + 1
        /\ taken'[m + 1] = m + 1 /\ \A k \in 1 .. m : taken'[k] = taken[k]
    BY <1>3, <1>4, <1>5 DEF Rest, TypeOK
  <1> HIDE DEF m
  <1>7. TakenInOrder'
    <2>1. \A k \in 1 .. m + 1 : k \in 1 .. m \/ k = m + 1
      BY <1>1
    <2> QED BY <1>2, <1>6, <2>1 DEF TakenInOrder
  <1> QED BY <1>2, <1>4, <1>5, <1>6, <1>7 DEF NoAlarm, Holding, m

\* Only append and take change the ring.
LEMMA RingStep ==
  ASSUME Bounds, Rest, SemaphoreAccounts, Ring, [Next]_vars
  PROVE  RingInv'
  <1> SUFFICES ASSUME ~Resets, MaxStarts = 1
               PROVE  RingInv'
    BY DEF RingInv
  <1>1. Alone'
    BY AloneStep DEF Ring, RingInv, Alone
  <1>2. CASE Appends
    BY <1>1, <1>2, AppendsRing DEF RingInv, Alone, Holding, RingHolds, Places
  <1>3. ASSUME NEW c \in Consumers, Takes(c)
        PROVE  RingInv'
    BY <1>1, <1>3, TakesRing DEF RingInv, Alone, Holding, RingHolds, Places
  <1>4. ASSUME UNCHANGED <<taken, alarm, buffer, in>>
        PROVE  RingInv'
    BY <1>1, <1>4 DEF Ring, RingInv, Alone, NoAlarm, TakenInOrder
  <1>5. \/ Locks(P, "e", "n") \/ \E c \in Consumers : Locks(c, "n", "e")
        \/ Quiet /\ UNCHANGED <<taken, alarm>> /\ UNCHANGED <<buffer, in, data>>
        => UNCHANGED <<taken, alarm, buffer, in>>
    BY DEF Locks
  <1> QED BY <1>2, <1>3, <1>4, <1>5, Kinds DEF Rest

-----------------------------------------------------------------------------
(* The theorems.                                                           *)

\* At the start nothing is inside and everybody is outside work().
LEMMA Start ==
  ASSUME Bounds, Init
  PROVE  IInv
  <1>1. P \in Procs /\ (\A c \in Consumers : c \in Procs /\ c # P) /\ Len(<<>>) = 0
        /\ Len(Creation) = 5 /\ Len(Removal) = 4
    BY DEF Procs, Bounds, Creation, Removal
  <1>2. TypeOK
    <2>1. /\ sem \in [{"e", "n", "s"} -> 0..Size] /\ sem["s"] <= 1
          /\ buffer \in [Places -> 0..MaxData] /\ pc \in [Procs -> Labels]
          /\ step \in [Procs -> Nat] /\ out \in [Consumers -> Nat]
      BY DEF Init, Bounds, Labels
    <2>2. made = 0 /\ unmade = 0 /\ in = 0 /\ data = 0 /\ starts = 0 /\ alarm = FALSE
      BY DEF Init
    <2>3. 0 \in 0..MaxData /\ 0 \in 0..MaxStarts /\ 0 \in 0..5 /\ 0 \in 0..4 /\ 0 \in Nat
      BY DEF Bounds
    <2>4. taken \in Seq(0..MaxData)
      BY EmptySeq DEF Init
    <2> QED BY <1>1, <2>1, <2>2, <2>3, <2>4 DEF TypeOK
  <1>3. WhereInv
    <2>1. /\ pc[P] = "create" /\ step[P] = 0 /\ made = 0 /\ unmade = 0
          /\ \A c \in Consumers : pc[c] = "off"
      BY <1>1 DEF Init
    <2> QED BY <1>1, <2>1 DEF WhereInv, Bounds
  <1>4. Hands = {} /\ Owners = {} /\ Coming = {} /\ Cardinality({}) = 0
    BY FS_EmptySet DEF Init, Hands, Owners, Coming, At
  <1>5. SemaphoreAccounts
    BY <1>4 DEF SemaphoreAccounts, Init, Bounds
  <1>6. InsideInv
    BY <1>1, <1>4 DEF InsideInv, Init
  <1>7. RingInv
    <2>1. taken = <<>> /\ Len(taken) = 0 /\ in = 0 /\ ~alarm
      BY <1>1 DEF Init
    <2>2. (\A c \in Consumers : pc[c] = "off") /\ (\A x \in Places : buffer[x] = 0)
      BY <1>1 DEF Init
    <2>3. 0 .. 0 - 1 = {} /\ DOMAIN <<>> = {}
      OBVIOUS
    <2> QED BY <2>1, <2>2, <2>3 DEF RingInv, NoAlarm, TakenInOrder
  <1> QED BY <1>2, <1>3, <1>5, <1>6, <1>7 DEF IInv

\* Every step keeps all parts of the invariant.
LEMMA Step ==
  ASSUME Bounds, IInv, [Next]_vars
  PROVE  IInv'
  BY AccountsStep, RestStep, InsideStep, RingStep DEF IInv, Rest, Ring

\* The labels, the semaphores and what is inside are as IInv says in every reachable
\* state.
THEOREM Invariance == ASSUME Bounds PROVE Spec => []IInv
  <1>1. Init => IInv
    BY Start
  <1>2. IInv /\ [Next]_vars => IInv'
    BY Step
  <1> QED BY <1>1, <1>2, PTL DEF Spec

\* The sums of work() are right for any number of consumers and places, whatever
\* users reset, start and quit.
THEOREM SemaphoresAddUp == ASSUME Bounds PROVE Spec => []SemaphoreAccounts
  <1>1. IInv => SemaphoreAccounts
    BY DEF IInv
  <1> QED BY <1>1, Invariance, PTL

\* One consumer prints 1, 2, 3, ..., and the producer never finds its place filled,
\* as long as nobody resets and the consumer is started once.
THEOREM PrintedInOrder ==
  ASSUME Bounds, ~Resets, MaxStarts = 1
  PROVE  Spec => [](TakenInOrder /\ NoAlarm)
  <1>1. IInv => TakenInOrder /\ NoAlarm
    BY DEF IInv, RingInv
  <1> QED BY <1>1, Invariance, PTL

-----------------------------------------------------------------------------
(* The refinement.                                                         *)

\* append puts the next number in, where there is a place.
LEMMA AppendsPuts ==
  ASSUME Bounds, IInv, ~Resets, MaxStarts = 1, Appends
  PROVE  Fifo!Put
  <1> DEFINE m == Len(taken)
  <1>1. /\ m \in Nat /\ in \in Nat /\ m <= in /\ in < m + Size /\ in = data
        /\ Size \in Nat \ {0}
    BY Room DEF IInv, InsideInv, Appends, Goes, Bounds
  <1>2. UNCHANGED taken /\ in' = in + 1 /\ data' = data + 1
    BY DEF Appends
  <1>3. RingHolds(buffer, Size, m, in) /\ RingHolds(buffer', Size, m, in + 1)
    BY <1>2, AppendsRing DEF IInv, Rest, Ring, Holding
  <1>4. Inside = Window(buffer, Size, m, in) /\ Inside' = Window(buffer', Size, m, in + 1)
    BY <1>2 DEF Inside, Window
  <1> HIDE DEF m
  <1>5. Len(Inside) = in - m
    BY <1>1, <1>3, <1>4, Reading, SMTT(30)
  <1>6. Inside' = Append(Inside, in + 1)
    BY <1>1, <1>3, <1>4, Puts
  <1> QED BY <1>1, <1>2, <1>5, <1>6 DEF Fifo!Put

\* take gets the oldest.
LEMMA TakesGets ==
  ASSUME Bounds, IInv, ~Resets, MaxStarts = 1, NEW c \in Consumers, Takes(c)
  PROVE  Fifo!Get
  <1> DEFINE m == Len(taken)
  <1>1. m \in Nat /\ in \in Nat /\ m < in /\ Size \in Nat \ {0}
    BY Room DEF IInv, Takes, Goes, Bounds
  <1>2. UNCHANGED <<in, data>>
    BY DEF Takes
  <1>3. /\ RingHolds(buffer, Size, m, in) /\ RingHolds(buffer', Size, m + 1, in)
        /\ Len(taken') = m + 1
    BY <1>2, TakesRing DEF IInv, Rest, Ring, Holding
  <1>4. Inside = Window(buffer, Size, m, in) /\ Inside' = Window(buffer', Size, m + 1, in)
    BY <1>2, <1>3 DEF Inside, Window
  <1> HIDE DEF m
  <1>5. Inside # <<>> /\ Inside' = Tail(Inside)
    BY <1>1, <1>3, <1>4, Gets
  <1> QED BY <1>2, <1>5 DEF Fifo!Get

\* With one consumer that is started once, and without resets, the buffer is a
\* bounded FIFO: every step puts the next number in, gets the oldest, or is none of
\* the FIFO's business.
THEOREM FifoImplemented ==
  ASSUME Bounds, ~Resets, MaxStarts = 1
  PROVE  Spec => ImplementsFifo
  <1>1. Init => Fifo!FifoInit
    <2> SUFFICES ASSUME Init PROVE Fifo!FifoInit
      OBVIOUS
    <2>1. IInv /\ data = 0 /\ in = 0 /\ Len(taken) = 0
      BY Start DEF Init
    <2>2. Inside = [k \in 1 .. 0 |-> buffer[(0 + k - 1) % Size]] /\ 1 .. 0 = {}
      BY <2>1 DEF Inside
    <2>3. Inside = <<>>
      BY <2>2
    <2> QED BY <2>1, <2>3 DEF Fifo!FifoInit
  <1>2. IInv /\ [Next]_vars => [Fifo!FifoNext]_(Fifo!fifoVars)
    <2> SUFFICES ASSUME IInv, [Next]_vars
                 PROVE  Fifo!FifoNext \/ UNCHANGED <<data, Inside>>
      BY DEF Fifo!fifoVars
    <2>1. CASE Appends
      BY <2>1, AppendsPuts DEF Fifo!FifoNext
    <2>2. ASSUME NEW c \in Consumers, Takes(c)
          PROVE  Fifo!FifoNext
      BY <2>2, TakesGets DEF Fifo!FifoNext
    <2>3. ASSUME UNCHANGED <<taken, buffer, in, data>>
          PROVE  UNCHANGED <<data, Inside>>
      BY <2>3 DEF Inside
    <2>4. \/ Locks(P, "e", "n") \/ \E c \in Consumers : Locks(c, "n", "e")
          \/ Quiet /\ UNCHANGED <<taken, alarm>> /\ UNCHANGED <<buffer, in, data>>
          => UNCHANGED <<taken, buffer, in, data>>
      BY DEF Locks
    <2> QED BY <2>1, <2>2, <2>3, <2>4, Kinds DEF IInv
  <1> QED BY <1>1, <1>2, Invariance, PTL DEF Spec, ImplementsFifo, Fifo!FifoSpec
=============================================================================
