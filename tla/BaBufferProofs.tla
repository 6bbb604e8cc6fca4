--------------------------- MODULE BaBufferProofs ---------------------------
(***************************************************************************)
(* Proofs about baproducer.c and baconsumer.c, for any number of producers *)
(* that agree on a size, any number of consumers, and whatever users       *)
(* choose: the semaphores add up, one creator is enough for nobody to      *)
(* crash, and the buffer is a bounded FIFO.                                *)
(***************************************************************************)
EXTENDS BaBufferProperties, RingLemmas, SequenceTheorems, FiniteSetTheorems, TLAPS

USE DEF vars, nameVars, bufVars, ownVars

\* What the numbers and the processes are.
Bounds ==
    /\ IsFiniteSet(Producers) /\ IsFiniteSet(Consumers) /\ Producers \cap Consumers = {}
    /\ TheSize \in Nat \ {0} /\ \A p \in Producers : SizeOf[p] = TheSize
    /\ Places \subseteq Nat /\ 0 .. TheSize - 1 \subseteq Places
    /\ MaxData \in Nat /\ MaxCreations \in Nat

Middle == {"enter", "inside", "write", "leave", "announce"}
Inner == {"inside", "write", "leave"}

-----------------------------------------------------------------------------
(* The names in their order.                                               *)

\* What a creator does at each step.
LEMMA Creating ==
  /\ Len(Creation) = 7 /\ Len(Opening) = 8 /\ Len(Removal) = 5
  /\ \A k \in 1..7 :
        /\ Creation[k] \in Names <=> k \notin {2, 4}
        /\ Creation[k] = "e" <=> k = 5
        /\ Creation[k] = "n" <=> k = 6
        /\ Creation[k] = "s" <=> k = 7
  <1>1. /\ Len(Creation) = 7 /\ Creation[1] = "buffer" /\ Creation[2] = "map" /\ Creation[3] = "pc"
        /\ Creation[4] = "pcmap" /\ Creation[5] = "e" /\ Creation[6] = "n" /\ Creation[7] = "s"
    BY DEF Creation
  <1>2. Len(Opening) = 8 /\ Len(Removal) = 5
    BY DEF Opening, Removal
  <1>3. \A k \in 1..7 : k = 1 \/ k = 2 \/ k = 3 \/ k = 4 \/ k = 5 \/ k = 6 \/ k = 7
    OBVIOUS
  <1> QED BY <1>1, <1>2, <1>3 DEF Names

\* What a process that opens the names does.
LEMMA Finding ==
  \A k \in 1..8 :
        /\ Opening[k] \in Names <=> k \notin {2, 3, 5}
        /\ Opening[k] = "map" <=> k = 2
        /\ Opening[k] = "size" <=> k = 3
        /\ Opening[k] = "s" <=> k = 8
  <1>1. /\ Opening[1] = "buffer" /\ Opening[2] = "map" /\ Opening[3] = "size" /\ Opening[4] = "pc"
        /\ Opening[5] = "pcmap" /\ Opening[6] = "e" /\ Opening[7] = "n" /\ Opening[8] = "s"
    BY DEF Opening
  <1>2. \A k \in 1..8 : k = 1 \/ k = 2 \/ k = 3 \/ k = 4 \/ k = 5 \/ k = 6 \/ k = 7 \/ k = 8
    OBVIOUS
  <1> QED BY <1>1, <1>2 DEF Names

-----------------------------------------------------------------------------
(* The processes that are somewhere.                                       *)

\* Processes are finitely many, wherever they are.
LEMMA FinitelyMany ==
  ASSUME Bounds
  PROVE  /\ IsFiniteSet(Procs)
         /\ \A S \in SUBSET Procs : IsFiniteSet(S) /\ Cardinality(S) \in Nat
  <1>1. IsFiniteSet(Procs)
    BY FS_Union DEF Bounds, Procs
  <1> QED BY <1>1, FS_Subset, FS_CardinalityType

\* Who goes somewhere is there, and nobody else moves.
LEMMA GoesTypes ==
  ASSUME TypeOK, NEW p \in Procs, NEW from, NEW to \in Labels, Goes(p, from, to)
  PROVE  /\ at' \in [Procs -> Labels] /\ at[p] = from
         /\ \A q \in Procs : at'[q] = IF q = p THEN to ELSE at[q]
  BY DEF Goes, TypeOK

\* The processes of a set that are at one of some labels, as f says where they are.
There(f, L, S) == {q \in Procs \cap S : f[q] \in L}

\* A process that goes from one label to another enters or leaves the sets it goes
\* between, and no other.
LEMMA Moves ==
  ASSUME Bounds, TypeOK, NEW p \in Procs, NEW from, NEW to, Goes(p, from, to), NEW L, NEW S
  PROVE  /\ (from \in L <=> to \in L) \/ p \notin S => There(at', L, S) = There(at, L, S)
         /\ from \notin L /\ to \in L /\ p \in S =>
                Cardinality(There(at', L, S)) = Cardinality(There(at, L, S)) + 1
         /\ from \in L /\ to \notin L /\ p \in S =>
                Cardinality(There(at', L, S)) = Cardinality(There(at, L, S)) - 1
         /\ Cardinality(There(at, L, S)) \in Nat /\ Cardinality(There(at', L, S)) \in Nat
  <1>1. /\ \A q \in Procs : at'[q] = IF q = p THEN to ELSE at[q]
        /\ at[p] = from
    BY DEF Goes, TypeOK
  <1> DEFINE A == There(at, L, S)  B == There(at', L, S)
  <1>2. /\ A \in SUBSET Procs /\ B \in SUBSET Procs
        /\ \A q \in Procs : q \in A <=> q \in S /\ at[q] \in L
        /\ \A q \in Procs : q \in B <=> q \in S /\ at'[q] \in L
    BY DEF There
  <1> HIDE DEF A, B
  <1>3. IsFiniteSet(A) /\ Cardinality(A) \in Nat /\ Cardinality(B) \in Nat
    BY <1>2, FinitelyMany
  <1>4. (from \in L <=> to \in L) \/ p \notin S => B = A
    BY <1>1, <1>2
  <1>5. ASSUME from \notin L, to \in L, p \in S
        PROVE  Cardinality(B) = Cardinality(A) + 1
    <2>1. B = A \cup {p} /\ p \notin A
      BY <1>1, <1>2, <1>5
    <2> QED BY <1>3, <2>1, FS_AddElement
  <1>6. ASSUME from \in L, to \notin L, p \in S
        PROVE  Cardinality(B) = Cardinality(A) - 1
    <2>1. B = A \ {p} /\ p \in A
      BY <1>1, <1>2, <1>6
    <2> QED BY <1>3, <2>1, FS_RemoveElement
  <1> QED BY <1>3, <1>4, <1>5, <1>6 DEF A, B

\* The processes between two semaphores, as sets of that kind.
LEMMA Everybody ==
  /\ Hands = There(at, Middle, Procs) /\ Owners = There(at, Inner, Procs)
  /\ Hands' = There(at', Middle, Procs) /\ Owners' = There(at', Inner, Procs)
  BY DEF Hands, Owners, At, Middle, Inner, There

-----------------------------------------------------------------------------
(* The kinds of steps.                                                     *)

\* Nobody enters or leaves the middle of work(), no name is made, and neither the
\* semaphores nor the indices change.
Quiet ==
    /\ UNCHANGED <<sem, value, in, out, taken, alarm, read>> /\ Known' = Known
    /\ \/ UNCHANGED at
       \/ \E p \in Procs, from \in Labels \ Middle, to \in Labels \ Middle :
            /\ Goes(p, from, to)
            /\ to = "work" /\ p \in Producers => value < MaxData

\* What a step can be.
LEMMA Kinds ==
  ASSUME Bounds, TypeOK, NamesInv, SizeInv, [Next]_vars
  PROVE  \/ \E p \in Producers : Locks(p, "e", "n") \/ Appends(p) \/ Creates(p)
         \/ \E c \in Consumers : Locks(c, "n", "e") \/ Takes(c)
         \/ \E p \in Procs : Reads(p)
         \/ Quiet
  <1> USE DEF Procs, Labels, Middle, Quiet, Known
  <1>1. ASSUME NEW p \in Procs, Opens(p)
        PROVE  Quiet
    <2>1. UNCHANGED <<sem, value, in, out, taken, alarm, read>> /\ Known' = Known
      BY <1>1 DEF Opens
    <2>2. \/ Goes(p, "open", "menu") \/ Goes(p, "open", "open") \/ Goes(p, "open", "off")
          \/ p \notin Producers /\ Goes(p, "open", "work")
      BY <1>1 DEF Opens, Continues, Goes
    <2> QED BY <2>1, <2>2
  <1>2. ASSUME NEW p \in Procs, GoesOn(p)
        PROVE  Quiet
    BY <1>2 DEF GoesOn, Goes
  <1>3. ASSUME NEW p \in Procs, Crashes(p)
        PROVE  Quiet
    BY <1>3 DEF Crashes
  <1>4. ASSUME NEW p \in Producers, Chooses(p)
        PROVE  Quiet
    BY <1>4 DEF Chooses
  <1>5. ASSUME NEW p \in Producers, Removes(p)
        PROVE  Quiet
    <2>1. Goes(p, "remove", "off") \/ Goes(p, "remove", "remove")
      BY <1>5 DEF Removes, Continues, Goes
    <2> QED BY <1>5, <2>1 DEF Removes
  <1>6. ASSUME NEW c \in Consumers, Starts(c)
        PROVE  Quiet
    BY <1>6 DEF Starts
  <1>7. CASE UNCHANGED vars
    BY <1>7
  <1> QED BY <1>1, <1>2, <1>3, <1>4, <1>5, <1>6, <1>7 DEF Next

-----------------------------------------------------------------------------
(* The semaphores.                                                         *)

\* Who is in work() with a semaphore is there after the last name was made.
LEMMA Working ==
  ASSUME TypeOK, NamesInv, NEW p \in Procs,
         p \in Hands \/ (at[p] = "work" /\ has[p] # {})
  PROVE  "s" \in Known
  BY DEF NamesInv, Hands, At

\* A process that waits or posts in work() has its place from then on, or gives it
\* back, and so with the buffer.
LEMMA LocksAccounts ==
  ASSUME Bounds, TypeOK, NamesInv, SemaphoreAccounts, NEW p \in Procs,
         NEW mine \in {"e", "n"}, NEW other \in {"e", "n"} \ {mine}, Locks(p, mine, other)
  PROVE  SemaphoreAccounts' /\ sem' \in [{"e", "n", "s"} -> Nat] /\ "s" \in Known
  <1> DEFINE M == Cardinality(Hands)  I == Cardinality(Owners)
             M1 == Cardinality(Hands')  I1 == Cardinality(Owners')
  <1>1. "s" \in Known /\ Known' = Known
    <2>1. p \in Hands \/ (at[p] = "work" /\ has[p] # {})
      BY DEF Locks, Goes, Hands, At
    <2> QED BY <2>1, Working DEF Locks, Known
  <1>2. /\ sem \in [{"e", "n", "s"} -> Nat] /\ TheSize \in Nat
        /\ sem["e"] + sem["n"] + M = TheSize /\ sem["s"] + I = 1
    BY <1>1 DEF TypeOK, SemaphoreAccounts, Bounds
  <1>3. M \in Nat /\ I \in Nat /\ M1 \in Nat /\ I1 \in Nat
    BY FinitelyMany DEF Hands, Owners, At
  <1>4. ASSUME sem' \in [{"e", "n", "s"} -> Nat],
               sem'["e"] + sem'["n"] + M1 = TheSize, sem'["s"] + I1 = 1
        PROVE  SemaphoreAccounts' /\ sem' \in [{"e", "n", "s"} -> Nat] /\ "s" \in Known
    BY <1>1, <1>4 DEF SemaphoreAccounts
  <1>5. CASE Goes(p, "work", "enter") /\ SemWait(mine)
    <2>1. M1 = M + 1 /\ I1 = I
      BY <1>5, Moves, Everybody DEF Middle, Inner
    <2>2. /\ sem' \in [{"e", "n", "s"} -> Nat] /\ sem'["s"] = sem["s"]
          /\ sem'["e"] + sem'["n"] = (sem["e"] + sem["n"]) - 1
      BY <1>2, <1>5 DEF SemWait
    <2> HIDE DEF M, I, M1, I1
    <2>3. sem["e"] \in Nat /\ sem["n"] \in Nat /\ sem'["e"] \in Nat /\ sem'["n"] \in Nat
      BY <1>2, <2>2
    <2>4. sem'["e"] + sem'["n"] + M1 = TheSize
      BY <1>2, <1>3, <2>1, <2>2, <2>3
    <2>5. sem'["s"] + I1 = 1
      BY <1>2, <2>1, <2>2
    <2> QED BY <1>4, <2>2, <2>4, <2>5
  <1>6. CASE Goes(p, "enter", "inside") /\ SemWait("s")
    <2>1. M1 = M /\ I1 = I + 1
      BY <1>6, Moves, Everybody DEF Middle, Inner
    <2>2. /\ sem' \in [{"e", "n", "s"} -> Nat] /\ sem'["s"] = sem["s"] - 1
          /\ sem'["e"] + sem'["n"] = sem["e"] + sem["n"]
      BY <1>2, <1>6 DEF SemWait
    <2> HIDE DEF M, I, M1, I1
    <2>3. sem'["e"] + sem'["n"] + M1 = TheSize
      BY <1>2, <2>1, <2>2
    <2>4. sem'["s"] + I1 = 1
      BY <1>2, <1>3, <2>1, <2>2
    <2> QED BY <1>4, <2>2, <2>3, <2>4
  <1>7. CASE Goes(p, "leave", "announce") /\ SemPost("s")
    <2>1. M1 = M /\ I1 = I - 1
      BY <1>7, Moves, Everybody DEF Middle, Inner
    <2>2. /\ sem' \in [{"e", "n", "s"} -> Nat] /\ sem'["s"] = sem["s"] + 1
          /\ sem'["e"] + sem'["n"] = sem["e"] + sem["n"]
      BY <1>2, <1>7 DEF SemPost
    <2> HIDE DEF M, I, M1, I1
    <2> QED BY <1>2, <1>3, <1>4, <2>1, <2>2
  <1>8. CASE Goes(p, "announce", "pause") /\ SemPost(other)
    <2>1. M1 = M - 1 /\ I1 = I
      BY <1>8, Moves, Everybody DEF Middle, Inner
    <2>2. /\ sem' \in [{"e", "n", "s"} -> Nat] /\ sem'["s"] = sem["s"]
          /\ sem'["e"] + sem'["n"] = sem["e"] + sem["n"] + 1
      BY <1>2, <1>8 DEF SemPost
    <2> HIDE DEF M, I, M1, I1
    <2> QED BY <1>2, <1>3, <1>4, <2>1, <2>2
  <1> HIDE DEF M, I, M1, I1
  <1> QED BY <1>5, <1>6, <1>7, <1>8 DEF Locks

\* A name that is made is known; a semaphore gets its value then, and keeps it when a
\* second creator comes.
LEMMA CreatesKnown ==
  ASSUME Bounds, TypeOK, NamesInv, SizeInv, NEW p \in Producers, Creates(p)
  PROVE  LET k == step[p] x == Creation[k] IN
         /\ p \in Procs /\ k \in 1..7 /\ at[p] = "create"
         /\ Known' = IF x \in Names THEN Known \cup {x} ELSE Known
         /\ "s" \in Known => UNCHANGED sem
         /\ "s" \notin Known =>
              /\ x = "s" => sem' = [sem EXCEPT !["s"] = 1]
              /\ x = "e" => \/ "e" \in Known /\ UNCHANGED sem
                            \/ "e" \notin Known /\ sem' = [sem EXCEPT !["e"] = TheSize]
              /\ x = "n" => \/ UNCHANGED sem
                            \/ sem' = [sem EXCEPT !["n"] = 0]
              /\ x \notin {"e", "n", "s"} => UNCHANGED sem
  <1> DEFINE k == step[p]  x == Creation[k]
  <1>1. /\ p \in Procs /\ k \in Nat /\ k >= 1 /\ k <= 7 /\ at[p] = "create" /\ size[p] = TheSize
        /\ DOMAIN sem = {"e", "n", "s"}
    BY DEF TypeOK, NamesInv, SizeInv, Creates, Continues, Goes, Procs
  <1>2. k \in 1..7
    BY <1>1
  <1>3. x \notin gone /\ UNCHANGED gone
    BY DEF Creates
  <1>4. \/ /\ x \in Names /\ names' = names \cup {x}
           /\ sem' = IF x \in DOMAIN sem /\ x \notin names
                     THEN [sem EXCEPT ![x] =
                               CASE x = "e" -> size[p] [] x = "n" -> 0 [] x = "s" -> 1]
                     ELSE sem
        \/ x \notin Names /\ UNCHANGED <<names, sem>>
    BY DEF Creates
  <1> HIDE DEF k, x
  <1>5. Known' = IF x \in Names THEN Known \cup {x} ELSE Known
    BY <1>3, <1>4 DEF Known
  <1>6. x \in {"e", "n", "s"} => x \in Names
    BY DEF Names
  <1>7. "s" \in Known => UNCHANGED sem
    BY <1>1, <1>3, <1>4 DEF Known, NamesInv
  <1>8. "s" \notin Known =>
              /\ x = "s" => sem' = [sem EXCEPT !["s"] = 1]
              /\ x = "e" => \/ "e" \in Known /\ UNCHANGED sem
                            \/ "e" \notin Known /\ sem' = [sem EXCEPT !["e"] = TheSize]
              /\ x = "n" => \/ UNCHANGED sem
                            \/ sem' = [sem EXCEPT !["n"] = 0]
              /\ x \notin {"e", "n", "s"} => UNCHANGED sem
    BY <1>1, <1>3, <1>4, <1>6 DEF Known
  <1> QED BY <1>1, <1>2, <1>5, <1>7, <1>8 DEF k, x

\* Every step keeps the sums, whoever quits, opens or crashes meanwhile. They begin
\* when the last semaphore is made, and nobody is at work before.
LEMMA AccountsStep ==
  ASSUME Bounds, TypeOK, NamesInv, SizeInv, SemaphoreAccounts, [Next]_vars
  PROVE  SemaphoreAccounts' /\ sem' \in [{"e", "n", "s"} -> Nat]
  <1>1. sem \in [{"e", "n", "s"} -> Nat] /\ TheSize \in Nat \ {0}
    BY DEF TypeOK, Bounds
  <1>2. ASSUME Hands' = Hands, Owners' = Owners, UNCHANGED sem, "s" \in Known' => "s" \in Known
        PROVE  SemaphoreAccounts' /\ sem' \in [{"e", "n", "s"} -> Nat]
    BY <1>1, <1>2 DEF SemaphoreAccounts
  <1>3. ASSUME NEW p \in Producers, Locks(p, "e", "n")
        PROVE  SemaphoreAccounts' /\ sem' \in [{"e", "n", "s"} -> Nat]
    BY <1>3, LocksAccounts DEF Procs
  <1>4. ASSUME NEW c \in Consumers, Locks(c, "n", "e")
        PROVE  SemaphoreAccounts' /\ sem' \in [{"e", "n", "s"} -> Nat]
    BY <1>4, LocksAccounts DEF Procs
  <1>5. ASSUME NEW p \in Producers, Creates(p)
        PROVE  SemaphoreAccounts' /\ sem' \in [{"e", "n", "s"} -> Nat]
    <2> DEFINE k == step[p]  x == Creation[k]
    <2>1. /\ p \in Procs /\ k \in 1..7 /\ at[p] = "create"
          /\ Known' = IF x \in Names THEN Known \cup {x} ELSE Known
          /\ "s" \in Known => UNCHANGED sem
          /\ "s" \notin Known /\ x = "s" => sem' = [sem EXCEPT !["s"] = 1]
          /\ "s" \notin Known /\ x = "e" =>
                UNCHANGED sem \/ sem' = [sem EXCEPT !["e"] = TheSize]
          /\ "s" \notin Known /\ x = "n" => UNCHANGED sem \/ sem' = [sem EXCEPT !["n"] = 0]
          /\ "s" \notin Known /\ x \notin {"e", "n", "s"} => UNCHANGED sem
      BY <1>5, CreatesKnown
    <2> HIDE DEF k, x
    <2>2. Hands' = Hands /\ Owners' = Owners
      <3>1. Goes(p, "create", "create") \/ Goes(p, "create", "menu")
        BY <1>5 DEF Creates, Continues, Goes
      <3> QED BY <2>1, <3>1, Moves, Everybody DEF Middle, Inner
    <2>3. CASE "s" \in Known
      BY <1>2, <2>1, <2>2, <2>3
    <2>4. CASE "s" \notin Known /\ x # "s"
      <3>1. "s" \notin Known' /\ sem' \in [{"e", "n", "s"} -> Nat]
        BY <1>1, <2>1, <2>4
      <3> QED BY <3>1 DEF SemaphoreAccounts
    <2>5. CASE "s" \notin Known /\ x = "s"
      <3>1. k = 7 /\ "e" \in Known
        <4>1. k = 7
          BY <2>1, <2>5, Creating DEF x
        <4> QED BY <2>1, <4>1 DEF NamesInv, k
      <3>2. sem["e"] = TheSize /\ sem["n"] = 0
        BY <2>5, <3>1 DEF NamesInv
      <3>3. Hands = {} /\ Owners = {}
        <4>1. Hands = {}
          BY <2>5, Working DEF Hands, At
        <4> QED BY <4>1 DEF Hands, Owners, At
      <3>4. Cardinality(Hands') = 0 /\ Cardinality(Owners') = 0
        BY <2>2, <3>3, FS_EmptySet
      <3>5. /\ sem' \in [{"e", "n", "s"} -> Nat] /\ sem'["e"] = TheSize /\ sem'["n"] = 0
            /\ sem'["s"] = 1
        BY <1>1, <2>1, <2>5, <3>2
      <3> QED BY <1>1, <3>4, <3>5 DEF SemaphoreAccounts
    <2> QED BY <2>3, <2>4, <2>5
  <1>6. ASSUME NEW p \in Procs, Reads(p) \/ Appends(p) \/ Takes(p)
        PROVE  SemaphoreAccounts' /\ sem' \in [{"e", "n", "s"} -> Nat]
    <2>1. UNCHANGED sem /\ Known' = Known
      BY <1>6 DEF Reads, Appends, Takes, Known
    <2>2. Goes(p, "inside", "write") \/ Goes(p, "write", "leave")
      BY <1>6 DEF Reads, Appends, Takes
    <2>3. Hands' = Hands /\ Owners' = Owners
      BY <2>2, Moves, Everybody DEF Middle, Inner
    <2> QED BY <1>2, <2>1, <2>3
  <1>7. CASE Quiet
    <2>1. CASE UNCHANGED at
      <3>1. Hands' = Hands /\ Owners' = Owners
        BY <2>1 DEF Hands, Owners, At
      <3> QED BY <1>2, <1>7, <3>1 DEF Quiet
    <2>2. ASSUME NEW p \in Procs, NEW from \in Labels \ Middle, NEW to \in Labels \ Middle,
                 Goes(p, from, to)
          PROVE  Hands' = Hands /\ Owners' = Owners
      BY <2>2, Moves, Everybody DEF Middle, Inner
    <2> QED BY <1>2, <1>7, <2>1, <2>2 DEF Quiet
  <1> QED BY <1>3, <1>4, <1>5, <1>6, <1>7, Kinds DEF Procs

-----------------------------------------------------------------------------
(* The names.                                                              *)

\* A step of a process that is not about names.
LEMMA NamesGo ==
  ASSUME TypeOK, NamesInv, NEW p \in Procs,
         NEW from, NEW to \in Labels, Goes(p, from, to),
         from \notin {"create", "open", "remove", "off"}, to \in Middle => has[p] # {},
         Known' = Known, UNCHANGED <<has, step>>, "s" \in Known \/ UNCHANGED sem
  PROVE  NamesInv'
  <1>1. at[p] = from /\ \A q \in Procs : at'[q] = IF q = p THEN to ELSE at[q]
    BY GoesTypes
  <1>2. \A q \in Procs : q \in Hands' => has[q] # {}
    <2>1. \A q \in Procs : /\ q \in Hands <=> at[q] \in Middle
                           /\ q \in Hands' <=> at'[q] \in Middle
      BY DEF Hands, At, Middle
    <2> QED BY <1>1, <2>1 DEF NamesInv
  <1>3. \A q \in Procs :
            /\ at'[q] \notin {"create", "open", "off"} /\ has[q] # {} => "s" \in Known
            /\ at'[q] = "create" =>
                step[q] <= 7 /\ (step[q] > 5 => "e" \in Known) /\ (step[q] > 6 => "n" \in Known)
            /\ at'[q] = "remove" => step[q] <= 5
            /\ at'[q] \notin {"create", "open", "remove"} => step[q] = 1
    <2> TAKE q \in Procs
    <2>1. CASE q # p
      BY <1>1, <2>1 DEF NamesInv
    <2>2. CASE q = p
      <3>1. step[p] = 1 /\ (has[p] # {} => "s" \in Known)
        BY <1>1 DEF NamesInv
      <3> QED BY <2>2, <3>1
    <2> QED BY <2>1, <2>2
  <1> QED BY <1>2, <1>3 DEF NamesInv

\* Making a name.
LEMMA NamesCreate ==
  ASSUME Bounds, TypeOK, NamesInv, SizeInv, NEW p \in Producers, Creates(p)
  PROVE  NamesInv'
  <1> DEFINE k == step[p]  x == Creation[k]
  <1>1. /\ p \in Procs /\ k \in 1..7 /\ at[p] = "create"
        /\ Known' = IF x \in Names THEN Known \cup {x} ELSE Known
        /\ "s" \notin Known /\ x = "e" =>
                ("e" \in Known /\ UNCHANGED sem) \/ sem' = [sem EXCEPT !["e"] = TheSize]
        /\ "s" \notin Known /\ x = "n" => UNCHANGED sem \/ sem' = [sem EXCEPT !["n"] = 0]
        /\ "s" \notin Known /\ x \notin {"e", "n", "s"} => UNCHANGED sem
    BY CreatesKnown
  <1>2. /\ x \in Names <=> k \notin {2, 4}
        /\ x = "e" <=> k = 5
        /\ x = "n" <=> k = 6
        /\ x = "s" <=> k = 7
    BY <1>1, Creating
  <1>3. /\ Goes(p, "create", IF k = 7 THEN "menu" ELSE "create")
        /\ step' = [step EXCEPT ![p] = IF k = 7 THEN 1 ELSE k + 1]
    BY Creating DEF Creates, Continues
  <1>4. \A q \in Procs : has'[q] \subseteq Known' /\ (q # p => has'[q] = has[q])
    <2>1. \/ x \in Names /\ has' = [has EXCEPT ![p] = IF x \in names THEN @ \ {x} ELSE @ \cup {x}]
          \/ has' = has
      BY DEF Creates
    <2> HIDE DEF x
    <2>2. has \in [Procs -> SUBSET Names] /\ \A q \in Procs : has[q] \subseteq Known
      BY DEF NamesInv, TypeOK
    <2>3. \A q \in Procs : q # p => has'[q] = has[q]
      BY <2>1, <2>2
    <2>4. has'[p] \subseteq Known'
      <3>1. has'[p] = has[p] \/ has'[p] = has[p] \ {x} \/ (x \in Names /\ has'[p] = has[p] \cup {x})
        BY <1>1, <2>1, <2>2
      <3> QED BY <1>1, <2>2, <3>1
    <2> QED BY <1>1, <2>2, <2>3, <2>4
  <1>5. /\ \A q \in Procs : at'[q] = IF q # p THEN at[q] ELSE IF k = 7 THEN "menu" ELSE "create"
        /\ \A q \in Procs : step'[q] = IF q # p THEN step[q] ELSE IF k = 7 THEN 1 ELSE k + 1
    BY <1>1, <1>3 DEF Goes, TypeOK
  <1> HIDE DEF k, x
  <1>6. k > 5 => "e" \in Known
    BY <1>1 DEF NamesInv, k
  <1>7. k > 6 => "n" \in Known
    BY <1>1 DEF NamesInv, k
  <1>8. Known \subseteq Known' /\ (x \in Names => x \in Known') /\ {"e", "n", "s"} \subseteq Names
    BY <1>1 DEF Names
  <1>9. "s" \in Known' => {"e", "n"} \subseteq Known'
    BY <1>1, <1>2, <1>6, <1>7, <1>8 DEF NamesInv
  <1>10. "s" \notin Known' => sem'["e"] = (IF "e" \in Known' THEN TheSize ELSE 0) /\ sem'["n"] = 0
    <2> SUFFICES ASSUME "s" \notin Known'
                 PROVE  sem'["e"] = (IF "e" \in Known' THEN TheSize ELSE 0) /\ sem'["n"] = 0
      OBVIOUS
    <2>1. "s" \notin Known /\ x # "s"
      BY <1>1, <1>8
    <2>2. sem["e"] = (IF "e" \in Known THEN TheSize ELSE 0) /\ sem["n"] = 0
      BY <2>1 DEF NamesInv
    <2>3. sem \in [{"e", "n", "s"} -> 0..TheSize]
      BY DEF TypeOK
    <2>4. CASE x = "e"
      BY <1>1, <1>8, <2>1, <2>2, <2>3, <2>4
    <2>5. CASE x = "n"
      BY <1>1, <1>8, <2>1, <2>2, <2>3, <2>5
    <2>6. CASE x \notin {"e", "n", "s"}
      BY <1>1, <1>8, <2>1, <2>2, <2>3, <2>6
    <2> QED BY <2>1, <2>4, <2>5, <2>6
  <1>11. ASSUME NEW q \in Procs
         PROVE  /\ at'[q] \notin {"create", "open", "off"} /\ has'[q] # {} => "s" \in Known'
                /\ q \in Hands' => has'[q] # {}
                /\ at'[q] = "create" => /\ step'[q] <= 7 /\ (step'[q] > 5 => "e" \in Known')
                                        /\ (step'[q] > 6 => "n" \in Known')
                /\ at'[q] = "remove" => step'[q] <= 5
                /\ at'[q] \notin {"create", "open", "remove"} => step'[q] = 1
    <2>1. /\ q \in Hands <=> at[q] \in Middle
          /\ q \in Hands' <=> at'[q] \in Middle
      BY DEF Hands, At, Middle
    <2>2. CASE q # p
      BY <1>4, <1>5, <1>8, <2>1, <2>2 DEF NamesInv
    <2>3. CASE q = p /\ k = 7
      BY <1>2, <1>5, <1>8, <2>1, <2>3 DEF Middle
    <2>4. CASE q = p /\ k # 7
      <3>1. at'[q] = "create" /\ step'[q] = k + 1 /\ k + 1 <= 7 /\ (k + 1 > 5 => k = 5 \/ k > 5)
            /\ (k + 1 > 6 => k = 6)
        BY <1>1, <1>5, <2>4
      <3> QED BY <1>2, <1>6, <1>8, <2>1, <3>1 DEF Middle
    <2> QED BY <2>2, <2>3, <2>4
  <1> QED BY <1>4, <1>9, <1>10, <1>11 DEF NamesInv

\* Finding one, or not.
LEMMA NamesOpen ==
  ASSUME Bounds, TypeOK, NamesInv, NEW p \in Procs, Opens(p)
  PROVE  NamesInv'
  <1> DEFINE k == step[p]  x == Opening[k]  end == IF p \in Producers THEN "menu" ELSE "work"
  <1>1. UNCHANGED sem /\ Known' = Known /\ k \in 1..8 /\ at[p] = "open"
    BY Creating DEF Opens, Known, TypeOK, Continues, Goes
  <1>2. CASE /\ Goes(p, "open", IF k = 8 THEN end ELSE "open")
             /\ step' = [step EXCEPT ![p] = IF k = 8 THEN 1 ELSE k + 1]
             /\ has' = [has EXCEPT ![p] = @ \cup ({x} \cap Names)]
             /\ x \in Names => x \in names
    <2>1. /\ \A q \in Procs : at'[q] = IF q # p THEN at[q] ELSE IF k = 8 THEN end ELSE "open"
          /\ \A q \in Procs : step'[q] = IF q # p THEN step[q] ELSE IF k = 8 THEN 1 ELSE k + 1
          /\ \A q \in Procs : has'[q] = IF q # p THEN has[q] ELSE has[q] \cup ({x} \cap Names)
      BY <1>2 DEF Goes, TypeOK
    <2>2. k = 8 => "s" \in Known
      BY <1>1, <1>2, Finding DEF Known, Names
    <2>3. \A q \in Procs : has'[q] \subseteq Known
      BY <1>2, <2>1 DEF NamesInv, Known
    <2> HIDE DEF k, x
    <2>4. ASSUME NEW q \in Procs
          PROVE  /\ at'[q] \notin {"create", "open", "off"} /\ has'[q] # {} => "s" \in Known
                 /\ q \in Hands' => has'[q] # {}
                 /\ at'[q] = "create" => /\ step'[q] <= 7 /\ (step'[q] > 5 => "e" \in Known)
                                         /\ (step'[q] > 6 => "n" \in Known)
                 /\ at'[q] = "remove" => step'[q] <= 5
                 /\ at'[q] \notin {"create", "open", "remove"} => step'[q] = 1
      <3>1. /\ q \in Hands <=> at[q] \in Middle
            /\ q \in Hands' <=> at'[q] \in Middle
        BY DEF Hands, At, Middle
      <3>2. CASE q # p
        BY <2>1, <3>1, <3>2 DEF NamesInv
      <3>3. CASE q = p
        BY <2>1, <2>2, <3>1, <3>3 DEF Middle
      <3> QED BY <3>2, <3>3
    <2> QED BY <1>1, <2>3, <2>4 DEF NamesInv
  <1>3. CASE Goes(p, "open", "off") /\ step' = [step EXCEPT ![p] = 1] /\ UNCHANGED has
    <2>1. /\ \A q \in Procs : at'[q] = IF q # p THEN at[q] ELSE "off"
          /\ \A q \in Procs : step'[q] = IF q # p THEN step[q] ELSE 1
      BY <1>3 DEF Goes, TypeOK
    <2>2. \A q \in Procs : q \in Hands' => has[q] # {}
      BY <2>1 DEF NamesInv, Hands, At
    <2> QED BY <1>1, <1>3, <2>1, <2>2 DEF NamesInv
  <1>4. Opened(p, x) /\ x \in Names => x \in names
    <2> HIDE DEF x
    <2> QED BY DEF Opened, Names
  <1> QED BY <1>2, <1>3, <1>4, Creating DEF Opens, Continues

\* Taking one away.
LEMMA NamesRemove ==
  ASSUME TypeOK, NamesInv, NEW p \in Producers, Removes(p)
  PROVE  NamesInv'
  <1> DEFINE k == step[p]
  <1>1. UNCHANGED <<sem, has>> /\ p \in Procs /\ at[p] = "remove"
    BY DEF Removes, Continues, Goes, Procs
  <1>2. Known' = Known
    <2>1. PICK x : names' = names \ {x} /\ gone' = gone \cup (names \cap {x})
      BY DEF Removes
    <2> QED BY <2>1 DEF Known
  <1>3. k \in Nat /\ k <= 5
    BY <1>1 DEF NamesInv, TypeOK
  <1>4. /\ \A q \in Procs : at'[q] = IF q # p THEN at[q] ELSE IF k = 5 THEN "off" ELSE "remove"
        /\ \A q \in Procs : step'[q] = IF q # p THEN step[q] ELSE IF k = 5 THEN 1 ELSE k + 1
    BY <1>1, Creating DEF Removes, Continues, Goes, TypeOK
  <1>5. \A q \in Procs : q \in Hands' => has[q] # {}
    BY <1>4 DEF NamesInv, Hands, At
  <1> HIDE DEF k
  <1>6. k # 5 => k + 1 <= 5
    BY <1>3
  <1> QED BY <1>1, <1>2, <1>4, <1>5, <1>6 DEF NamesInv

\* Whatever happens, the names come in their order.
LEMMA NamesStep ==
  ASSUME Bounds, TypeOK, NamesInv, SizeInv, [Next]_vars
  PROVE  NamesInv'
  <1>1. ASSUME NEW p \in Producers, Creates(p) \/ Removes(p)
        PROVE  NamesInv'
    BY <1>1, NamesCreate, NamesRemove
  <1>2. ASSUME NEW p \in Procs, Opens(p)
        PROVE  NamesInv'
    BY <1>2, NamesOpen
  <1>3. ASSUME NEW p \in Procs, GoesOn(p)
        PROVE  NamesInv'
    <2>1. Known' = Known /\ UNCHANGED <<has, step, sem>>
      BY <1>3 DEF GoesOn, Known
    <2>2. PICK to \in Labels \ Middle : Goes(p, "pause", to)
      BY <1>3 DEF GoesOn, Labels, Middle
    <2> QED BY <2>1, <2>2, NamesGo
  <1>4. ASSUME NEW p \in Producers, Chooses(p)
        PROVE  NamesInv'
    <2>1. Known' = Known /\ UNCHANGED <<has, step, sem>> /\ p \in Procs
      BY <1>4 DEF Chooses, Known, Procs
    <2>2. PICK to \in Labels \ Middle : Goes(p, "menu", to)
      BY <1>4 DEF Chooses, Labels, Middle
    <2> QED BY <2>1, <2>2, NamesGo
  <1>5. ASSUME NEW c \in Consumers, Starts(c)
        PROVE  NamesInv'
    <2>1. /\ Known' = Known /\ UNCHANGED <<step, sem>> /\ c \in Procs /\ at[c] = "off"
          /\ \A q \in Procs : /\ at'[q] = IF q = c THEN "open" ELSE at[q]
                              /\ has'[q] = IF q = c THEN {} ELSE has[q]
      BY <1>5 DEF Starts, Known, Procs, Goes, TypeOK
    <2>2. \A q \in Procs : q \in Hands' => q \in Hands /\ q # c
      BY <2>1 DEF Hands, At
    <2> QED BY <2>1, <2>2 DEF NamesInv
  <1>6. ASSUME NEW p \in Procs, NEW mine, NEW other, Locks(p, mine, other)
        PROVE  NamesInv'
    <2>1. Known' = Known /\ UNCHANGED <<has, step>> /\ at[p] \in {"work"} \cup Middle /\ has[p] # {}
      BY <1>6 DEF Locks, Known, Goes, Middle, NamesInv, Hands, At
    <2>2. "s" \in Known
      BY <2>1, Working DEF Hands, At, Middle
    <2>3. PICK from \in {"work"} \cup Middle, to \in Labels : Goes(p, from, to)
      BY <1>6 DEF Locks, Labels, Middle
    <2> QED BY <2>1, <2>2, <2>3, NamesGo DEF Middle
  <1>7. ASSUME NEW p \in Procs, Reads(p) \/ Appends(p) \/ Takes(p)
        PROVE  NamesInv'
    <2>1. Known' = Known /\ UNCHANGED <<has, step, sem>>
      BY <1>7 DEF Reads, Appends, Takes, Known
    <2>2. PICK from \in Middle, to \in Middle : Goes(p, from, to)
      BY <1>7 DEF Reads, Appends, Takes, Middle
    <2>3. has[p] # {} /\ Middle \subseteq Labels
      BY <2>2 DEF Goes, NamesInv, Hands, At, Middle, Labels
    <2> QED BY <2>1, <2>2, <2>3, NamesGo DEF Middle
  <1>8. ASSUME UNCHANGED <<names, gone, sem, at, step, has>>
        PROVE  NamesInv'
    BY <1>8 DEF NamesInv, Known, Hands, At
  <1>9. ASSUME NEW p \in Procs, Crashes(p)
        PROVE  NamesInv'
    BY <1>8, <1>9 DEF Crashes
  <1> QED BY <1>1, <1>2, <1>3, <1>4, <1>5, <1>6, <1>7, <1>8, <1>9 DEF Next, Procs

-----------------------------------------------------------------------------
(* The sizes.                                                              *)

\* Everybody at work has the size that the producers agree on: a producer from the
\* beginning, a consumer from the length of what it has opened.
LEMMA SizeStep ==
  ASSUME Bounds, TypeOK, NamesInv, SizeInv, [Next]_vars
  PROVE  SizeInv'
  <1> USE DEF Procs
  <1>1. ASSUME NEW p \in Procs, len' = len \/ len' = TheSize,
               \A q \in Procs \ {p} :
                    at'[q] = at[q] /\ step'[q] = step[q] /\ size'[q] = size[q],
               p \in Producers => size'[p] = TheSize,
               p \in Consumers => at'[p] \notin {"menu", "create", "remove"},
               at'[p] = "open" /\ step'[p] > 2 => len' = TheSize,
               (at'[p] = "open" /\ step'[p] > 3) \/ at'[p] \notin {"open", "off"} =>
                    size'[p] = TheSize
        PROVE  SizeInv'
    <2> SUFFICES ASSUME NEW q \in Procs
                 PROVE  /\ q \in Producers => size'[q] = TheSize
                        /\ q \in Consumers => at'[q] \notin {"menu", "create", "remove"}
                        /\ at'[q] = "open" /\ step'[q] > 2 => len' = TheSize
                        /\ (at'[q] = "open" /\ step'[q] > 3) \/ at'[q] \notin {"open", "off"} =>
                                size'[q] = TheSize
      BY DEF SizeInv
    <2>1. CASE q # p
      BY <1>1, <2>1 DEF SizeInv
    <2>2. CASE q = p
      BY <1>1, <2>2
    <2> QED BY <2>1, <2>2
  <1>2. ASSUME NEW p \in Procs, NEW from, NEW to, Goes(p, from, to),
               UNCHANGED size, len' = len \/ len' = TheSize,
               \A q \in Procs \ {p} : step'[q] = step[q],
               to = "open" => step'[p] = 1,
               p \in Consumers => /\ to \notin {"menu", "create", "remove"}
                                  /\ to \notin {"open", "off"} => from \notin {"open", "off"}
        PROVE  SizeInv'
    <2>1. at[p] = from /\ \A q \in Procs : at'[q] = IF q = p THEN to ELSE at[q]
      BY <1>2 DEF Goes, TypeOK
    <2>2. p \in Producers => size[p] = TheSize
      BY DEF SizeInv
    <2>3. p \in Consumers /\ from \notin {"open", "off"} => size[p] = TheSize
      BY <2>1 DEF SizeInv
    <2>4. at'[p] = to /\ size'[p] = size[p] /\ (at'[p] = "open" => ~ step'[p] > 2 /\ ~ step'[p] > 3)
      BY <1>2, <2>1
    <2>5. /\ p \in Producers => size'[p] = TheSize
          /\ p \in Consumers => at'[p] \notin {"menu", "create", "remove"}
          /\ (at'[p] = "open" /\ step'[p] > 3) \/ at'[p] \notin {"open", "off"} =>
                  size'[p] = TheSize
      BY <1>2, <2>2, <2>3, <2>4 DEF Procs
    <2>6. \A q \in Procs \ {p} : at'[q] = at[q] /\ step'[q] = step[q] /\ size'[q] = size[q]
      BY <1>2, <2>1
    <2>7. /\ at'[p] = "open" /\ step'[p] > 2 => len' = TheSize
          /\ len' = len \/ len' = TheSize
      BY <1>2, <2>4
    <2> QED BY <1>1, <2>5, <2>6, <2>7
  <1>3. ASSUME NEW p \in Procs, Opens(p)
        PROVE  SizeInv'
    <2> DEFINE k == step[p]  x == Opening[k]  end == IF p \in Producers THEN "menu" ELSE "work"
    <2>1. /\ k \in Nat /\ k \in 1..8 /\ at[p] = "open"
          /\ x = "map" <=> k = 2
          /\ x = "size" <=> k = 3
      <3>1. k \in 1..8
        BY Creating DEF TypeOK
      <3>2. at[p] = "open"
        BY <1>3 DEF Opens, Continues, Goes
      <3> QED BY <3>1, <3>2, Finding
    <2>2. CASE /\ Opened(p, x) /\ Continues(p, "open", Opening, end)
               /\ IF x = "map" /\ p \in Producers
                  THEN Truncates(SizeOf[p]) ELSE UNCHANGED <<len, buffer>>
               /\ size' = IF x = "size" THEN [size EXCEPT ![p] = len] ELSE size
      <3>1. /\ \A q \in Procs : at'[q] = IF q # p THEN at[q] ELSE IF k = 8 THEN end ELSE "open"
            /\ \A q \in Procs : step'[q] = IF q # p THEN step[q] ELSE IF k = 8 THEN 1 ELSE k + 1
        BY <2>2, Creating DEF Continues, Goes, TypeOK
      <3>2. \A q \in Procs : size'[q] = IF q = p /\ k = 3 THEN len ELSE size[q]
        BY <2>1, <2>2 DEF TypeOK
      <3>3. IF k = 2 /\ p \in Producers THEN len' = TheSize ELSE len' = len
        BY <2>1, <2>2 DEF Truncates, Bounds
      <3>4. k = 2 /\ p \notin Producers => len = TheSize
        <4>1. k = 2 /\ p \notin Producers => len > 0
          <5> HIDE DEF x
          <5> QED BY <2>1, <2>2 DEF Opened, Names
        <4> QED BY <4>1 DEF TypeOK
      <3>5. /\ k > 2 => len = TheSize
            /\ k > 3 => size[p] = TheSize
            /\ p \in Producers => size[p] = TheSize
        BY <2>1 DEF SizeInv
      <3> HIDE DEF k, x
      <3>6. /\ p \in Producers => size'[p] = TheSize
            /\ k + 1 > 2 => len' = TheSize
            /\ k + 1 > 3 => size'[p] = TheSize
        BY <2>1, <3>2, <3>3, <3>4, <3>5
      <3>7. CASE k = 8
        <4>1. at'[p] = end /\ size'[p] = TheSize
          BY <3>1, <3>6, <3>7
        <4>2. p \in Consumers => p \notin Producers
          BY DEF Bounds
        <4> QED BY <1>1, <3>1, <3>2, <3>3, <3>7, <4>1, <4>2
      <3>8. CASE k # 8
        BY <1>1, <3>1, <3>2, <3>3, <3>6, <3>8
      <3> QED BY <3>7, <3>8
    <2>3. CASE /\ Goes(p, "open", "off") /\ step' = [step EXCEPT ![p] = 1]
               /\ UNCHANGED <<has, len, buffer, size, pcSized>>
      BY <1>2, <2>3 DEF TypeOK
    <2> QED BY <1>3, <2>2, <2>3 DEF Opens
  <1>4. ASSUME NEW p \in Producers, Creates(p)
        PROVE  SizeInv'
    <2>1. UNCHANGED size /\ Continues(p, "create", Creation, "menu")
      BY <1>4 DEF Creates
    <2>2. len' = len \/ len' = TheSize
      BY <1>4 DEF Creates, Truncates, Bounds
    <2>3. /\ Goes(p, "create", "menu") \/ Goes(p, "create", "create")
          /\ \A q \in Procs \ {p} : step'[q] = step[q]
      BY <2>1 DEF Continues, TypeOK, Goes
    <2> QED BY <1>2, <2>1, <2>2, <2>3 DEF Bounds
  <1>5. ASSUME NEW p \in Producers, Removes(p)
        PROVE  SizeInv'
    <2>1. UNCHANGED <<size, len>> /\ Continues(p, "remove", Removal, "off")
      BY <1>5 DEF Removes
    <2>2. /\ Goes(p, "remove", "off") \/ Goes(p, "remove", "remove")
          /\ \A q \in Procs \ {p} : step'[q] = step[q]
      BY <2>1 DEF Continues, TypeOK, Goes
    <2> QED BY <1>2, <2>1, <2>2 DEF Bounds
  <1>6. ASSUME NEW p \in Producers, Chooses(p)
        PROVE  SizeInv'
    <2>1. UNCHANGED <<size, len, step>> /\ step[p] = 1 /\ p \notin Consumers
      BY <1>6 DEF Chooses, NamesInv, Goes, Bounds
    <2>2. PICK to : Goes(p, "menu", to)
      BY <1>6 DEF Chooses
    <2> QED BY <1>2, <2>1, <2>2
  <1>7. ASSUME NEW c \in Consumers, Starts(c)
        PROVE  SizeInv'
    <2>1. UNCHANGED <<size, len, step>> /\ Goes(c, "off", "open") /\ step[c] = 1
      BY <1>7 DEF Starts, NamesInv, Goes
    <2> QED BY <1>2, <2>1
  <1>8. ASSUME NEW p \in Procs, GoesOn(p)
        PROVE  SizeInv'
    <2>1. UNCHANGED <<size, len, step>>
      BY <1>8 DEF GoesOn
    <2>2. PICK to \in {"work", "menu", "off"} :
            Goes(p, "pause", to) /\ (to = "menu" => p \in Producers)
      BY <1>8 DEF GoesOn
    <2> QED BY <1>2, <2>1, <2>2 DEF Bounds
  <1>9. ASSUME NEW p \in Procs, NEW mine, NEW other, Locks(p, mine, other)
        PROVE  SizeInv'
    <2>1. UNCHANGED <<size, len, step>>
      BY <1>9 DEF Locks
    <2>2. PICK from \in {"work"} \cup Middle, to \in Middle \cup {"pause"} : Goes(p, from, to)
      BY <1>9 DEF Locks, Middle
    <2> QED BY <1>2, <2>1, <2>2 DEF Middle
  <1>10. ASSUME NEW p \in Procs, Reads(p) \/ Appends(p) \/ Takes(p)
        PROVE  SizeInv'
    <2>1. UNCHANGED <<size, len, step>>
      BY <1>10 DEF Reads, Appends, Takes
    <2>2. PICK from \in Middle, to \in Middle : Goes(p, from, to)
      BY <1>10 DEF Reads, Appends, Takes, Middle
    <2> QED BY <1>2, <2>1, <2>2 DEF Middle
  <1>11. ASSUME UNCHANGED <<at, step, size, len>>
        PROVE  SizeInv'
    BY <1>11 DEF SizeInv
  <1>12. ASSUME NEW p \in Procs, Crashes(p)
        PROVE  SizeInv'
    BY <1>11, <1>12 DEF Crashes
  <1> QED BY <1>3, <1>4, <1>5, <1>6, <1>7, <1>8, <1>9, <1>10, <1>11, <1>12 DEF Next

-----------------------------------------------------------------------------
(* The one who creates.                                                    *)

\* What has been made after each step.
LEMMA Making ==
  /\ Made(1) = {} /\ Made(8) = Names /\ Found(1) = {} /\ Found(9) = Names
  /\ \A k \in 1..7 : Made(k + 1) = Made(k) \cup ({Creation[k]} \cap Names)
  /\ \A k \in 1..8 : Found(k + 1) = Found(k) \cup ({Opening[k]} \cap Names)
  <1>1. Made(1) = {} /\ Found(1) = {}
    BY DEF Made, Found
  <1>2. ASSUME NEW k \in Nat, k >= 1
        PROVE  /\ Made(k + 1) = Made(k) \cup ({Creation[k]} \cap Names)
               /\ Found(k + 1) = Found(k) \cup ({Opening[k]} \cap Names)
    <2>1. \A j : j \in 1 .. (k + 1) - 1 <=> j \in 1 .. k - 1 \/ j = k
      BY <1>2
    <2> QED BY <2>1 DEF Made, Found
  <1>3. Made(8) = Names
    <2>1. /\ Creation[1] = "buffer" /\ Creation[3] = "pc"
          /\ Creation[5] = "e" /\ Creation[6] = "n" /\ Creation[7] = "s"
      BY DEF Creation
    <2>2. {1, 3, 5, 6, 7} \subseteq 1 .. 8 - 1
      OBVIOUS
    <2>3. Names \subseteq {Creation[j] : j \in 1 .. 8 - 1}
      BY <2>1, <2>2 DEF Names
    <2> QED BY <2>3 DEF Made
  <1>4. Found(9) = Names
    <2>1. /\ Opening[1] = "buffer" /\ Opening[4] = "pc"
          /\ Opening[6] = "e" /\ Opening[7] = "n" /\ Opening[8] = "s"
      BY DEF Opening
    <2>2. {1, 4, 6, 7, 8} \subseteq 1 .. 9 - 1
      OBVIOUS
    <2>3. Names \subseteq {Opening[j] : j \in 1 .. 9 - 1}
      BY <2>1, <2>2 DEF Names
    <2> QED BY <2>3 DEF Found
  <1> QED BY <1>1, <1>2, <1>3, <1>4

\* What is made next has not been made.
LEMMA NotMade ==
  ASSUME NEW k \in 1..7
  PROVE  Creation[k] \notin Made(k)
  <1>1. /\ Creation[1] = "buffer" /\ Creation[2] = "map" /\ Creation[3] = "pc"
        /\ Creation[4] = "pcmap" /\ Creation[5] = "e" /\ Creation[6] = "n" /\ Creation[7] = "s"
    BY DEF Creation
  <1>2. \A j \in 1..7 : j = 1 \/ j = 2 \/ j = 3 \/ j = 4 \/ j = 5 \/ j = 6 \/ j = 7
    OBVIOUS
  <1>3. \A j \in 1 .. k - 1 : j \in 1..7 /\ j # k
    OBVIOUS
  <1>4. \A i, j \in 1..7 : i # j => Creation[i] # Creation[j]
    BY <1>1, <1>2
  <1>5. \A j \in 1 .. k - 1 : Creation[j] # Creation[k]
    BY <1>3, <1>4
  <1> QED BY <1>5 DEF Made

\* A process that has what it needs goes on with it.
LEMMA CreatorGo ==
  ASSUME TypeOK, CreatorInv, creations <= 1, NEW p \in Procs, NEW from, NEW to, Goes(p, from, to),
         Known' = Known, UNCHANGED <<has, step, creations, crashed>>,
         from \notin {"create", "open", "off"}, to \notin {"create", "open"},
         to \in {"work", "pause"} => has[p] # {}
  PROVE  CreatorInv'
  <1>1. at[p] = from /\ \A q \in Procs : at'[q] = IF q = p THEN to ELSE at[q]
    BY DEF Goes, TypeOK
  <1>2. \A q \in Procs : /\ at'[q] = "create" => at[q] = "create"
                         /\ at'[q] = "open" => at[q] = "open"
    BY <1>1
  <1>3. ASSUME NEW q \in Procs
        PROVE  /\ at'[q] \notin {"create", "open", "off"} /\ has[q] # {} => has[q] = Names
               /\ at'[q] \in {"work", "pause"} => has[q] # {}
    <2>1. CASE q = p
      BY <1>1, <2>1 DEF CreatorInv
    <2>2. CASE q # p
      BY <1>1, <2>2 DEF CreatorInv
    <2> QED BY <2>1, <2>2
  <1>4. \A k : Made(k)' = Made(k) /\ Found(k)' = Found(k)
    BY DEF Made, Found
  <1> QED BY <1>2, <1>3, <1>4 DEF CreatorInv

\* The one who creates makes every name, one after the other, and then has them all.
LEMMA CreatorCreates ==
  ASSUME Bounds, TypeOK, NamesInv, SizeInv, CreatorInv, creations <= 1,
         NEW p \in Producers, Creates(p)
  PROVE  CreatorInv'
  <1> DEFINE k == step[p]  x == Creation[k]
  <1>1. /\ p \in Procs /\ k \in 1..7 /\ at[p] = "create"
        /\ Known' = IF x \in Names THEN Known \cup {x} ELSE Known
    BY CreatesKnown
  <1>2. /\ creations = 1 /\ Known = Made(k) /\ has[p] = Made(k)
        /\ \A q \in Procs : at[q] = "create" => q = p
    BY <1>1 DEF CreatorInv
  <1>3. UNCHANGED <<creations, crashed>>
    BY DEF Creates
  <1>4. x \notin names
    BY <1>1, <1>2, NotMade DEF Known
  <1>5. \A q \in Procs : has'[q] = IF q = p THEN has[p] \cup ({x} \cap Names) ELSE has[q]
    <2>1. \/ x \in Names /\ has' = [has EXCEPT ![p] = IF x \in names THEN @ \ {x} ELSE @ \cup {x}]
          \/ x \notin Names /\ has' = has
      BY DEF Creates
    <2> HIDE DEF x
    <2>2. x \in Names \/ {x} \cap Names = {}
      OBVIOUS
    <2>3. has \in [Procs -> SUBSET Names]
      BY DEF TypeOK
    <2>4. CASE x \in Names
      <3>1. {x} \cap Names = {x}
        BY <2>4
      <3> QED BY <1>1, <1>4, <2>1, <2>3, <2>4, <3>1
    <2>5. CASE x \notin Names
      BY <1>1, <2>1, <2>2, <2>3, <2>5
    <2> QED BY <2>4, <2>5
  <1>6. /\ \A q \in Procs : at'[q] = IF q # p THEN at[q] ELSE IF k = 7 THEN "menu" ELSE "create"
        /\ \A q \in Procs : step'[q] = IF q # p THEN step[q] ELSE IF k = 7 THEN 1 ELSE k + 1
    <2>1. Goes(p, "create", IF k = 7 THEN "menu" ELSE "create")
          /\ step' = [step EXCEPT ![p] = IF k = 7 THEN 1 ELSE k + 1]
      BY Creating DEF Creates, Continues
    <2> QED BY <2>1 DEF Goes, TypeOK
  <1>7. Made(k + 1) = Made(k) \cup ({x} \cap Names) /\ (k = 7 => Made(k + 1) = Names) /\ Names # {}
    BY <1>1, Making DEF Names
  <1> HIDE DEF k, x
  <1>8. Known' = Made(k + 1) /\ has'[p] = Made(k + 1)
    BY <1>1, <1>2, <1>5, <1>7
  <1>9. \A j : Made(j)' = Made(j) /\ Found(j)' = Found(j)
    BY DEF Made, Found
  <1>10. ASSUME NEW q \in Procs
         PROVE  /\ at'[q] = "create" => /\ q = p /\ step'[q] = k + 1
                /\ at'[q] = "open" => Found(step'[q]) \subseteq has'[q]
                /\ at'[q] \notin {"create", "open", "off"} /\ has'[q] # {} => has'[q] = Names
                /\ at'[q] \in {"work", "pause"} => has'[q] # {}
    <2>1. CASE q # p
      BY <1>2, <1>5, <1>6, <2>1 DEF CreatorInv
    <2>2. CASE q = p
      BY <1>1, <1>6, <1>7, <1>8, <2>2
    <2> QED BY <2>1, <2>2
  <1>11. ASSUME NEW q \in Procs, at'[q] = "create"
         PROVE  /\ creations = 1 /\ Known' = Made(step'[q]) /\ has'[q] = Made(step'[q])
                /\ \A r \in Procs : at'[r] = "create" => r = q
    BY <1>2, <1>8, <1>10, <1>11
  <1>12. crashed = {}
    BY DEF CreatorInv
  <1> QED BY <1>2, <1>3, <1>9, <1>10, <1>11, <1>12 DEF CreatorInv

\* Who opens the names has them all in the end.
LEMMA CreatorOpens ==
  ASSUME Bounds, TypeOK, NamesInv, CreatorInv, creations <= 1, NEW p \in Procs, Opens(p)
  PROVE  CreatorInv'
  <1> DEFINE k == step[p]  x == Opening[k]  end == IF p \in Producers THEN "menu" ELSE "work"
  <1>1. UNCHANGED <<creations, crashed>> /\ Known' = Known /\ k \in 1..8 /\ at[p] = "open"
    BY Creating DEF Opens, Known, TypeOK, Continues, Goes
  <1>2. \A j : Made(j)' = Made(j) /\ Found(j)' = Found(j)
    BY DEF Made, Found
  <1>3. ASSUME \A q \in Procs : q # p => at'[q] = at[q] /\ step'[q] = step[q] /\ has'[q] = has[q],
               at'[p] # "create",
               at'[p] = "open" => Found(step'[p]) \subseteq has'[p],
               at'[p] \notin {"open", "off"} => has'[p] = Names
        PROVE  CreatorInv'
    <2>1. Names # {}
      BY DEF Names
    <2>2. \A q \in Procs : at'[q] = "create" => at[q] = "create" /\ q # p
      BY <1>3
    <2>3. ASSUME NEW q \in Procs
          PROVE  /\ at'[q] = "open" => Found(step'[q]) \subseteq has'[q]
                 /\ at'[q] \notin {"create", "open", "off"} /\ has'[q] # {} => has'[q] = Names
                 /\ at'[q] \in {"work", "pause"} => has'[q] # {}
      <3>1. CASE q = p
        BY <1>3, <2>1, <3>1
      <3>2. CASE q # p
        BY <1>3, <3>2 DEF CreatorInv
      <3> QED BY <3>1, <3>2
    <2>4. ASSUME NEW q \in Procs, at'[q] = "create"
          PROVE  /\ creations = 1 /\ Known = Made(step'[q]) /\ has'[q] = Made(step'[q])
                 /\ \A r \in Procs : at'[r] = "create" => r = q
      BY <1>3, <2>2, <2>4 DEF CreatorInv
    <2> QED BY <1>1, <1>2, <2>3, <2>4 DEF CreatorInv
  <1>4. CASE /\ Goes(p, "open", IF k = 8 THEN end ELSE "open")
             /\ step' = [step EXCEPT ![p] = IF k = 8 THEN 1 ELSE k + 1]
             /\ has' = [has EXCEPT ![p] = @ \cup ({x} \cap Names)]
    <2>1. /\ \A q \in Procs : at'[q] = IF q # p THEN at[q] ELSE IF k = 8 THEN end ELSE "open"
          /\ \A q \in Procs : step'[q] = IF q # p THEN step[q] ELSE IF k = 8 THEN 1 ELSE k + 1
          /\ \A q \in Procs : has'[q] = IF q # p THEN has[q] ELSE has[q] \cup ({x} \cap Names)
      BY <1>4 DEF Goes, TypeOK
    <2>2. Found(k) \subseteq has[p] /\ has[p] \subseteq Names
      BY <1>1 DEF CreatorInv, TypeOK
    <2>3. Found(k + 1) = Found(k) \cup ({x} \cap Names) /\ (k = 8 => Found(k + 1) = Names)
      BY <1>1, Making
    <2> HIDE DEF k, x
    <2>4. Found(k + 1) \subseteq has'[p] /\ has'[p] \subseteq Names
      BY <2>1, <2>2, <2>3
    <2>5. k = 8 => at'[p] \in {"menu", "work"} /\ has'[p] = Names
      BY <2>1, <2>3, <2>4
    <2>6. k # 8 => at'[p] = "open" /\ step'[p] = k + 1
      BY <2>1
    <2> QED BY <1>3, <2>1, <2>4, <2>5, <2>6
  <1>5. CASE Goes(p, "open", "off") /\ step' = [step EXCEPT ![p] = 1] /\ UNCHANGED has
    BY <1>3, <1>5 DEF Goes, TypeOK
  <1> QED BY <1>4, <1>5, Creating DEF Opens, Continues

\* As long as one user has chosen "c", nobody gets to work without the names.
LEMMA CreatorStep ==
  ASSUME Bounds, TypeOK, NamesInv, SizeInv, CreatorInv, [Next]_vars
  PROVE  CreatorInv'
  <1>1. creations \in Nat /\ creations' \in Nat /\ creations <= creations'
    <2>1. creations \in Nat
      BY DEF TypeOK, Bounds
    <2>2. UNCHANGED creations \/ \E p \in Producers : Chooses(p)
      BY DEF Next, Opens, Reads, GoesOn, Crashes, Creates, Removes, Locks, Appends, Starts, Takes
    <2> QED BY <2>1, <2>2 DEF Chooses
  <1> SUFFICES ASSUME creations' <= 1
               PROVE  CreatorInv'
    BY DEF CreatorInv
  <1>2. creations <= 1
    BY <1>1
  <1>3. \A j : Made(j)' = Made(j) /\ Found(j)' = Found(j)
    BY DEF Made, Found
  <1>4. ASSUME NEW p \in Producers, Creates(p)
        PROVE  CreatorInv'
    BY <1>2, <1>4, CreatorCreates
  <1>5. ASSUME NEW p \in Procs, Opens(p)
        PROVE  CreatorInv'
    BY <1>2, <1>5, CreatorOpens
  <1>6. ASSUME NEW p \in Producers, Removes(p)
        PROVE  CreatorInv'
    <2>1. PICK n : names' = names \ {n} /\ gone' = gone \cup (names \cap {n})
      BY <1>6 DEF Removes
    <2>2. Known' = Known /\ UNCHANGED <<has, creations, crashed>> /\ p \in Procs /\ at[p] = "remove"
      BY <1>6, <2>1 DEF Known, Removes, Procs, Continues, Goes
    <2>3. /\ \A q \in Procs : q # p => at'[q] = at[q] /\ step'[q] = step[q]
          /\ at'[p] \in {"remove", "off"}
      BY <1>6 DEF Removes, Continues, Goes, TypeOK
    <2>4. has[p] # {} => has[p] = Names
      BY <1>2, <2>2 DEF CreatorInv
    <2>5. \A q \in Procs : at'[q] = "create" => at[q] = "create" /\ q # p
      BY <2>3
    <2>6. ASSUME NEW q \in Procs
          PROVE  /\ at'[q] = "open" => Found(step'[q]) \subseteq has[q]
                 /\ at'[q] \notin {"create", "open", "off"} /\ has[q] # {} => has[q] = Names
                 /\ at'[q] \in {"work", "pause"} => has[q] # {}
      <3>1. CASE q = p
        BY <2>3, <2>4, <3>1
      <3>2. CASE q # p
        BY <1>2, <2>3, <3>2 DEF CreatorInv
      <3> QED BY <3>1, <3>2
    <2>7. ASSUME NEW q \in Procs, at'[q] = "create"
          PROVE  /\ creations = 1 /\ Known = Made(step'[q]) /\ has[q] = Made(step'[q])
                 /\ \A r \in Procs : at'[r] = "create" => r = q
      BY <1>2, <2>3, <2>5, <2>7 DEF CreatorInv
    <2> QED BY <1>2, <1>3, <2>2, <2>6, <2>7 DEF CreatorInv
  <1>7. ASSUME NEW p \in Producers, Chooses(p)
        PROVE  CreatorInv'
    <2>1. Known' = Known /\ UNCHANGED <<has, step, crashed>> /\ p \in Procs /\ at[p] = "menu"
      BY <1>7 DEF Chooses, Known, Procs, Goes
    <2>2. CASE \/ Goes(p, "menu", "work") /\ (has[p] # {} \/ creations > 1)
               \/ Goes(p, "menu", "off") \/ Goes(p, "menu", "remove")
      <3>1. PICK to \in {"work", "off", "remove"} :
              Goes(p, "menu", to) /\ (to = "work" => has[p] # {})
        BY <1>1, <1>2, <2>2
      <3>2. at'[p] = to
        BY <2>1, <3>1 DEF Goes, TypeOK
      <3>3. UNCHANGED creations
        BY <1>1, <1>7, <3>2 DEF Chooses
      <3> QED BY <1>2, <2>1, <3>1, <3>3, CreatorGo
    <2>3. CASE Goes(p, "menu", "open")
      <3>1. \A q \in Procs : at'[q] = IF q = p THEN "open" ELSE at[q]
        BY <2>3 DEF Goes, TypeOK
      <3>2. UNCHANGED creations /\ step[p] = 1 /\ Found(1) = {}
        BY <1>1, <1>7, <2>1, <3>1, Making DEF Chooses, NamesInv
      <3>3. ASSUME NEW q \in Procs
            PROVE  /\ at'[q] = "open" => Found(step[q]) \subseteq has[q]
                   /\ at'[q] \notin {"create", "open", "off"} => at'[q] = at[q]
        <4>1. CASE q = p
          BY <3>1, <3>2, <4>1
        <4>2. CASE q # p
          BY <1>2, <3>1, <4>2 DEF CreatorInv
        <4> QED BY <4>1, <4>2
      <3>4. \A q \in Procs : at'[q] = "create" => at[q] = "create"
        BY <3>1
      <3> QED BY <1>2, <1>3, <2>1, <3>2, <3>3, <3>4 DEF CreatorInv
    <2>4. CASE Goes(p, "menu", "create")
      <3>1. \A q \in Procs : at'[q] = IF q = p THEN "create" ELSE at[q]
        BY <2>4 DEF Goes, TypeOK
      <3>2. creations = 0 /\ creations' = 1 /\ step[p] = 1 /\ Made(1) = {}
        BY <1>1, <1>7, <2>1, <3>1, Making DEF Chooses, NamesInv
      <3>3. Known = {} /\ has[p] = {}
        BY <1>2, <2>1, <3>2 DEF CreatorInv, NamesInv
      <3>4. \A q \in Procs : at'[q] = "create" => q = p
        BY <1>2, <3>1, <3>2 DEF CreatorInv
      <3>5. \A q \in Procs : at'[q] # "create" => at'[q] = at[q]
        BY <3>1
      <3> QED BY <1>2, <1>3, <2>1, <3>2, <3>3, <3>4, <3>5 DEF CreatorInv
    <2> QED BY <1>7, <2>2, <2>3, <2>4 DEF Chooses
  <1>8. ASSUME NEW c \in Consumers, Starts(c)
        PROVE  CreatorInv'
    <2>1. Known' = Known /\ UNCHANGED <<step, creations, crashed>> /\ c \in Procs /\ at[c] = "off"
      BY <1>8 DEF Starts, Known, Procs, Goes
    <2>2. \A q \in Procs : /\ at'[q] = IF q = c THEN "open" ELSE at[q]
                          /\ has'[q] = IF q = c THEN {} ELSE has[q]
      BY <1>8 DEF Starts, Procs, Goes, TypeOK
    <2>3. step[c] = 1 /\ Found(1) = {}
      BY <2>1, Making DEF NamesInv
    <2>4. ASSUME NEW q \in Procs
          PROVE  /\ at'[q] = "open" => Found(step[q]) \subseteq has'[q]
                 /\ at'[q] # "open" => at'[q] = at[q] /\ has'[q] = has[q]
      <3>1. CASE q = c
        BY <2>2, <2>3, <3>1
      <3>2. CASE q # c
        BY <1>2, <2>2, <3>2 DEF CreatorInv
      <3> QED BY <3>1, <3>2
    <2> QED BY <1>2, <1>3, <2>1, <2>4 DEF CreatorInv
  <1>9. ASSUME NEW p \in Procs, GoesOn(p)
        PROVE  CreatorInv'
    <2>1. Known' = Known /\ UNCHANGED <<has, step, creations, crashed>>
      BY <1>9 DEF GoesOn, Known
    <2>2. PICK to \in {"work", "menu", "off"} : Goes(p, "pause", to)
      BY <1>9 DEF GoesOn
    <2>3. has[p] # {}
      BY <1>2, <2>2 DEF Goes, CreatorInv
    <2> QED BY <1>2, <2>1, <2>2, <2>3, CreatorGo
  <1>10. ASSUME NEW p \in Procs, NEW mine, NEW other, Locks(p, mine, other)
         PROVE  CreatorInv'
    <2>1. Known' = Known /\ UNCHANGED <<has, step, creations, crashed>>
      BY <1>10 DEF Locks, Known
    <2>2. PICK from \in {"work"} \cup Middle, to \in Middle \cup {"pause"} :
            Goes(p, from, to) /\ (to = "pause" => other \in has[p])
      BY <1>10 DEF Locks, Middle
    <2> QED BY <1>2, <2>1, <2>2, CreatorGo DEF Middle
  <1>11. ASSUME NEW p \in Procs, Reads(p) \/ Appends(p) \/ Takes(p)
         PROVE  CreatorInv'
    <2>1. Known' = Known /\ UNCHANGED <<has, step, creations, crashed>>
      BY <1>11 DEF Reads, Appends, Takes, Known
    <2>2. PICK from \in Middle, to \in Middle : Goes(p, from, to)
      BY <1>11 DEF Reads, Appends, Takes, Middle
    <2> QED BY <1>2, <2>1, <2>2, CreatorGo DEF Middle
  <1>12. ASSUME NEW p \in Procs, Crashes(p)
         PROVE  FALSE
    <2>1. at[p] \in {"work", "enter", "inside", "announce"}
      BY <1>12 DEF Crashes
    <2>2. has[p] # {}
      BY <1>2, <2>1 DEF CreatorInv, NamesInv, Hands, At
    <2>3. has[p] = Names
      BY <1>2, <2>1, <2>2 DEF CreatorInv
    <2> QED BY <1>12, <2>3 DEF Crashes, Names
  <1>13. CASE UNCHANGED vars
    BY <1>2, <1>3, <1>13 DEF CreatorInv, Known
  <1> QED BY <1>4, <1>5, <1>6, <1>7, <1>8, <1>9, <1>10, <1>11, <1>12, <1>13 DEF Next, Procs

-----------------------------------------------------------------------------
(* What is inside.                                                         *)

\* Who has not announced a number, and who has been promised one.
Announcing == There(at, {"leave", "announce"}, Producers)
Promised == There(at, {"enter", "inside", "write"}, Consumers)

\* What is coming is the sum of both; the producers at work are a set of that kind, too.
LEMMA Comers ==
  ASSUME Bounds
  PROVE  /\ Cardinality(Coming) = Cardinality(Announcing) + Cardinality(Promised)
         /\ Cardinality(Coming') = Cardinality(Announcing') + Cardinality(Promised')
         /\ Cardinality(Announcing) \in Nat /\ Cardinality(Promised) \in Nat
         /\ Cardinality(Announcing') \in Nat /\ Cardinality(Promised') \in Nat
         /\ Producing = There(at, {"work", "enter", "inside", "write"}, Producers)
         /\ Producing' = There(at', {"work", "enter", "inside", "write"}, Producers)
  <1>1. Coming = Announcing \cup Promised /\ Coming' = Announcing' \cup Promised'
    BY DEF Coming, Announcing, Promised, There, At
  <1>2. /\ Announcing \in SUBSET Procs /\ Promised \in SUBSET Procs
        /\ Announcing' \in SUBSET Procs /\ Promised' \in SUBSET Procs
        /\ Announcing \cap Promised = {} /\ Announcing' \cap Promised' = {}
    BY DEF Announcing, Promised, There, Bounds
  <1>3. ASSUME NEW A \in SUBSET Procs, NEW B \in SUBSET Procs, A \cap B = {}
        PROVE  /\ Cardinality(A \cup B) = Cardinality(A) + Cardinality(B)
               /\ Cardinality(A) \in Nat /\ Cardinality(B) \in Nat
    <2>1. /\ IsFiniteSet(A) /\ IsFiniteSet(B)
          /\ Cardinality(A) \in Nat /\ Cardinality(B) \in Nat
      BY FinitelyMany
    <2>2. Cardinality(A \cup B) = Cardinality(A) + Cardinality(B) - Cardinality(A \cap B)
      BY <2>1, FS_Union
    <2>3. Cardinality(A \cap B) = 0
      BY <1>3, FS_EmptySet
    <2> QED BY <2>1, <2>2, <2>3
  <1>4. /\ Producing = There(at, {"work", "enter", "inside", "write"}, Producers)
        /\ Producing' = There(at', {"work", "enter", "inside", "write"}, Producers)
    BY DEF Producing, There, At
  <1> QED BY <1>1, <1>2, <1>3, <1>4

\* A number goes in or out only between the semaphores that count it.
LEMMA InsideStep ==
  ASSUME Bounds, TypeOK, NamesInv, SizeInv, InsideInv, RingInv, [Next]_vars
  PROVE  InsideInv'
  <1> DEFINE A == Cardinality(Announcing)  C == Cardinality(Promised)
             A1 == Cardinality(Announcing')  C1 == Cardinality(Promised')
  <1>1. /\ A \in Nat /\ C \in Nat /\ A1 \in Nat /\ C1 \in Nat
        /\ Cardinality(Coming) = A + C /\ Cardinality(Coming') = A1 + C1
    BY Comers
  <1>2. /\ sem \in [{"e", "n", "s"} -> Nat] /\ sem["n"] \in Nat
        /\ in \in Nat /\ value \in Nat /\ out \in Nat /\ taken \in Seq(Nat)
    BY DEF TypeOK, Bounds
  <1>3. in = value /\ out = Len(taken) /\ in = out + sem["n"] + (A + C)
    BY <1>1 DEF InsideInv
  <1>4. ASSUME in' = value', out' = Len(taken'), in' = out' + sem'["n"] + (A1 + C1)
        PROVE  InsideInv'
    BY <1>1, <1>4 DEF InsideInv
  <1>5. ASSUME NEW p \in Procs, NEW mine, NEW other, Locks(p, mine, other),
               p \in Producers => mine = "e" /\ other = "n",
               p \in Consumers => mine = "n" /\ other = "e"
        PROVE  InsideInv'
    <2>1. UNCHANGED <<in, out, value, taken>>
      BY <1>5 DEF Locks
    <2>2. p \in Producers <=> p \notin Consumers
      BY DEF Bounds, Procs
    <2>3. CASE Goes(p, "work", "enter") /\ SemWait(mine)
      <3>1. /\ p \in Producers => A1 = A /\ C1 = C
            /\ p \in Consumers => A1 = A /\ C1 = C + 1
        BY <2>2, <2>3, Moves DEF Announcing, Promised
      <3>2. /\ p \in Producers => sem'["n"] = sem["n"]
            /\ p \in Consumers => sem'["n"] = sem["n"] - 1
        BY <1>2, <1>5, <2>2, <2>3 DEF SemWait
      <3> HIDE DEF A, C, A1, C1
      <3>3. p \in Producers => in' = out' + sem'["n"] + (A1 + C1)
        BY <1>3, <2>1, <3>1, <3>2
      <3>4. p \in Consumers => in' = out' + sem'["n"] + (A1 + C1)
        BY <1>1, <1>2, <1>3, <2>1, <3>1, <3>2
      <3> QED BY <1>3, <1>4, <2>1, <3>3, <3>4 DEF Procs
    <2>4. CASE Goes(p, "enter", "inside") /\ SemWait("s")
      <3>1. A1 = A /\ C1 = C
        BY <2>2, <2>4, Moves DEF Announcing, Promised
      <3>2. sem'["n"] = sem["n"]
        BY <1>2, <2>4 DEF SemWait
      <3> HIDE DEF A, C, A1, C1
      <3> QED BY <1>3, <1>4, <2>1, <3>1, <3>2
    <2>5. CASE Goes(p, "leave", "announce") /\ SemPost("s")
      <3>1. A1 = A /\ C1 = C
        BY <2>2, <2>5, Moves DEF Announcing, Promised
      <3>2. sem'["n"] = sem["n"]
        BY <1>2, <2>5 DEF SemPost
      <3> HIDE DEF A, C, A1, C1
      <3> QED BY <1>3, <1>4, <2>1, <3>1, <3>2
    <2>6. CASE Goes(p, "announce", "pause") /\ SemPost(other)
      <3>1. /\ p \in Producers => A1 = A - 1 /\ C1 = C
            /\ p \in Consumers => A1 = A /\ C1 = C
        BY <2>2, <2>6, Moves DEF Announcing, Promised
      <3>2. /\ p \in Producers => sem'["n"] = sem["n"] + 1
            /\ p \in Consumers => sem'["n"] = sem["n"]
        BY <1>2, <1>5, <2>2, <2>6 DEF SemPost
      <3> HIDE DEF A, C, A1, C1
      <3>3. p \in Consumers => in' = out' + sem'["n"] + (A1 + C1)
        BY <1>3, <2>1, <3>1, <3>2
      <3>4. p \in Producers => in' = out' + sem'["n"] + (A1 + C1)
        <4> SUFFICES ASSUME p \in Producers
                     PROVE  out' + sem'["n"] + (A1 + C1) = out + sem["n"] + (A + C)
          BY <1>3, <2>1
        <4>1. A1 + C1 = (A + C) - 1
          BY <1>1, <3>1
        <4>2. out' = out /\ sem'["n"] = sem["n"] + 1
          BY <2>1, <3>2
        <4>3. A + C \in Int
          BY <1>1
        <4> QED BY <1>2, <4>1, <4>2, <4>3
      <3> QED BY <1>3, <1>4, <2>1, <3>3, <3>4 DEF Procs
    <2> QED BY <1>5, <2>3, <2>4, <2>5, <2>6 DEF Locks
  <1>6. ASSUME NEW p \in Producers, Appends(p)
        PROVE  InsideInv'
    <2>1. p \in Procs /\ p \notin Consumers /\ Goes(p, "write", "leave") /\ at[p] = "write"
      BY <1>6 DEF Appends, Procs, Bounds, Goes
    <2>2. read[p] = <<in, value + 1>>
      BY <1>6, <2>1 DEF RingInv
    <2>3. in' = in + 1 /\ value' = value + 1 /\ UNCHANGED <<out, taken, sem>>
      BY <1>6, <2>2 DEF Appends
    <2>4. A1 = A + 1 /\ C1 = C
      BY <2>1, <1>6, Moves DEF Announcing, Promised
    <2> HIDE DEF A, C, A1, C1
    <2>5. A1 + C1 = (A + C) + 1
      BY <1>1, <2>4
    <2>6. in' = out' + sem'["n"] + (A1 + C1)
      <3>1. in = out + sem["n"] + (A + C)
        BY <1>3
      <3>2. in' = in + 1 /\ out' = out /\ sem'["n"] = sem["n"]
        BY <2>3
      <3>3. A + C \in Nat /\ out \in Nat /\ sem["n"] \in Nat
        BY <1>1, <1>2
      <3> QED BY <2>5, <3>1, <3>2, <3>3
    <2>7. in' = value' /\ out' = Len(taken')
      BY <1>3, <2>3
    <2> QED BY <1>4, <2>6, <2>7
  <1>7. ASSUME NEW c \in Consumers, Takes(c)
        PROVE  InsideInv'
    <2>1. c \in Procs /\ c \notin Producers /\ Goes(c, "write", "leave") /\ at[c] = "write"
      BY <1>7 DEF Takes, Procs, Bounds, Goes
    <2>2. read[c] = <<out, out + 1>>
      BY <1>7, <2>1 DEF RingInv
    <2>3. out' = out + 1 /\ taken' = Append(taken, out + 1) /\ UNCHANGED <<in, value, sem>>
      BY <1>7, <2>2 DEF Takes
    <2>4. A1 = A /\ C1 = C - 1
      BY <2>1, <1>7, Moves DEF Announcing, Promised
    <2>5. Len(taken') = Len(taken) + 1
      BY <1>2, <2>3
    <2> HIDE DEF A, C, A1, C1
    <2>6. A1 + C1 = (A + C) - 1
      BY <1>1, <2>4
    <2>7. in' = out' + sem'["n"] + (A1 + C1)
      <3>1. in = out + sem["n"] + (A + C)
        BY <1>3
      <3>2. in' = in /\ out' = out + 1 /\ sem'["n"] = sem["n"]
        BY <2>3
      <3>3. A + C \in Nat /\ out \in Nat /\ sem["n"] \in Nat
        BY <1>1, <1>2
      <3> QED BY <2>6, <3>1, <3>2, <3>3
    <2>8. in' = value' /\ out' = Len(taken')
      BY <1>3, <2>3, <2>5
    <2> QED BY <1>4, <2>7, <2>8
  <1>8. ASSUME UNCHANGED <<value, in, out, taken>>, sem'["n"] = sem["n"], A1 = A, C1 = C
        PROVE  InsideInv'
    <2> HIDE DEF A, C, A1, C1
    <2> QED BY <1>3, <1>4, <1>8
  <1>9. ASSUME NEW p \in Procs, NEW from \in Labels \ Middle, NEW to \in Labels \ Middle,
               Goes(p, from, to)
        PROVE  A1 = A /\ C1 = C
    BY <1>9, Moves DEF Announcing, Promised, Middle
  <1>10. ASSUME NEW p \in Producers, Creates(p)
         PROVE  InsideInv'
    <2>1. UNCHANGED <<value, in, out, taken>>
      BY <1>10 DEF Creates
    <2>2. sem'["n"] = sem["n"]
      <3> DEFINE x == Creation[step[p]]
      <3>1. /\ "s" \in Known => UNCHANGED sem
            /\ "s" \notin Known => \/ sem' = [sem EXCEPT !["s"] = 1]
                                   \/ UNCHANGED sem \/ sem' = [sem EXCEPT !["e"] = TheSize]
                                   \/ sem' = [sem EXCEPT !["n"] = 0]
        <4>1. /\ "s" \in Known => UNCHANGED sem
              /\ "s" \notin Known =>
                    /\ x = "s" => sem' = [sem EXCEPT !["s"] = 1]
                    /\ x = "e" => UNCHANGED sem \/ sem' = [sem EXCEPT !["e"] = TheSize]
                    /\ x = "n" => UNCHANGED sem \/ sem' = [sem EXCEPT !["n"] = 0]
                    /\ x \notin {"e", "n", "s"} => UNCHANGED sem
          BY <1>10, CreatesKnown
        <4> HIDE DEF x
        <4> QED BY <4>1
      <3>2. "s" \notin Known => sem["n"] = 0
        BY DEF NamesInv
      <3> QED BY <1>2, <3>1, <3>2
    <2>3. Goes(p, "create", "create") \/ Goes(p, "create", "menu")
      BY <1>10 DEF Creates, Continues, Goes
    <2>4. p \in Procs /\ {"create", "menu"} \subseteq Labels \ Middle
      BY DEF Procs, Labels, Middle
    <2>5. A1 = A /\ C1 = C
      BY <1>9, <2>3, <2>4
    <2> QED BY <1>8, <2>1, <2>2, <2>5
  <1>11. ASSUME NEW p \in Procs, Reads(p)
         PROVE  InsideInv'
    <2>1. UNCHANGED <<value, in, out, taken, sem>> /\ Goes(p, "inside", "write")
      BY <1>11 DEF Reads
    <2>2. A1 = A /\ C1 = C
      BY <2>1, Moves DEF Announcing, Promised
    <2> QED BY <1>8, <2>1, <2>2
  <1>12. CASE Quiet
    <2>1. CASE UNCHANGED at
      <3>1. A1 = A /\ C1 = C
        BY <2>1 DEF Announcing, Promised, There
      <3> QED BY <1>8, <1>12, <3>1 DEF Quiet
    <2>2. ASSUME NEW p \in Procs, NEW from \in Labels \ Middle, NEW to \in Labels \ Middle,
                 Goes(p, from, to)
          PROVE  InsideInv'
      <3>1. A1 = A /\ C1 = C
        BY <1>9, <2>2
      <3> QED BY <1>8, <1>12, <3>1 DEF Quiet
    <2> QED BY <1>12, <2>1, <2>2 DEF Quiet
  <1>13. ASSUME NEW p \in Producers, Locks(p, "e", "n")
         PROVE  InsideInv'
    <2>1. p \in Procs /\ p \notin Consumers
      BY DEF Procs, Bounds
    <2> QED BY <1>5, <1>13, <2>1
  <1>14. ASSUME NEW c \in Consumers, Locks(c, "n", "e")
         PROVE  InsideInv'
    <2>1. c \in Procs /\ c \notin Producers
      BY DEF Procs, Bounds
    <2> QED BY <1>5, <1>14, <2>1
  <1> QED BY <1>6, <1>7, <1>10, <1>11, <1>12, <1>13, <1>14, Kinds

\* The producers at work were let in when there was a number to produce.
LEMMA ValueStep ==
  ASSUME Bounds, TypeOK, NamesInv, SizeInv, InsideInv, RingInv, ValueInv, [Next]_vars
  PROVE  ValueInv' /\ value' \in Nat
  <1> DEFINE L == {"work", "enter", "inside", "write"}
             A == Cardinality(Producing)  A1 == Cardinality(Producing')  N == Cardinality(Producers)
  <1>1. /\ A \in Nat /\ A1 \in Nat /\ N \in Nat /\ MaxData \in Nat /\ value \in Nat
        /\ A1 <= N /\ value + A <= MaxData + N
    <2>1. IsFiniteSet(Producers) /\ Producing \subseteq Producers /\ Producing' \subseteq Producers
      BY DEF Bounds, Producing
    <2>2. A \in Nat /\ A1 \in Nat /\ N \in Nat /\ A1 <= N
      BY <2>1, FS_Subset, FS_CardinalityType
    <2> QED BY <2>2 DEF TypeOK, Bounds, ValueInv
  <1>2. ASSUME value' \in Nat, value' + A1 <= MaxData + N
        PROVE  ValueInv' /\ value' \in Nat
    BY <1>2 DEF ValueInv
  <1>3. ASSUME NEW p \in Procs, NEW from, NEW to, Goes(p, from, to)
        PROVE  /\ (from \in L <=> to \in L) \/ p \notin Producers => A1 = A
               /\ from \notin L /\ to \in L /\ p \in Producers => A1 = A + 1
               /\ from \in L /\ to \notin L /\ p \in Producers => A1 = A - 1
    BY <1>3, Moves, Comers
  <1>4. ASSUME NEW p \in Producers, Appends(p)
        PROVE  ValueInv' /\ value' \in Nat
    <2>1. p \in Procs /\ at[p] = "write" /\ Goes(p, "write", "leave")
      BY <1>4 DEF Appends, Procs, Goes
    <2>2. value' = value + 1
      BY <1>4, <2>1 DEF Appends, RingInv
    <2>3. A1 = A - 1
      BY <1>3, <2>1
    <2> HIDE DEF A, A1, N
    <2> QED BY <1>1, <1>2, <2>2, <2>3
  <1>5. ASSUME value' = value, A1 = A \/ A1 = A - 1 \/ value < MaxData
        PROVE  ValueInv' /\ value' \in Nat
    <2> HIDE DEF A, A1, N
    <2> QED BY <1>1, <1>2, <1>5
  <1>6. ASSUME NEW p \in Procs, NEW mine, NEW other, Locks(p, mine, other)
        PROVE  ValueInv' /\ value' \in Nat
    <2>1. value' = value
      BY <1>6 DEF Locks
    <2>2. \/ Goes(p, "work", "enter") \/ Goes(p, "enter", "inside")
          \/ Goes(p, "leave", "announce") \/ Goes(p, "announce", "pause")
      BY <1>6 DEF Locks
    <2>3. A1 = A
      BY <1>3, <2>2
    <2> QED BY <1>5, <2>1, <2>3
  <1>7. ASSUME NEW p \in Procs, Reads(p)
        PROVE  ValueInv' /\ value' \in Nat
    <2>1. value' = value /\ Goes(p, "inside", "write")
      BY <1>7 DEF Reads
    <2>2. A1 = A
      BY <1>3, <2>1
    <2> QED BY <1>5, <2>1, <2>2
  <1>8. ASSUME NEW c \in Consumers, Takes(c)
        PROVE  ValueInv' /\ value' \in Nat
    <2>1. value' = value /\ Goes(c, "write", "leave") /\ c \in Procs /\ c \notin Producers
      BY <1>8 DEF Takes, Procs, Bounds
    <2>2. A1 = A
      BY <1>3, <2>1
    <2> QED BY <1>5, <2>1, <2>2
  <1>9. ASSUME NEW p \in Producers, Creates(p)
        PROVE  ValueInv' /\ value' \in Nat
    <2>1. value' = value /\ p \in Procs
      BY <1>9 DEF Creates, Procs
    <2>2. Goes(p, "create", "create") \/ Goes(p, "create", "menu")
      BY <1>9 DEF Creates, Continues, Goes
    <2>3. A1 = A
      BY <1>3, <2>1, <2>2
    <2> QED BY <1>5, <2>1, <2>3
  <1>10. CASE Quiet
    <2>1. CASE UNCHANGED at
      <3>1. A1 = A
        BY <2>1 DEF Producing, At
      <3> QED BY <1>5, <1>10, <3>1 DEF Quiet
    <2>2. ASSUME NEW p \in Procs, NEW from \in Labels \ Middle, NEW to \in Labels \ Middle,
                 Goes(p, from, to), to = "work" /\ p \in Producers => value < MaxData
          PROVE  ValueInv' /\ value' \in Nat
      <3>1. to \in L => to = "work"
        BY DEF Middle
      <3>2. A1 = A \/ A1 = A - 1 \/ value < MaxData
        BY <1>3, <2>2, <3>1
      <3> QED BY <1>5, <1>10, <3>2 DEF Quiet
    <2> QED BY <1>10, <2>1, <2>2 DEF Quiet
  <1> QED BY <1>4, <1>6, <1>7, <1>8, <1>9, <1>10, Kinds DEF Procs

\* There is a place for who appends, and a number for who takes.
LEMMA Room ==
  ASSUME Bounds, TypeOK, NamesInv, SemaphoreAccounts, InsideInv
  PROVE  /\ out \in Nat /\ in \in Nat /\ out <= in /\ in <= out + TheSize
         /\ \A p \in Producers : at[p] \in {"inside", "write"} => in < out + TheSize
         /\ \A c \in Consumers : at[c] \in {"inside", "write"} => out < in
  <1>1. /\ in = out + sem["n"] + Cardinality(Coming)
        /\ in \in Nat /\ out \in Nat
        /\ sem["e"] \in Nat /\ sem["n"] \in Nat /\ TheSize \in Nat
    BY DEF InsideInv, TypeOK, Bounds
  <1>2. Hands \in SUBSET Procs /\ Coming \in SUBSET Hands
    BY DEF Coming, Hands, At
  <1>3. /\ IsFiniteSet(Hands) /\ Cardinality(Hands) \in Nat
        /\ IsFiniteSet(Coming) /\ Cardinality(Coming) \in Nat
        /\ Cardinality(Coming) <= Cardinality(Hands)
    BY <1>2, FinitelyMany, FS_Subset
  <1>4. ASSUME NEW p \in Producers, at[p] \in {"inside", "write"}
        PROVE  Cardinality(Coming) < Cardinality(Hands)
    <2>1. p \in Hands /\ p \notin Coming
      BY <1>4 DEF Coming, Hands, At, Procs, Bounds
    <2> QED BY <1>2, <1>3, <2>1, FS_Subset
  <1>5. ASSUME NEW c \in Consumers, at[c] \in {"inside", "write"}
        PROVE  Cardinality(Coming) > 0
    <2>1. c \in Coming
      BY <1>5 DEF Coming, At, Procs
    <2> QED BY <1>3, <2>1, FS_EmptySet
  <1>6. CASE "s" \in Known
    <2>1. sem["e"] + sem["n"] + Cardinality(Hands) = TheSize
      BY <1>6 DEF SemaphoreAccounts
    <2> QED BY <1>1, <1>3, <1>4, <1>5, <2>1
  <1>7. CASE "s" \notin Known
    <2>1. sem["n"] = 0
      BY <1>7 DEF NamesInv
    <2>2. Hands = {}
      BY <1>7, Working DEF Hands, At
    <2>3. Cardinality(Coming) = 0
      BY <1>2, <2>2, FS_EmptySet
    <2>4. \A p \in Procs : at[p] \notin {"inside", "write"}
      BY <2>2 DEF Hands, At
    <2> QED BY <1>1, <2>1, <2>3, <2>4 DEF Procs
  <1> QED BY <1>6, <1>7

\* One process has the buffer.
LEMMA Alone ==
  ASSUME Bounds, TypeOK, NamesInv, SemaphoreAccounts,
         NEW p \in Owners, NEW q \in Owners
  PROVE  p = q
  <1>1. "s" \in Known
    BY Working DEF Owners, Hands, At
  <1>2. Owners \in SUBSET Procs /\ IsFiniteSet(Owners) /\ Cardinality(Owners) \in Nat
    BY FinitelyMany DEF Owners, At
  <1>3. sem["s"] \in Nat /\ sem["s"] + Cardinality(Owners) = 1
    BY <1>1 DEF SemaphoreAccounts, TypeOK
  <1>4. Cardinality(Owners \ {p}) = Cardinality(Owners) - 1 /\ IsFiniteSet(Owners \ {p})
    BY <1>2, FS_RemoveElement
  <1>5. Cardinality(Owners) = 0 \/ Cardinality(Owners) = 1
    BY <1>2, <1>3
  <1>6. Cardinality(Owners \ {p}) = 0
    BY <1>2, <1>4, <1>5, FS_CardinalityType
  <1>7. Owners \ {p} = {}
    BY <1>4, <1>6, FS_EmptySet
  <1> QED BY <1>7

-----------------------------------------------------------------------------
(* The ring.                                                               *)

\* The ring holds what has been produced and not taken.
Holding == RingHolds(buffer, TheSize, out, in)

\* What append and take have read is what there is.
ReadInv ==
    \A p \in Procs : at[p] = "write" =>
        read[p] = IF p \in Producers THEN <<in, value + 1>> ELSE <<out, out + 1>>

\* The parts of RingInv.
LEMMA RingParts ==
  /\ RingInv <=> ReadInv /\ Holding /\ NoAlarm /\ TakenInOrder
  /\ RingInv' <=> ReadInv' /\ Holding' /\ NoAlarm' /\ TakenInOrder'
  BY DEF RingInv, ReadInv, Holding, RingHolds

\* Giving the memory the size it has changes no place, and only append and take do.
LEMMA KeepsPlaces ==
  ASSUME Bounds, TypeOK, NamesInv, SizeInv, [Next]_vars
  PROVE  \/ \E p \in Producers : Appends(p)
         \/ \E c \in Consumers : Takes(c)
         \/ \A x \in 0 .. TheSize - 1 : buffer'[x] = buffer[x]
  <1> SUFFICES ASSUME NEW p \in Procs, Opens(p) \/ (p \in Producers /\ Creates(p))
               PROVE  \A x \in 0 .. TheSize - 1 : buffer'[x] = buffer[x]
    BY DEF Next, Procs, Reads, GoesOn, Crashes, Chooses, Removes, Locks, Starts
  <1>1. (p \in Producers /\ Truncates(SizeOf[p])) \/ UNCHANGED buffer
    BY DEF Opens, Creates
  <1>2. ASSUME p \in Producers, Truncates(SizeOf[p])
        PROVE  \A x \in 0 .. TheSize - 1 : buffer'[x] = buffer[x]
    <2>1. /\ SizeOf[p] = TheSize /\ 0 .. TheSize - 1 \subseteq Places /\ TheSize \in Nat
          /\ buffer' = [k \in Places |-> IF k < SizeOf[p] THEN buffer[k] ELSE 0]
      BY <1>2 DEF Truncates, Bounds
    <2> QED BY <2>1
  <1> QED BY <1>1, <1>2

\* The states before a step, and the parts of the invariant they satisfy.
Rest == TypeOK /\ NamesInv /\ SizeInv /\ SemaphoreAccounts /\ InsideInv /\ RingInv

\* Who is inside uses the size of the buffer.
LEMMA RightSize ==
  ASSUME SizeInv, NEW p \in Procs, at[p] \in {"inside", "write"}
  PROVE  size[p] = TheSize
  BY DEF SizeInv

\* append finds its place empty, and take the oldest number.
LEMMA ReadsRing ==
  ASSUME Bounds, Rest, NEW p \in Procs, Reads(p)
  PROVE  RingInv'
  <1>1. ReadInv /\ Holding /\ NoAlarm /\ TakenInOrder
    BY RingParts DEF Rest
  <1>2. at[p] = "inside" /\ \A q \in Procs : at'[q] = IF q = p THEN "write" ELSE at[q]
    BY DEF Reads, Goes, Rest, TypeOK
  <1>3. /\ size[p] = TheSize /\ TheSize \in Nat \ {0} /\ out \in Nat /\ in \in Nat
        /\ out <= in /\ in <= out + TheSize
        /\ p \in Producers => in < out + TheSize
        /\ p \notin Producers => out < in
    BY <1>2, Room, RightSize DEF Rest, Procs, Bounds
  <1>4. UNCHANGED <<buffer, value, in, out, taken>>
    BY DEF Reads
  <1>5. p \in Producers => buffer[in % TheSize] = 0
    <2> DEFINE c == [x \in 0 .. TheSize - 1 |-> IF x = in % TheSize THEN in + 1 ELSE buffer[x]]
    <2>1. \A x \in 0 .. TheSize - 1 : c[x] = IF x = in % TheSize THEN in + 1 ELSE buffer[x]
      OBVIOUS
    <2> HIDE DEF c
    <2> QED BY <1>1, <1>3, <2>1, Fills DEF Holding
  <1>6. p \notin Producers => buffer[out % TheSize] = out + 1
    <2> DEFINE c == [x \in 0 .. TheSize - 1 |-> IF x = out % TheSize THEN 0 ELSE buffer[x]]
    <2>1. \A x \in 0 .. TheSize - 1 : c[x] = IF x = out % TheSize THEN 0 ELSE buffer[x]
      OBVIOUS
    <2> HIDE DEF c
    <2> QED BY <1>1, <1>3, <2>1, Drains DEF Holding
  <1>7. /\ alarm' = alarm
        /\ read' = [read EXCEPT ![p] =
                        IF p \in Producers THEN <<in, value + 1>> ELSE <<out, out + 1>>]
    <2>1. alarm' = alarm
      <3>1. alarm = FALSE
        BY <1>1 DEF Rest, TypeOK, NoAlarm
      <3>2. (p \in Producers /\ buffer[in % size[p]] # 0) = FALSE
        BY <1>3, <1>5
      <3> QED BY <3>1, <3>2 DEF Reads
    <2>2. CASE p \in Producers
      BY <2>1, <2>2 DEF Reads
    <2>3. CASE p \notin Producers
      BY <1>3, <1>6, <2>1, <2>3 DEF Reads
    <2> QED BY <2>2, <2>3
  <1>8. ReadInv'
    <2>1. \A q \in Procs : read'[q] = IF q # p THEN read[q]
                 ELSE IF p \in Producers THEN <<in, value + 1>> ELSE <<out, out + 1>>
      BY <1>7 DEF Rest, TypeOK
    <2> QED BY <1>1, <1>2, <1>4, <2>1 DEF ReadInv
  <1> QED BY <1>1, <1>4, <1>7, <1>8, RingParts DEF Holding, NoAlarm, TakenInOrder

\* Who has written leaves no other who has read.
LEMMA NobodyHasRead ==
  ASSUME Bounds, Rest, NEW p \in Procs, Goes(p, "write", "leave")
  PROVE  ReadInv'
  <1>1. at[p] = "write" /\ \A q \in Procs : at'[q] = IF q = p THEN "leave" ELSE at[q]
    BY DEF Goes, Rest, TypeOK
  <1>2. \A q \in Procs : at[q] = "write" => q = p
    BY <1>1, Alone DEF Rest, Owners, At
  <1>3. \A q \in Procs : at'[q] # "write"
    BY <1>1, <1>2
  <1> QED BY <1>3 DEF ReadInv

\* append fills a place.
LEMMA AppendsRing ==
  ASSUME Bounds, Rest, NEW p \in Producers, Appends(p)
  PROVE  /\ RingInv' /\ Holding /\ Holding' /\ in < out + TheSize
         /\ in' = in + 1 /\ value' = value + 1 /\ UNCHANGED out
  <1>1. ReadInv /\ Holding /\ NoAlarm /\ TakenInOrder
    BY RingParts DEF Rest
  <1>2. p \in Procs /\ Goes(p, "write", "leave") /\ at[p] = "write"
    BY DEF Appends, Goes, Procs
  <1>3. /\ size[p] = TheSize /\ TheSize \in Nat \ {0} /\ out \in Nat /\ in \in Nat
        /\ out <= in /\ in < out + TheSize /\ in = value
    BY <1>2, Room, RightSize DEF Rest, Bounds, InsideInv
  <1>4. read[p] = <<in, in + 1>>
    BY <1>1, <1>2, <1>3 DEF ReadInv
  <1>5. /\ UNCHANGED <<out, taken, alarm>> /\ in' = in + 1 /\ value' = in + 1
        /\ buffer' = [buffer EXCEPT ![in % TheSize] = in + 1]
    BY <1>3, <1>4 DEF Appends
  <1>6. \A x \in 0 .. TheSize - 1 : buffer'[x] = IF x = in % TheSize THEN in + 1 ELSE buffer[x]
    <2>1. buffer \in [Places -> Nat] /\ 0 .. TheSize - 1 \subseteq Places
      BY DEF Rest, TypeOK, Bounds
    <2> QED BY <1>5, <2>1
  <1>7. RingHolds(buffer', TheSize, out, in + 1)
    BY <1>1, <1>3, <1>6, Fills DEF Holding
  <1>8. Holding'
    BY <1>5, <1>7 DEF Holding
  <1> QED BY <1>1, <1>2, <1>3, <1>5, <1>8, NobodyHasRead, RingParts DEF NoAlarm, TakenInOrder

\* take empties the place of the oldest.
LEMMA TakesRing ==
  ASSUME Bounds, Rest, NEW c \in Consumers, Takes(c)
  PROVE  /\ RingInv' /\ Holding /\ Holding' /\ out < in
         /\ out' = out + 1 /\ UNCHANGED <<in, value>>
  <1>1. ReadInv /\ Holding /\ NoAlarm /\ TakenInOrder
    BY RingParts DEF Rest
  <1>2. c \in Procs /\ c \notin Producers /\ Goes(c, "write", "leave") /\ at[c] = "write"
    BY DEF Takes, Goes, Procs, Bounds
  <1>3. /\ size[c] = TheSize /\ TheSize \in Nat \ {0} /\ out \in Nat /\ in \in Nat
        /\ out < in /\ in <= out + TheSize /\ out = Len(taken)
    BY <1>2, Room, RightSize DEF Rest, Bounds, InsideInv
  <1>4. read[c] = <<out, out + 1>>
    BY <1>1, <1>2 DEF ReadInv
  <1>5. /\ UNCHANGED <<in, value, alarm>> /\ out' = out + 1 /\ taken' = Append(taken, out + 1)
        /\ buffer' = [buffer EXCEPT ![out % TheSize] = 0]
    BY <1>3, <1>4 DEF Takes
  <1>6. \A x \in 0 .. TheSize - 1 : buffer'[x] = IF x = out % TheSize THEN 0 ELSE buffer[x]
    <2>1. buffer \in [Places -> Nat] /\ 0 .. TheSize - 1 \subseteq Places
      BY DEF Rest, TypeOK, Bounds
    <2> QED BY <1>5, <2>1
  <1>7. RingHolds(buffer', TheSize, out + 1, in)
    BY <1>1, <1>3, <1>6, Drains DEF Holding
  <1>8. Holding'
    BY <1>5, <1>7 DEF Holding
  <1>9. TakenInOrder'
    <2>1. taken \in Seq(Nat) /\ out + 1 \in Nat
      BY <1>3 DEF Rest, TypeOK
    <2>2. /\ DOMAIN taken = 1 .. out /\ DOMAIN taken' = 1 .. out + 1
          /\ taken'[out + 1] = out + 1 /\ \A k \in 1 .. out : taken'[k] = taken[k]
      BY <1>3, <1>5, <2>1
    <2>3. \A k \in 1 .. out + 1 : k \in 1 .. out \/ k = out + 1
      BY <1>3
    <2> QED BY <1>1, <2>2, <2>3 DEF TakenInOrder
  <1> QED BY <1>1, <1>2, <1>3, <1>5, <1>8, <1>9, NobodyHasRead, RingParts DEF NoAlarm

\* A step that is not append or take, nor begins them, leaves the ring.
LEMMA RingStep ==
  ASSUME Bounds, Rest, [Next]_vars
  PROVE  RingInv'
  <1>1. ReadInv /\ Holding /\ NoAlarm /\ TakenInOrder
    BY RingParts DEF Rest
  <1>2. ASSUME \A x \in 0 .. TheSize - 1 : buffer'[x] = buffer[x],
               UNCHANGED <<value, in, out, taken, alarm, read>>,
               \A q \in Procs : at'[q] = "write" => at[q] = "write"
        PROVE  RingInv'
    <2>1. ReadInv'
      BY <1>1, <1>2 DEF ReadInv
    <2>2. Holding'
      <3>1. TheSize \in Nat \ {0} /\ out \in Nat
        BY DEF Rest, TypeOK, Bounds
      <3>2. \A k \in out .. in - 1 : k % TheSize \in 0 .. TheSize - 1
        BY <3>1, Division
      <3> QED BY <1>1, <1>2, <3>2 DEF Holding, RingHolds
    <2> QED BY <1>1, <1>2, <2>1, <2>2, RingParts DEF NoAlarm, TakenInOrder
  <1>3. ASSUME NEW p \in Procs, NEW from, NEW to, Goes(p, from, to), to # "write"
        PROVE  \A q \in Procs : at'[q] = "write" => at[q] = "write"
    BY <1>3 DEF Goes, Rest, TypeOK
  <1>4. CASE \E p \in Procs : Reads(p)
    BY <1>4, ReadsRing
  <1>5. CASE \E p \in Producers : Appends(p)
    BY <1>5, AppendsRing
  <1>6. CASE \E c \in Consumers : Takes(c)
    BY <1>6, TakesRing
  <1>7. CASE \A x \in 0 .. TheSize - 1 : buffer'[x] = buffer[x]
    <2>1. ASSUME NEW p \in Procs, NEW mine, NEW other, Locks(p, mine, other)
          PROVE  RingInv'
      <3>1. \/ Goes(p, "work", "enter") \/ Goes(p, "enter", "inside")
            \/ Goes(p, "leave", "announce") \/ Goes(p, "announce", "pause")
        BY <2>1 DEF Locks
      <3>2. \A q \in Procs : at'[q] = "write" => at[q] = "write"
        BY <1>3, <3>1
      <3>3. UNCHANGED <<value, in, out, taken, alarm, read>>
        BY <2>1 DEF Locks
      <3> QED BY <1>2, <1>7, <3>2, <3>3
    <2>2. ASSUME NEW p \in Producers, Creates(p)
          PROVE  RingInv'
      <3>1. p \in Procs /\ (Goes(p, "create", "create") \/ Goes(p, "create", "menu"))
        BY <2>2 DEF Creates, Continues, Goes, Procs
      <3>2. \A q \in Procs : at'[q] = "write" => at[q] = "write"
        BY <1>3, <3>1
      <3>3. UNCHANGED <<value, in, out, taken, alarm, read>>
        BY <2>2 DEF Creates
      <3> QED BY <1>2, <1>7, <3>2, <3>3
    <2>3. CASE Quiet
      <3>1. CASE UNCHANGED at
        BY <1>2, <1>7, <2>3, <3>1 DEF Quiet
      <3>2. ASSUME NEW p \in Procs, NEW from \in Labels \ Middle, NEW to \in Labels \ Middle,
                   Goes(p, from, to)
            PROVE  RingInv'
        <4>1. \A q \in Procs : at'[q] = "write" => at[q] = "write"
          BY <1>3, <3>2 DEF Middle
        <4> QED BY <1>2, <1>7, <2>3, <4>1 DEF Quiet
      <3> QED BY <2>3, <3>1, <3>2 DEF Quiet
    <2> QED BY <1>4, <1>5, <1>6, <2>1, <2>2, <2>3, Kinds DEF Rest, Procs
  <1> QED BY <1>5, <1>6, <1>7, KeepsPlaces DEF Rest

-----------------------------------------------------------------------------
(* The types.                                                              *)

\* All types but those of the semaphores and the numbers.
Typed ==
    /\ names \subseteq Names /\ gone \subseteq Names \ names
    /\ len \in {0, TheSize} /\ pcSized \in BOOLEAN
    /\ buffer \in [Places -> Nat]
    /\ in \in Nat /\ out \in Nat
    /\ at \in [Procs -> Labels]
    /\ step \in [Procs -> 1..8]
    /\ has \in [Procs -> SUBSET Names]
    /\ size \in [Procs -> {0, TheSize}]
    /\ read \in [Procs -> Nat \X Nat]
    /\ crashed \subseteq Producers
    /\ creations \in 0..MaxCreations
    /\ taken \in Seq(Nat) /\ alarm \in BOOLEAN

\* What a process that goes through a list of names does to its place in it.
LEMMA ContinuesTypes ==
  ASSUME TypeOK, NEW p \in Procs, NEW from, NEW to \in Labels, Goes(p, from, to),
         NEW n \in 1..8, step[p] <= n,
         step' = [step EXCEPT ![p] = IF @ = n THEN 1 ELSE @ + 1]
  PROVE  at' \in [Procs -> Labels] /\ step' \in [Procs -> 1..8]
  <1>1. step \in [Procs -> 1..8]
    <2>1. Len(Opening) = 8
      BY Creating
    <2> QED BY <2>1 DEF TypeOK
  <1>2. at' \in [Procs -> Labels]
    BY GoesTypes
  <1>3. step[p] \in 1..8 /\ (IF step[p] = n THEN 1 ELSE step[p] + 1) \in 1..8
    <2>1. step[p] \in 1..8
      BY <1>1
    <2>2. step[p] # n => step[p] + 1 <= 8
      BY <2>1
    <2> QED BY <2>1, <2>2
  <1> QED BY <1>1, <1>2, <1>3

\* Memory that gets a length keeps its type.
LEMMA TruncatesTypes ==
  ASSUME Bounds, TypeOK, NEW p \in Producers, Truncates(SizeOf[p])
  PROVE  len' \in {0, TheSize} /\ buffer' \in [Places -> Nat]
  <1>1. SizeOf[p] = TheSize /\ buffer \in [Places -> Nat]
    BY DEF Bounds, TypeOK
  <1> QED BY <1>1 DEF Truncates

\* Every step keeps the types.
LEMMA TypedStep ==
  ASSUME Bounds, Rest, [Next]_vars
  PROVE  Typed'
  <1>1. Typed /\ TypeOK /\ value \in Nat
    <2>1. TypeOK /\ Len(Opening) = 8
      BY Creating DEF Rest
    <2>2. value \in Nat /\ in \in Nat /\ out \in Nat
      BY <2>1 DEF TypeOK, Bounds
    <2>3. step \in [Procs -> 1..8]
      BY <2>1 DEF TypeOK
    <2> QED BY <2>1, <2>2, <2>3 DEF TypeOK, Typed
  <1> USE DEF Procs
  <1>2. ASSUME NEW p \in Procs, Opens(p)
        PROVE  Typed'
    <2> DEFINE x == Opening[step[p]]  end == IF p \in Producers THEN "menu" ELSE "work"
    <2>1. UNCHANGED <<names, gone, in, out, taken, alarm, read, crashed, creations>>
      BY <1>2 DEF Opens
    <2>2. CASE /\ Continues(p, "open", Opening, end)
               /\ has' = [has EXCEPT ![p] = @ \cup ({x} \cap Names)]
               /\ IF x = "map" /\ p \in Producers
                  THEN Truncates(SizeOf[p]) ELSE UNCHANGED <<len, buffer>>
               /\ size' = IF x = "size" THEN [size EXCEPT ![p] = len] ELSE size
               /\ pcSized' = (pcSized \/ x = "pcmap")
      <3>1. at' \in [Procs -> Labels] /\ step' \in [Procs -> 1..8]
        <4>1. step[p] <= 8 /\ Len(Opening) = 8
          <5>1. Len(Opening) = 8
            BY Creating
          <5>2. step[p] \in 1..8
            BY <1>1 DEF Typed
          <5> QED BY <5>1, <5>2
        <4>2. "open" \in Labels /\ end \in Labels /\ 8 \in 1..8
          BY DEF Labels
        <4>3. PICK to \in Labels : Goes(p, "open", to)
          BY <2>2, <4>2 DEF Continues
        <4>4. step' = [step EXCEPT ![p] = IF @ = 8 THEN 1 ELSE @ + 1]
          BY <2>2, <4>1 DEF Continues
        <4> QED BY <1>1, <4>1, <4>2, <4>3, <4>4, ContinuesTypes
      <3>2. len' \in {0, TheSize} /\ buffer' \in [Places -> Nat]
        BY <1>1, <2>2, TruncatesTypes DEF Typed
      <3> HIDE DEF x
      <3>3. has' \in [Procs -> SUBSET Names]
        <4>1. has[p] \cup ({x} \cap Names) \in SUBSET Names
          BY <1>1 DEF Typed
        <4> QED BY <1>1, <2>2, <4>1 DEF Typed
      <3>4. size' \in [Procs -> {0, TheSize}]
        <4>1. CASE x = "size"
          BY <1>1, <2>2, <4>1 DEF Typed
        <4>2. CASE x # "size"
          BY <1>1, <2>2, <4>2 DEF Typed
        <4> QED BY <4>1, <4>2
      <3>5. pcSized' \in BOOLEAN
        BY <2>2
      <3> QED BY <1>1, <2>1, <3>1, <3>2, <3>3, <3>4, <3>5 DEF Typed
    <2>3. CASE /\ Goes(p, "open", "off") /\ step' = [step EXCEPT ![p] = 1]
               /\ UNCHANGED <<has, len, buffer, size, pcSized>>
      <3>1. at' \in [Procs -> Labels] /\ step' \in [Procs -> 1..8]
        BY <1>1, <2>3, GoesTypes DEF Typed, Labels
      <3> QED BY <1>1, <2>1, <2>3, <3>1 DEF Typed
    <2> QED BY <1>2, <2>2, <2>3 DEF Opens
  <1>3. ASSUME NEW p \in Producers, Creates(p)
        PROVE  Typed'
    <2> DEFINE x == Creation[step[p]]
    <2>1. /\ UNCHANGED <<gone, in, out, taken, alarm, size, read, crashed, creations>>
          /\ x \notin gone
      BY <1>3 DEF Creates
    <2>2. at' \in [Procs -> Labels] /\ step' \in [Procs -> 1..8]
      <3>1. Continues(p, "create", Creation, "menu") /\ at[p] = "create"
        BY <1>3 DEF Creates, Continues, Goes
      <3>2. step[p] <= 7 /\ Len(Creation) = 7
        BY <3>1, Creating DEF Rest, NamesInv
      <3>3. PICK to \in Labels : Goes(p, "create", to)
        BY <3>1 DEF Labels, Continues
      <3>4. step' = [step EXCEPT ![p] = IF @ = 7 THEN 1 ELSE @ + 1] /\ 7 \in 1..8
        BY <3>1, <3>2 DEF Continues
      <3> QED BY <1>1, <3>2, <3>3, <3>4, ContinuesTypes
    <2>3. len' \in {0, TheSize} /\ buffer' \in [Places -> Nat]
      <3>1. UNCHANGED <<len, buffer>> \/ Truncates(SizeOf[p])
        BY <1>3 DEF Creates
      <3> QED BY <1>1, <3>1, TruncatesTypes DEF Typed
    <2>4. /\ \/ x \in Names /\ names' = names \cup {x}
             \/ UNCHANGED names
          /\ \/ has' = has
             \/ /\ x \in Names
                /\ has' = [has EXCEPT ![p] = IF x \in names THEN @ \ {x} ELSE @ \cup {x}]
      BY <1>3 DEF Creates
    <2>5. pcSized' \in BOOLEAN
      <3>1. pcSized \in BOOLEAN /\ (pcSized' = pcSized \/ \E b \in BOOLEAN : pcSized' = b)
        BY <1>1, <1>3 DEF Creates, Typed
      <3> QED BY <3>1
    <2> HIDE DEF x
    <2>6. names' \subseteq Names /\ gone' \subseteq Names \ names'
      BY <1>1, <2>1, <2>4 DEF Typed
    <2>7. has' \in [Procs -> SUBSET Names]
      <3>1. CASE x \in Names /\ x \in names /\ has' = [has EXCEPT ![p] = @ \ {x}]
        BY <1>1, <3>1 DEF Typed
      <3>2. CASE x \in Names /\ x \notin names /\ has' = [has EXCEPT ![p] = @ \cup {x}]
        BY <1>1, <3>2 DEF Typed
      <3>3. CASE has' = has
        BY <1>1, <3>3 DEF Typed
      <3> QED BY <2>4, <3>1, <3>2, <3>3
    <2> QED BY <1>1, <2>1, <2>2, <2>3, <2>5, <2>6, <2>7 DEF Typed
  <1>4. ASSUME NEW p \in Producers, Removes(p)
        PROVE  Typed'
    <2>1. UNCHANGED <<len, pcSized, buffer, in, out, taken, alarm, has, size, read, crashed,
                     creations>>
      BY <1>4 DEF Removes
    <2>2. at' \in [Procs -> Labels] /\ step' \in [Procs -> 1..8]
      <3>1. Continues(p, "remove", Removal, "off") /\ at[p] = "remove"
        BY <1>4 DEF Removes, Continues, Goes
      <3>2. step[p] <= 5 /\ Len(Removal) = 5
        BY <3>1, Creating DEF Rest, NamesInv
      <3>3. PICK to \in Labels : Goes(p, "remove", to)
        BY <3>1 DEF Labels, Continues
      <3>4. step' = [step EXCEPT ![p] = IF @ = 5 THEN 1 ELSE @ + 1] /\ 5 \in 1..8
        BY <3>1, <3>2 DEF Continues
      <3> QED BY <1>1, <3>2, <3>3, <3>4, ContinuesTypes
    <2>3. PICK n : names' = names \ {n} /\ gone' = gone \cup (names \cap {n})
      BY <1>4 DEF Removes
    <2>4. names' \subseteq Names /\ gone' \subseteq Names \ names'
      BY <1>1, <2>3 DEF Typed
    <2> QED BY <1>1, <2>1, <2>2, <2>4 DEF Typed
  <1>5. ASSUME NEW p \in Producers, Chooses(p)
        PROVE  Typed'
    <2>1. PICK to \in Labels : Goes(p, "menu", to) /\ (to = "create" => creations < MaxCreations)
      BY <1>5 DEF Chooses, Labels
    <2>2. at' \in [Procs -> Labels] /\ at'[p] = to
      BY <1>1, <2>1, GoesTypes
    <2>3. creations' \in 0..MaxCreations
      <3>1. creations \in Nat /\ creations <= MaxCreations /\ MaxCreations \in Nat
        BY <1>1 DEF Typed, Bounds
      <3>2. creations' = creations + (IF to = "create" THEN 1 ELSE 0)
        BY <1>5, <2>2 DEF Chooses
      <3> QED BY <2>1, <3>1, <3>2
    <2> QED BY <1>1, <1>5, <2>2, <2>3 DEF Typed, Chooses
  <1>6. ASSUME NEW c \in Consumers, Starts(c)
        PROVE  Typed'
    <2>1. at' \in [Procs -> Labels]
      BY <1>1, <1>6, GoesTypes DEF Starts, Labels
    <2>2. has' \in [Procs -> SUBSET Names]
      BY <1>1, <1>6 DEF Starts, Typed
    <2> QED BY <1>1, <1>6, <2>1, <2>2 DEF Typed, Starts
  <1>7. ASSUME NEW p \in Procs, GoesOn(p)
        PROVE  Typed'
    <2>1. at' \in [Procs -> Labels]
      BY <1>1, <1>7, GoesTypes DEF GoesOn, Labels
    <2> QED BY <1>1, <1>7, <2>1 DEF Typed, GoesOn
  <1>8. ASSUME NEW p \in Procs, NEW mine, NEW other, Locks(p, mine, other)
        PROVE  Typed'
    <2>1. at' \in [Procs -> Labels]
      BY <1>1, <1>8, GoesTypes DEF Locks, Labels
    <2> QED BY <1>1, <1>8, <2>1 DEF Typed, Locks
  <1>9. ASSUME NEW p \in Procs, Crashes(p)
        PROVE  Typed'
    BY <1>1, <1>9 DEF Typed, Crashes
  <1>10. ASSUME NEW p \in Procs, Reads(p)
         PROVE  Typed'
    <2>1. at' \in [Procs -> Labels]
      BY <1>1, <1>10, GoesTypes DEF Reads, Labels
    <2>2. read' \in [Procs -> Nat \X Nat]
      <3>1. at[p] = "inside"
        BY <1>10 DEF Reads, Goes
      <3>2. size[p] = TheSize
        BY <3>1, RightSize DEF Rest
      <3>3. out % TheSize \in Places
        BY <1>1, Division DEF Typed, Bounds
      <3>4. <<in, value + 1>> \in Nat \X Nat /\ <<out, buffer[out % size[p]]>> \in Nat \X Nat
        BY <1>1, <3>2, <3>3 DEF Typed
      <3> QED BY <1>1, <1>10, <3>4 DEF Reads, Typed
    <2>3. alarm' \in BOOLEAN
      BY <1>10 DEF Reads
    <2> QED BY <1>1, <1>10, <2>1, <2>2, <2>3 DEF Typed, Reads
  <1>11. ASSUME NEW p \in Producers, Appends(p)
         PROVE  Typed'
    <2>1. at' \in [Procs -> Labels]
      BY <1>1, <1>11, GoesTypes DEF Appends, Labels
    <2>2. read[p] \in Nat \X Nat /\ read[p][1] \in Nat /\ read[p][2] \in Nat
      BY <1>1 DEF Typed
    <2>3. buffer' \in [Places -> Nat] /\ in' \in Nat
      <3>1. PICK k : buffer' = [buffer EXCEPT ![k] = read[p][2]] /\ in' = read[p][1] + 1
        BY <1>11 DEF Appends
      <3>2. buffer \in [Places -> Nat]
        BY <1>1 DEF Typed
      <3>3. buffer' \in [Places -> Nat]
        BY <2>2, <3>1, <3>2
      <3> QED BY <2>2, <3>1, <3>3
    <2> QED BY <1>1, <1>11, <2>1, <2>3 DEF Typed, Appends
  <1>12. ASSUME NEW c \in Consumers, Takes(c)
         PROVE  Typed'
    <2>1. at' \in [Procs -> Labels]
      BY <1>1, <1>12, GoesTypes DEF Takes, Labels
    <2>2. read[c] \in Nat \X Nat /\ read[c][1] \in Nat /\ read[c][2] \in Nat
      BY <1>1 DEF Typed
    <2>3. buffer' \in [Places -> Nat] /\ out' \in Nat /\ taken' \in Seq(Nat)
      <3>1. PICK k : /\ buffer' = [buffer EXCEPT ![k] = 0] /\ out' = read[c][1] + 1
                     /\ taken' = Append(taken, read[c][2])
        BY <1>12 DEF Takes
      <3>2. buffer \in [Places -> Nat] /\ taken \in Seq(Nat)
        BY <1>1 DEF Typed
      <3>3. buffer' \in [Places -> Nat]
        BY <2>2, <3>1, <3>2
      <3>4. taken' \in Seq(Nat)
        BY <2>2, <3>1, <3>2
      <3> QED BY <2>2, <3>1, <3>3, <3>4
    <2> QED BY <1>1, <1>12, <2>1, <2>3 DEF Typed, Takes
  <1>13. CASE UNCHANGED vars
    BY <1>1, <1>13 DEF Typed
  <1> QED BY <1>2, <1>3, <1>4, <1>5, <1>6, <1>7, <1>8, <1>9, <1>10, <1>11, <1>12, <1>13 DEF Next

\* The sums bound the semaphores, and who is at work the numbers.
LEMMA TypesStep ==
  ASSUME Bounds, IInv, [Next]_vars,
         NamesInv', SemaphoreAccounts', InsideInv', ValueInv', value' \in Nat,
         sem' \in [{"e", "n", "s"} -> Nat]
  PROVE  TypeOK'
  <1>1. Rest /\ TypeOK
    BY DEF IInv, Rest
  <1>2. Typed'
    BY <1>1, TypedStep
  <1>3. /\ TheSize \in Nat \ {0} /\ sem \in [{"e", "n", "s"} -> 0..TheSize]
        /\ sem'["e"] \in Nat /\ sem'["n"] \in Nat /\ sem'["s"] \in Nat
    BY <1>1 DEF TypeOK, Bounds
  <1>4. Cardinality(Hands') \in Nat /\ Cardinality(Owners') \in Nat
    BY FinitelyMany DEF Hands, Owners, At
  <1>5. sem'["e"] <= TheSize /\ sem'["n"] <= TheSize /\ sem'["s"] <= TheSize
    <2>1. CASE "s" \in Known'
      <3>1. /\ sem'["e"] + sem'["n"] + Cardinality(Hands') = TheSize
            /\ sem'["s"] + Cardinality(Owners') = 1
        BY <2>1 DEF SemaphoreAccounts
      <3> QED BY <1>3, <1>4, <3>1
    <2>2. CASE "s" \notin Known'
      <3>1. sem'["e"] <= TheSize /\ sem'["n"] <= TheSize
        BY <1>3, <2>2 DEF NamesInv
      <3>2. sem'["s"] = sem["s"]
        <4>1. ASSUME NEW p \in Procs, NEW mine, NEW other, Locks(p, mine, other)
              PROVE  FALSE
          <5>1. p \in Hands \/ (at[p] = "work" /\ has[p] # {})
            BY <4>1 DEF Locks, Goes, Hands, At
          <5> QED BY <1>1, <2>2, <4>1, <5>1, Working DEF Rest, Locks, Known
        <4>2. ASSUME NEW p \in Producers, Creates(p)
              PROVE  sem'["s"] = sem["s"]
          <5> DEFINE x == Creation[step[p]]
          <5>1. /\ Known' = IF x \in Names THEN Known \cup {x} ELSE Known
                /\ "s" \notin Known =>
                    /\ x = "e" => UNCHANGED sem \/ sem' = [sem EXCEPT !["e"] = TheSize]
                    /\ x = "n" => UNCHANGED sem \/ sem' = [sem EXCEPT !["n"] = 0]
                    /\ x \notin {"e", "n", "s"} => UNCHANGED sem
            BY <1>1, <4>2, CreatesKnown DEF Rest
          <5>2. "s" \in Names
            BY DEF Names
          <5> HIDE DEF x
          <5>3. x # "s" /\ "s" \notin Known
            BY <2>2, <5>1, <5>2
          <5> QED BY <1>3, <5>1, <5>3
        <4>3. CASE \/ \E p \in Procs : Reads(p)
                   \/ \E p \in Producers : Appends(p)
                   \/ \E c \in Consumers : Takes(c)
                   \/ Quiet
          BY <4>3 DEF Reads, Appends, Takes, Quiet
        <4> QED BY <1>1, <4>1, <4>2, <4>3, Kinds DEF Rest, Procs
      <3> QED BY <1>3, <3>1, <3>2
    <2> QED BY <2>1, <2>2
  <1>6. sem' \in [{"e", "n", "s"} -> 0..TheSize]
    BY <1>3, <1>5
  <1>7. {value', in', out'} \subseteq 0 .. MaxData + Cardinality(Producers)
    <2>1. Cardinality(Producers) \in Nat /\ MaxData \in Nat
      BY FS_CardinalityType DEF Bounds
    <2>2. Cardinality(Producing') \in Nat
      BY FinitelyMany DEF Producing, At
    <2>3. value' <= MaxData + Cardinality(Producers)
      BY <2>1, <2>2 DEF ValueInv
    <2>4. Cardinality(Coming') \in Nat
      BY FinitelyMany DEF Coming, At
    <2>5. in' = value' /\ out' <= in' /\ out' \in Nat
      BY <1>2, <1>3, <2>4 DEF InsideInv, Typed
    <2> QED BY <2>1, <2>3, <2>5
  <1> QED BY <1>2, <1>6, <1>7, Creating DEF TypeOK, Typed

-----------------------------------------------------------------------------
(* The theorems.                                                           *)

\* At the start there are no names, and nobody is at work.
LEMMA Start ==
  ASSUME Bounds, Init
  PROVE  IInv
  <1>1. /\ Known = {} /\ creations = 0 /\ crashed = {} /\ alarm = FALSE
        /\ value = 0 /\ in = 0 /\ out = 0 /\ taken = <<>> /\ Len(taken) = 0
        /\ sem["e"] = 0 /\ sem["n"] = 0 /\ sem["s"] = 0
    BY DEF Init, Known
  <1>2. /\ \A p \in Procs : at[p] = IF p \in Producers THEN "menu" ELSE "off"
        /\ \A p \in Procs : at[p] = "menu" \/ at[p] = "off"
        /\ \A p \in Procs : step[p] = 1 /\ has[p] = {}
        /\ \A p \in Procs : p \in Producers => size[p] = TheSize
        /\ \A p \in Procs : p \in Consumers => p \notin Producers
    BY DEF Init, Bounds
  <1>3. TypeOK
    <2>1. /\ TheSize \in Nat /\ 0 \in 0..TheSize /\ MaxCreations \in Nat /\ 0 \in 0..MaxCreations
          /\ Len(Opening) = 8 /\ 1 \in 1..8
      BY Creating DEF Bounds
    <2>2. 0 \in 0 .. MaxData + Cardinality(Producers)
      <3>1. MaxData \in Nat /\ Cardinality(Producers) \in Nat
        BY FS_CardinalityType DEF Bounds
      <3> QED BY <3>1
    <2>3. /\ sem \in [{"e", "n", "s"} -> 0..TheSize] /\ buffer \in [Places -> Nat]
          /\ read \in [Procs -> Nat \X Nat]
      BY <2>1 DEF Init
    <2>4. at \in [Procs -> Labels] /\ has \in [Procs -> SUBSET Names]
      BY DEF Init, Labels
    <2>5. step \in [Procs -> 1..Len(Opening)]
      BY <2>1 DEF Init
    <2>6. size \in [Procs -> {0, TheSize}]
      BY DEF Init, Bounds
    <2>7. taken \in Seq(Nat)
      BY <1>1, EmptySeq
    <2>8. /\ names \subseteq Names /\ gone \subseteq Names \ names
          /\ len \in {0, TheSize} /\ pcSized \in BOOLEAN
      BY DEF Init
    <2> QED BY <1>1, <2>1, <2>2, <2>3, <2>4, <2>5, <2>6, <2>7, <2>8 DEF TypeOK
  <1>4. Hands = {} /\ Owners = {} /\ Coming = {} /\ Producing = {} /\ Cardinality({}) = 0
    BY <1>2, FS_EmptySet DEF Hands, Owners, Coming, Producing, At
  <1>5. NamesInv
    BY <1>1, <1>2, <1>4 DEF NamesInv
  <1>6. SizeInv
    <2> SUFFICES ASSUME NEW p \in Procs
                 PROVE  /\ p \in Producers => size[p] = TheSize
                        /\ p \in Consumers => at[p] \notin {"menu", "create", "remove"}
                        /\ at[p] # "open"
                        /\ at[p] \notin {"open", "off"} => size[p] = TheSize
      BY DEF SizeInv
    <2> QED BY <1>2
  <1>7. CreatorInv
    BY <1>1, <1>2 DEF CreatorInv
  <1>8. SemaphoreAccounts
    BY <1>1 DEF SemaphoreAccounts
  <1>9. InsideInv
    BY <1>1, <1>4 DEF InsideInv
  <1>10. ValueInv
    <2>1. MaxData \in Nat /\ Cardinality(Producers) \in Nat
      BY FS_CardinalityType DEF Bounds
    <2> QED BY <1>1, <1>4, <2>1 DEF ValueInv
  <1>11. RingInv
    <2>1. \A x \in 0 .. TheSize - 1 : buffer[x] = 0
      BY DEF Init, Bounds
    <2>2. 0 .. 0 - 1 = {} /\ DOMAIN <<>> = {}
      OBVIOUS
    <2>3. NoAlarm /\ TakenInOrder
      BY <1>1, <2>2 DEF NoAlarm, TakenInOrder
    <2>4. \A p \in Procs : at[p] # "write"
      BY <1>2
    <2> QED BY <1>1, <2>1, <2>2, <2>3, <2>4 DEF RingInv
  <1> QED BY <1>3, <1>5, <1>6, <1>7, <1>8, <1>9, <1>10, <1>11 DEF IInv

\* Every step keeps all parts of the invariant.
LEMMA Step ==
  ASSUME Bounds, IInv, [Next]_vars
  PROVE  IInv'
  <1>1. Rest
    BY DEF IInv, Rest
  <1>2. NamesInv' /\ SizeInv' /\ CreatorInv'
    BY NamesStep, SizeStep, CreatorStep DEF IInv
  <1>3. SemaphoreAccounts' /\ sem' \in [{"e", "n", "s"} -> Nat]
    BY AccountsStep DEF IInv
  <1>4. InsideInv' /\ ValueInv' /\ value' \in Nat
    BY InsideStep, ValueStep DEF IInv
  <1>5. RingInv'
    BY <1>1, RingStep
  <1>6. TypeOK'
    BY <1>2, <1>3, <1>4, TypesStep
  <1> QED BY <1>2, <1>3, <1>4, <1>5, <1>6 DEF IInv

\* The names, the semaphores, what is inside and the ring are as IInv says in every
\* reachable state.
THEOREM Invariance == ASSUME Bounds PROVE Spec => []IInv
  <1>1. Init => IInv
    BY Start
  <1>2. IInv /\ [Next]_vars => IInv'
    BY Step
  <1> QED BY <1>1, <1>2, PTL DEF Spec

\* The sums of work() are right for any number of producers and consumers, whatever
\* users create, open, remove and quit, and also when producers crash.
THEOREM SemaphoresAddUp == ASSUME Bounds PROVE Spec => []SemaphoreAccounts
  <1>1. IInv => SemaphoreAccounts
    BY DEF IInv
  <1> QED BY <1>1, Invariance, PTL

\* Producers use names they do not have only if two users have chosen "c".
THEOREM OneCreatorIsEnough == ASSUME Bounds PROVE Spec => []CrashedAfterTwo
  <1>1. ASSUME Bounds, IInv
        PROVE  CrashedAfterTwo
    <2>1. creations \in Nat
      BY <1>1 DEF IInv, TypeOK
    <2> QED BY <1>1, <2>1 DEF IInv, CreatorInv, CrashedAfterTwo
  <1> QED BY <1>1, Invariance, PTL

\* The producers never find a filled place, and the consumers together take 1, 2, 3, ....
THEOREM InOrder == ASSUME Bounds PROVE Spec => [](NoAlarm /\ TakenInOrder)
  <1>1. IInv => NoAlarm /\ TakenInOrder
    BY DEF IInv, RingInv
  <1> QED BY <1>1, Invariance, PTL

-----------------------------------------------------------------------------
(* The refinement.                                                         *)

\* append puts the next number in, where there is a place.
LEMMA AppendsPuts ==
  ASSUME Bounds, IInv, NEW p \in Producers, Appends(p)
  PROVE  Fifo!Put
  <1>1. Rest
    BY DEF IInv, Rest
  <1>2. /\ out \in Nat /\ in \in Nat /\ out <= in /\ TheSize \in Nat \ {0} /\ in = value
    BY <1>1, Room DEF Rest, InsideInv, Bounds
  <1>3. /\ Holding /\ Holding' /\ in < out + TheSize
        /\ in' = in + 1 /\ value' = value + 1 /\ UNCHANGED out
    BY <1>1, AppendsRing
  <1>4. RingHolds(buffer, TheSize, out, in) /\ RingHolds(buffer', TheSize, out, in + 1)
    BY <1>3 DEF Holding
  <1>5. Inside = Window(buffer, TheSize, out, in) /\ Inside' = Window(buffer', TheSize, out, in + 1)
    BY <1>3 DEF Inside, Window
  <1>6. Len(Inside) = in - out
    <2>1. Len(Window(buffer, TheSize, out, in)) = in - out
      BY <1>2, <1>4, Reading
    <2> QED BY <1>5, <2>1
  <1>7. Inside' = Append(Inside, in + 1)
    BY <1>2, <1>4, <1>5, Puts
  <1> QED BY <1>2, <1>3, <1>6, <1>7 DEF Fifo!Put

\* take gets the oldest.
LEMMA TakesGets ==
  ASSUME Bounds, IInv, NEW c \in Consumers, Takes(c)
  PROVE  Fifo!Get
  <1>1. Rest
    BY DEF IInv, Rest
  <1>2. out \in Nat /\ in \in Nat /\ TheSize \in Nat \ {0}
    BY <1>1, Room DEF Rest, Bounds
  <1>3. /\ Holding /\ Holding' /\ out < in
        /\ out' = out + 1 /\ UNCHANGED <<in, value>>
    BY <1>1, TakesRing
  <1>4. RingHolds(buffer, TheSize, out, in) /\ RingHolds(buffer', TheSize, out + 1, in)
    BY <1>3 DEF Holding
  <1>5. Inside = Window(buffer, TheSize, out, in) /\ Inside' = Window(buffer', TheSize, out + 1, in)
    BY <1>3 DEF Inside, Window
  <1>6. Inside # <<>> /\ Inside' = Tail(Inside)
    BY <1>2, <1>3, <1>4, <1>5, Gets
  <1> QED BY <1>3, <1>6 DEF Fifo!Get

\* What is read from a ring that has not changed.
LEMMA SameInside ==
  ASSUME Bounds, IInv, UNCHANGED <<in, out>>,
         \A x \in 0 .. TheSize - 1 : buffer'[x] = buffer[x]
  PROVE  Inside' = Inside
  <1>1. in \in Nat /\ out \in Nat /\ out <= in /\ TheSize \in Nat \ {0}
    BY Room DEF IInv, Bounds
  <1>2. ASSUME NEW k \in 1 .. in - out
        PROVE  buffer'[(out + k - 1) % TheSize] = buffer[(out + k - 1) % TheSize]
    <2> DEFINE j == out + k - 1
    <2>1. j \in Nat
      BY <1>1
    <2> HIDE DEF j
    <2>2. j % TheSize \in 0 .. TheSize - 1
      BY <1>1, <2>1, Division
    <2>3. buffer'[j % TheSize] = buffer[j % TheSize]
      BY <2>2
    <2> QED BY <2>3 DEF j
  <1>3. Inside' = [k \in 1 .. in - out |-> buffer'[(out + k - 1) % TheSize]]
    BY DEF Inside
  <1> QED BY <1>2, <1>3 DEF Inside

\* The buffer is a bounded FIFO for any number of producers and consumers: every step
\* puts the next number in, gets the oldest, or is none of the FIFO's business.
THEOREM FifoImplemented == ASSUME Bounds PROVE Spec => ImplementsFifo
  <1>1. Init => Fifo!FifoInit
    <2> SUFFICES ASSUME Init PROVE Fifo!FifoInit
      OBVIOUS
    <2>1. value = 0 /\ in = 0 /\ out = 0
      BY DEF Init
    <2>2. Inside = [k \in 1 .. 0 |-> buffer[(0 + k - 1) % TheSize]] /\ 1 .. 0 = {}
      BY <2>1 DEF Inside
    <2>3. Inside = <<>>
      BY <2>2
    <2> QED BY <2>1, <2>3 DEF Fifo!FifoInit
  <1>2. IInv /\ [Next]_vars => [Fifo!FifoNext]_(Fifo!fifoVars)
    <2> SUFFICES ASSUME IInv, [Next]_vars
                 PROVE  Fifo!FifoNext \/ UNCHANGED <<value, Inside>>
      BY DEF Fifo!fifoVars
    <2>1. ASSUME NEW p \in Producers, Appends(p)
          PROVE  Fifo!FifoNext
      BY <2>1, AppendsPuts DEF Fifo!FifoNext
    <2>2. ASSUME NEW c \in Consumers, Takes(c)
          PROVE  Fifo!FifoNext
      BY <2>2, TakesGets DEF Fifo!FifoNext
    <2>3. CASE \A x \in 0 .. TheSize - 1 : buffer'[x] = buffer[x]
      <3>1. \/ \E p \in Producers : Appends(p)
            \/ \E c \in Consumers : Takes(c)
            \/ UNCHANGED <<value, in, out>>
        <4>1. \/ \E p \in Producers : Locks(p, "e", "n") \/ Appends(p) \/ Creates(p)
              \/ \E c \in Consumers : Locks(c, "n", "e") \/ Takes(c)
              \/ \E p \in Procs : Reads(p)
              \/ Quiet
          BY Kinds DEF IInv
        <4> QED BY <4>1 DEF Locks, Creates, Reads, Quiet
      <3> QED BY <2>1, <2>2, <2>3, <3>1, SameInside
    <2>4. TypeOK /\ NamesInv /\ SizeInv
      BY DEF IInv
    <2> QED BY <2>1, <2>2, <2>3, <2>4, KeepsPlaces
  <1> QED BY <1>1, <1>2, Invariance, PTL DEF Spec, ImplementsFifo, Fifo!FifoSpec
=============================================================================
