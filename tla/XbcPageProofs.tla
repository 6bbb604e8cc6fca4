---------------------------- MODULE XbcPageProofs ----------------------------
(***************************************************************************)
(* Proofs about the page and its commands, for any number of ids, rounds,  *)
(* clicks, controllers, handles and places in the queue. Polling and       *)
(* commands have nothing in common but the tables that are parsed, so each *)
(* has its own lemmas.                                                     *)
(***************************************************************************)
EXTENDS XbcPageProperties, SequenceTheorems, TLAPS

USE DEF vars, pollVars, commandVars, tableVars

\* The ids, and the versions of an answer.
LEMMA Basics ==
  ASSUME MaxDevs \in Nat \ {0}, MaxRounds \in Nat
  PROVE  /\ 0 \in Ids /\ Ids \subseteq Nat /\ Ids \subseteq 0..MaxDevs
         /\ \A k \in Nat : (k + 1) % MaxDevs \in Ids
         /\ NotShown \in [id : 0..MaxDevs, version : 0..MaxRounds]
         /\ NotShown.id = MaxDevs /\ NotShown.version = 0
         /\ Unread \in Nat /\ Unread \notin 0..MaxRounds /\ 0..MaxRounds \subseteq 0..Unread
         /\ 0..Unread = 0..MaxRounds \cup {Unread}
  BY DEF Ids, NotShown, Unread

-----------------------------------------------------------------------------
(* Polling.                                                                *)

PollPart == PollTypeOK /\ PollInv /\ AnswersInPlace

\* A poll reads what the page has not shown yet, or has shown last.
LEMMA ReadsKeeps ==
  ASSUME MaxDevs \in Nat \ {0}, MaxRounds \in Nat, PollPart, NEW p \in polls, Reads(p)
  PROVE  PollPart'
  <1> DEFINE q == [p EXCEPT !.version = slots[p.id]]
  <1> USE DEF PollPart, PollTypeOK, PollInv, AnswersInPlace
  <1>1. polls = {p} /\ p.id = idx /\ p \in [id : Ids, version : 0..Unread]
    OBVIOUS
  <1>2. idx \in Ids /\ slots[idx] \in 0..MaxRounds /\ shown[idx].version <= slots[idx]
    OBVIOUS
  <1>3. q \in [id : Ids, version : 0..Unread] /\ q.id = idx /\ q.version = slots[idx]
    BY <1>1, <1>2, Basics
  <1> HIDE DEF q
  <1>4. polls' = {q} /\ UNCHANGED <<parsed, idx, shown, slots>>
    BY <1>1 DEF Reads, q
  <1>5. PollTypeOK'
    BY <1>3, <1>4
  <1>6. PollInv'
    <2>1. \A r, t \in polls' : r = t
      BY <1>4
    <2>2. \A r \in polls' : r.id = idx' /\ (r.version # Unread =>
                shown'[r.id].version <= r.version /\ r.version <= slots'[r.id])
      BY <1>2, <1>3, <1>4
    <2> QED BY <1>4, <2>1, <2>2
  <1> QED BY <1>4, <1>5, <1>6

\* The answer is for the table it is put in, and the next request for the next.
LEMMA AnswersKeeps ==
  ASSUME MaxDevs \in Nat \ {0}, MaxRounds \in Nat, PollPart, NEW p \in polls, Answers(p)
  PROVE  /\ PollPart'
         /\ \A i \in Ids : shown'[i].version >= shown[i].version
  <1> USE Basics DEF PollPart, PollTypeOK, PollInv, AnswersInPlace
  <1>1. polls = {p} /\ p.id = idx /\ p.version \in 0..MaxRounds /\ idx \in Nat
    BY DEF Answers
  <1>2. CASE idx < parsed
    <2> DEFINE q == [id |-> (idx + 1) % MaxDevs, version |-> Unread]
    <2>1. shown' = [shown EXCEPT ![idx] = p] /\ idx' = q.id /\ polls' = {q}
      BY <1>1, <1>2 DEF Answers
    <2>2. q \in [id : Ids, version : 0..Unread] /\ q.version = Unread
      BY <1>1
    <2>3. UNCHANGED <<parsed, slots>>
      BY DEF Answers
    <2> HIDE DEF q
    <2>4. p \in [id : 0..MaxDevs, version : 0..MaxRounds]
      BY <1>1
    <2>5. \A i \in Ids : shown'[i] = IF i = idx THEN p ELSE shown[i]
      BY <2>1
    <2>6. PollTypeOK'
      BY <2>1, <2>2, <2>3, <2>4
    <2>7. PollInv'
      BY <1>1, <2>1, <2>2, <2>3, <2>5
    <2>8. AnswersInPlace'
      BY <1>1, <2>5 DEF NotShown
    <2>9. \A i \in Ids : shown'[i].version >= shown[i].version
      BY <1>1, <2>5
    <2> QED BY <2>6, <2>7, <2>8, <2>9
  <1>3. CASE ~(idx < parsed)
    BY <1>1, <1>3 DEF Answers
  <1> QED BY <1>2, <1>3

\* Everything else leaves what is out and what is shown as it is, or forgets the
\* request.
LEMMA PollStep ==
  ASSUME MaxDevs \in Nat \ {0}, MaxRounds \in Nat, PollPart, [Next]_vars
  PROVE  /\ PollPart'
         /\ \A i \in Ids : shown'[i].version >= shown[i].version
  <1> USE Basics
  <1>1. CASE Parses
    BY <1>1 DEF Parses, PollPart, PollTypeOK, PollInv, AnswersInPlace
  <1>2. ASSUME NEW i \in Ids, Publishes(i)
        PROVE  PollPart' /\ UNCHANGED shown
    <2>1. slots' = [slots EXCEPT ![i] = slots[i] + 1] /\ slots[i] < MaxRounds
      BY <1>2 DEF Publishes
    <2>2. \A k \in Ids : slots'[k] \in 0..MaxRounds /\ slots'[k] >= slots[k]
      BY <2>1 DEF PollPart, PollTypeOK
    <2> QED BY <1>2, <2>1, <2>2 DEF Publishes, PollPart, PollTypeOK, PollInv, AnswersInPlace
  <1>3. ASSUME NEW p \in polls, Reads(p)
        PROVE  PollPart' /\ UNCHANGED shown
    BY <1>3, ReadsKeeps DEF Reads
  <1>4. ASSUME NEW p \in polls, Answers(p)
        PROVE  PollPart' /\ \A i \in Ids : shown'[i].version >= shown[i].version
    BY <1>4, AnswersKeeps
  <1>5. ASSUME NEW p \in polls, Fails(p)
        PROVE  PollPart' /\ UNCHANGED shown
    BY <1>5 DEF Fails, PollPart, PollTypeOK, PollInv, AnswersInPlace
  <1>6. ASSUME UNCHANGED pollVars
        PROVE  PollPart' /\ UNCHANGED shown
    BY <1>6 DEF PollPart, PollTypeOK, PollInv, AnswersInPlace
  <1>7. \/ Parses \/ \E i \in Ids : Publishes(i)
        \/ \E p \in polls : Reads(p) \/ Answers(p) \/ Fails(p)
        \/ UNCHANGED pollVars
    BY DEF Next, Clicks, Sends, Replies, Takes, Returns, Rebinds
  <1>8. \A i \in Ids : shown[i].version \in Nat
    BY DEF PollPart, PollTypeOK
  <1>9. CASE UNCHANGED shown /\ PollPart'
    BY <1>8, <1>9
  <1> QED BY <1>1, <1>2, <1>3, <1>4, <1>5, <1>6, <1>7, <1>8, <1>9 DEF Parses

-----------------------------------------------------------------------------
(* Commands.                                                               *)

CommandPart == CommandTypeOK /\ QueueInv /\ OrderInv /\ KeptInv /\ MisdirectedOnlyIfRebound

Calls == {"asked", "sent", "answered"}
ClickSet == [id : Ids, owner : Bindings, kept : BOOLEAN, answered : SUBSET Nat]
TakenSet == [n : Nat, to : Handles \cup {NULL}, stale : BOOLEAN]

\* A command is a number up to that of the last click.
LEMMA Domains ==
  ASSUME CommandPart
  PROVE  /\ Len(clicks) \in Nat /\ Len(queue) \in Nat /\ Len(taken) \in Nat
         /\ DOMAIN clicks = 1..Len(clicks) /\ DOMAIN calls = 1..Len(clicks)
         /\ DOMAIN queue = 1..Len(queue) /\ DOMAIN taken = 1..Len(taken)
         /\ \A n \in DOMAIN clicks : clicks[n] \in ClickSet /\ calls[n] \in Calls
         /\ \A k \in DOMAIN queue : queue[k] \in DOMAIN clicks
         /\ \A k \in DOMAIN taken : taken[k] \in TakenSet /\ taken[k].n \in DOMAIN clicks
  <1> USE DEF CommandPart, CommandTypeOK
  <1>1. /\ clicks \in Seq(ClickSet) /\ calls \in Seq(Calls) /\ queue \in Seq(Nat)
        /\ taken \in Seq(TakenSet) /\ Len(calls) = Len(clicks)
    BY DEF ClickSet, Calls, TakenSet
  <1>2. /\ Len(clicks) \in Nat /\ Len(queue) \in Nat /\ Len(taken) \in Nat
        /\ DOMAIN clicks = 1..Len(clicks) /\ DOMAIN calls = 1..Len(clicks)
        /\ DOMAIN queue = 1..Len(queue) /\ DOMAIN taken = 1..Len(taken)
    BY <1>1
  <1>3. /\ \A n \in DOMAIN clicks : clicks[n] \in ClickSet /\ calls[n] \in Calls
        /\ \A k \in DOMAIN taken : taken[k] \in TakenSet
    BY <1>1, <1>2
  <1>4. /\ \A k \in DOMAIN queue : queue[k] \in DOMAIN clicks
        /\ \A k \in DOMAIN taken : taken[k].n \in DOMAIN clicks
    BY <1>2 DEF QueueInv
  <1> QED BY <1>2, <1>3, <1>4

\* A click is a new command behind all others, and remembers who was answered.
LEMMA ClicksKeeps ==
  ASSUME CommandPart, NEW i \in Ids, Clicks(i)
  PROVE  CommandPart'
  <1> DEFINE c == [id |-> i, owner |-> table[i], kept |-> TRUE,
                   answered |-> {n \in DOMAIN calls : calls[n] = "answered"}]
             new == Len(clicks) + 1
  <1> USE Domains
  <1>1. c \in ClickSet /\ \A n \in c.answered : n \in DOMAIN calls /\ calls[n] = "answered"
    BY DEF CommandPart, CommandTypeOK, ClickSet
  <1>2. c.id = i /\ c.owner = table[i]
    OBVIOUS
  <1>3. clicks' = Append(clicks, c) /\ calls' = Append(calls, "asked")
    BY DEF Clicks
  <1>4. UNCHANGED <<queue, taken, table, held>>
    BY DEF Clicks
  <1> HIDE DEF c
  <1>5. /\ clicks' \in Seq(ClickSet) /\ calls' \in Seq(Calls)
        /\ Len(clicks') = new /\ Len(calls') = new
        /\ DOMAIN clicks' = 1..new /\ DOMAIN calls' = 1..new
        /\ \A n \in DOMAIN clicks : clicks'[n] = clicks[n] /\ calls'[n] = calls[n]
        /\ clicks'[new] = c
    BY <1>1, <1>3 DEF CommandPart, CommandTypeOK, ClickSet, Calls
  <1>6. CommandTypeOK'
    BY <1>4, <1>5 DEF CommandPart, CommandTypeOK, ClickSet, Calls
  <1>7. QueueInv'
    BY <1>4, <1>5 DEF CommandPart, QueueInv
  <1>8. OrderInv'
    <2>1. \A n \in DOMAIN clicks' : \A m \in clicks'[n].answered :
                m \in DOMAIN calls' /\ calls'[m] = "answered"
      <3> TAKE n \in DOMAIN clicks'
      <3>1. CASE n \in DOMAIN clicks
        BY <1>5, <3>1 DEF CommandPart, OrderInv
      <3>2. CASE n = new
        BY <1>1, <1>5, <3>2
      <3> QED BY <1>5, <3>1, <3>2
    <2>2. \A k \in DOMAIN taken : clicks'[taken[k].n] = clicks[taken[k].n]
      BY <1>5
    <2>3. \A k \in DOMAIN queue : clicks'[queue[k]] = clicks[queue[k]]
      BY <1>5
    <2> QED BY <1>4, <2>1, <2>2, <2>3 DEF CommandPart, OrderInv, AnsweredFirst
  <1>9. KeptInv'
    BY <1>2, <1>4, <1>5, SMTT(30) DEF CommandPart, KeptInv
  <1>10. MisdirectedOnlyIfRebound'
    BY <1>4, <1>5 DEF CommandPart, MisdirectedOnlyIfRebound
  <1> QED BY <1>6, <1>7, <1>8, <1>9, <1>10 DEF CommandPart

\* A command is sent once, and goes behind those that are in the queue.
LEMMA SendsKeeps ==
  ASSUME CommandPart, MaxMessages \in Nat, NEW n \in DOMAIN calls, Sends(n)
  PROVE  CommandPart'
  <1> USE Domains
  <1> DEFINE new == Len(queue) + 1
  <1>1. /\ queue' \in Seq(Nat) /\ Len(queue') = new /\ DOMAIN queue' = 1..new
        /\ \A k \in DOMAIN queue : queue'[k] = queue[k]
        /\ queue'[new] = n
        /\ new <= MaxMessages
    BY DEF Sends, CommandPart, CommandTypeOK
  <1>2. /\ calls' \in Seq(Calls) /\ Len(calls') = Len(calls) /\ DOMAIN calls' = DOMAIN calls
        /\ \A m \in DOMAIN calls : calls'[m] = IF m = n THEN "sent" ELSE calls[m]
    BY DEF Sends, CommandPart, CommandTypeOK, Calls
  <1>3. UNCHANGED <<clicks, taken, table, held>> /\ calls[n] = "asked"
    BY DEF Sends
  <1>4. CommandTypeOK'
    BY <1>1, <1>2, <1>3 DEF CommandPart, CommandTypeOK, Calls
  <1>5. /\ \A k \in DOMAIN queue : queue[k] # n
        /\ \A k \in DOMAIN taken : taken[k].n # n
        /\ \A m \in DOMAIN clicks : n \notin clicks[m].answered
    BY <1>3 DEF CommandPart, QueueInv, OrderInv
  <1>6. \A k \in DOMAIN queue' :
            (k \in DOMAIN queue /\ queue'[k] = queue[k]) \/ (k = new /\ queue'[k] = n)
    BY <1>1
  <1>7. \A j, k \in DOMAIN queue' : j < k => j \in DOMAIN queue /\ queue'[j] = queue[j]
    BY <1>1
  <1>8. QueueInv'
    <2>1. /\ \A k \in DOMAIN queue' : queue'[k] \in DOMAIN calls' /\ calls'[queue'[k]] # "asked"
          /\ \A k \in DOMAIN taken : taken[k].n \in DOMAIN calls' /\ calls'[taken[k].n] # "asked"
      BY <1>2, <1>6 DEF CommandPart, QueueInv
    <2>2. \A j, k \in DOMAIN queue' : queue'[j] = queue'[k] => j = k
      BY <1>5, <1>6 DEF CommandPart, QueueInv
    <2>3. \A j \in DOMAIN taken, k \in DOMAIN queue' : taken[j].n # queue'[k]
      BY <1>5, <1>6 DEF CommandPart, QueueInv
    <2> QED BY <1>3, <2>1, <2>2, <2>3 DEF CommandPart, QueueInv
  <1>9. OrderInv'
    <2>1. \A m \in DOMAIN clicks : \A l \in clicks[m].answered :
                l \in DOMAIN calls' /\ calls'[l] = "answered"
      BY <1>2, <1>5 DEF CommandPart, OrderInv
    <2>2. \A j \in DOMAIN taken, k \in DOMAIN queue' : queue'[k] \notin clicks[taken[j].n].answered
      BY <1>5, <1>6, ZenonT(30) DEF CommandPart, OrderInv
    <2>3. \A j, k \in DOMAIN queue' : j < k => queue'[k] \notin clicks[queue'[j]].answered
      BY <1>5, <1>6, <1>7, ZenonT(30) DEF CommandPart, OrderInv
    <2> QED BY <1>3, <2>1, <2>2, <2>3 DEF CommandPart, OrderInv, AnsweredFirst
  <1> QED BY <1>3, <1>4, <1>8, <1>9 DEF CommandPart, KeptInv, MisdirectedOnlyIfRebound

\* An answer makes nobody unanswered.
LEMMA RepliesKeeps ==
  ASSUME CommandPart, NEW n \in DOMAIN calls, Replies(n)
  PROVE  CommandPart'
  <1> USE Domains
  <1>1. /\ calls' \in Seq(Calls) /\ Len(calls') = Len(calls) /\ DOMAIN calls' = DOMAIN calls
        /\ \A m \in DOMAIN calls : calls'[m] = IF m = n THEN "answered" ELSE calls[m]
    BY DEF Replies, CommandPart, CommandTypeOK, Calls
  <1>2. UNCHANGED <<clicks, queue, taken, table, held>> /\ calls[n] = "sent"
    BY DEF Replies
  <1>3. CommandTypeOK'
    BY <1>1, <1>2 DEF CommandPart, CommandTypeOK, Calls
  <1>4. QueueInv'
    BY <1>1, <1>2 DEF CommandPart, QueueInv
  <1>5. OrderInv'
    BY <1>1, <1>2 DEF CommandPart, OrderInv, AnsweredFirst
  <1> QED BY <1>2, <1>3, <1>4, <1>5 DEF CommandPart, KeptInv, MisdirectedOnlyIfRebound

\* The command thread takes the first of the queue, which nobody before it had been
\* answered after, and asks for the id it names.
LEMMA TakesKeeps ==
  ASSUME MaxMessages \in Nat, CommandPart, Takes
  PROVE  CommandPart'
  <1> DEFINE n == Head(queue)
             t == [n |-> n, to |-> held'[Listener], stale |-> ~clicks[n].kept]
             new == Len(taken) + 1
  <1> USE Domains
  <1>1. /\ n = queue[1] /\ 1 \in DOMAIN queue /\ n \in DOMAIN clicks
        /\ queue' \in Seq(Nat) /\ Len(queue') = Len(queue) - 1
        /\ DOMAIN queue' = 1 .. Len(queue) - 1
        /\ \A k \in DOMAIN queue' : k + 1 \in DOMAIN queue /\ queue'[k] = queue[k + 1]
    BY DEF Takes, CommandPart, CommandTypeOK
  <1>2. held' \in [{Listener} -> Handles \cup {NULL}] /\ held'[Listener] = table[clicks[n].id].handle
    BY <1>1 DEF Takes, Table!Lookup, CommandPart, CommandTypeOK, ClickSet, Bindings
  <1>3. /\ t \in TakenSet /\ t.n = n
        /\ ~t.stale => t.to = table[clicks[n].id].handle /\ clicks[n].kept
    <2>1. n \in Nat /\ held'[Listener] \in Handles \cup {NULL} /\ clicks[n].kept \in BOOLEAN
      BY <1>1, <1>2 DEF ClickSet
    <2>2. t \in TakenSet /\ t.n = n /\ t.to = held'[Listener]
      BY <2>1 DEF TakenSet
    <2>3. t.stale = ~clicks[n].kept
      OBVIOUS
    <2>4. ~t.stale => clicks[n].kept
      BY <2>1, <2>3, Zenon
    <2> QED BY <1>2, <2>2, <2>4
  <1>4. taken' = Append(taken, t) /\ UNCHANGED <<clicks, calls, table>>
    BY DEF Takes, Table!Lookup
  <1> HIDE DEF n, t
  <1>5. /\ taken' \in Seq(TakenSet) /\ Len(taken') = new /\ DOMAIN taken' = 1..new
        /\ \A k \in DOMAIN taken : taken'[k] = taken[k]
        /\ taken'[new] = t
    BY <1>3, <1>4 DEF CommandPart, CommandTypeOK, TakenSet
  <1>6. /\ \A k \in DOMAIN taken' :
                (k \in DOMAIN taken /\ taken'[k] = taken[k]) \/ (k = new /\ taken'[k] = t)
        /\ \A j, k \in DOMAIN taken' : j < k => j \in DOMAIN taken /\ taken'[j] = taken[j]
    BY <1>5
  <1>7. CommandTypeOK'
    BY <1>1, <1>2, <1>4, <1>5 DEF CommandPart, CommandTypeOK, TakenSet
  <1>8. /\ \A k \in DOMAIN taken : taken[k].n # n
        /\ \A k \in DOMAIN queue' : queue'[k] # n
    BY <1>1 DEF CommandPart, QueueInv
  <1>9. QueueInv'
    <2>1. \A k \in DOMAIN queue' : queue'[k] \in DOMAIN calls' /\ calls'[queue'[k]] # "asked"
      BY <1>1, <1>4 DEF CommandPart, QueueInv
    <2>2. \A k \in DOMAIN taken' : taken'[k].n \in DOMAIN calls' /\ calls'[taken'[k].n] # "asked"
      <3>1. calls[n] # "asked" /\ n \in DOMAIN calls
        BY <1>1 DEF CommandPart, QueueInv
      <3>2. \A k \in DOMAIN taken' :
                \/ taken'[k].n = n
                \/ k \in DOMAIN taken /\ taken'[k].n = taken[k].n
        BY <1>3, <1>6
      <3> QED BY <1>4, <3>1, <3>2 DEF CommandPart, QueueInv
    <2>3. \A j, k \in DOMAIN queue' : queue'[j] = queue'[k] => j = k
      BY <1>1 DEF CommandPart, QueueInv
    <2>4. \A j, k \in DOMAIN taken' : taken'[j].n = taken'[k].n => j = k
      BY <1>3, <1>6, <1>8 DEF CommandPart, QueueInv
    <2>5. \A j \in DOMAIN taken', k \in DOMAIN queue' : taken'[j].n # queue'[k]
      BY <1>1, <1>3, <1>6, <1>8, SMTT(30) DEF CommandPart, QueueInv
    <2> QED BY <2>1, <2>2, <2>3, <2>4, <2>5 DEF QueueInv
  <1>10. OrderInv'
    <2>1. \A m \in DOMAIN clicks' : \A l \in clicks'[m].answered :
                l \in DOMAIN calls' /\ calls'[l] = "answered"
      BY <1>4 DEF CommandPart, OrderInv
    <2>2. AnsweredFirst'
      BY <1>1, <1>3, <1>4, <1>6, SMTT(30) DEF CommandPart, OrderInv, AnsweredFirst
    <2>3. \A j \in DOMAIN taken', k \in DOMAIN queue' :
                queue'[k] \notin clicks'[taken'[j].n].answered
      <3> TAKE j \in DOMAIN taken', k \in DOMAIN queue'
      <3>1. CASE j \in DOMAIN taken /\ taken'[j] = taken[j]
        BY <1>1, <1>4, <3>1 DEF CommandPart, OrderInv
      <3>2. CASE taken'[j] = t
        <4>1. k \in Nat /\ k + 1 \in DOMAIN queue /\ 1 < k + 1 /\ queue'[k] = queue[k + 1]
          BY <1>1
        <4>2. queue[k + 1] \notin clicks[queue[1]].answered
          BY <1>1, <4>1 DEF CommandPart, OrderInv
        <4> QED BY <1>1, <1>3, <1>4, <3>2, <4>1, <4>2
      <3> QED BY <1>6, <3>1, <3>2
    <2>4. \A j, k \in DOMAIN queue' : j < k => queue'[k] \notin clicks'[queue'[j]].answered
      <3> TAKE j, k \in DOMAIN queue'
      <3> HAVE j < k
      <3>1. /\ j + 1 < k + 1 /\ j + 1 \in DOMAIN queue /\ k + 1 \in DOMAIN queue
            /\ queue'[j] = queue[j + 1] /\ queue'[k] = queue[k + 1]
        BY <1>1
      <3>2. queue[k + 1] \notin clicks[queue[j + 1]].answered
        BY <3>1 DEF CommandPart, OrderInv
      <3> QED BY <1>4, <3>1, <3>2
    <2> QED BY <2>1, <2>2, <2>3, <2>4 DEF OrderInv
  <1>11. KeptInv'
    BY <1>4 DEF CommandPart, KeptInv
  <1>12. MisdirectedOnlyIfRebound'
    <2>1. ~t.stale => t.to = clicks[t.n].owner.handle
      BY <1>1, <1>3 DEF CommandPart, KeptInv
    <2>2. \A k \in DOMAIN taken' : ~taken'[k].stale => taken'[k].to = clicks'[taken'[k].n].owner.handle
      BY <1>4, <1>6, <2>1 DEF CommandPart, MisdirectedOnlyIfRebound
    <2> QED BY <1>9, <2>2 DEF QueueInv, MisdirectedOnlyIfRebound
  <1> QED BY <1>7, <1>9, <1>10, <1>11, <1>12 DEF CommandPart

\* A slot that is bound or unbound is a slot whose commands are marked.
LEMMA RebindsKeeps ==
  ASSUME CommandPart, Rebinds
  PROVE  CommandPart'
  <1> USE Domains
  <1> DEFINE marked(n) == [clicks[n] EXCEPT !.kept = @ /\ table'[clicks[n].id] = clicks[n].owner]
  <1>1. table' \in [Ids -> Bindings] /\ UNCHANGED held
    <2>1. ASSUME NEW i \in Ids, NEW a \in Addrs, NEW h \in Handles, Table!Bind(i, a, h)
          PROVE  table' \in [Ids -> Bindings] /\ UNCHANGED held
      BY <2>1 DEF Table!Bind, CommandPart, CommandTypeOK, Bindings
    <2>2. ASSUME NEW i \in Ids, Table!Unbind(i)
          PROVE  table' \in [Ids -> Bindings] /\ UNCHANGED held
      BY <2>2 DEF Table!Unbind, Table!Unbound, CommandPart, CommandTypeOK, Bindings
    <2> QED BY <2>1, <2>2 DEF Rebinds
  <1>2. clicks' = [n \in DOMAIN clicks |-> marked(n)] /\ UNCHANGED <<calls, queue, taken>>
    BY DEF Rebinds
  <1>3. \A n \in DOMAIN clicks :
            /\ marked(n) \in ClickSet
            /\ marked(n).id = clicks[n].id /\ marked(n).owner = clicks[n].owner
            /\ marked(n).answered = clicks[n].answered
            /\ marked(n).kept => table'[clicks[n].id] = clicks[n].owner
    BY DEF ClickSet
  <1> HIDE DEF marked
  <1>4. /\ clicks' \in [1..Len(clicks) -> ClickSet]
        /\ \A n \in DOMAIN clicks : clicks'[n] = marked(n)
    BY <1>2, <1>3
  <1>5. clicks' \in Seq(ClickSet) /\ Len(clicks') = Len(clicks) /\ DOMAIN clicks' = DOMAIN clicks
    BY <1>4, SeqDef
  <1>6. CommandTypeOK'
    BY <1>1, <1>2, <1>5 DEF CommandPart, CommandTypeOK, ClickSet
  <1>7. QueueInv'
    BY <1>2, <1>5 DEF CommandPart, QueueInv
  <1>8. OrderInv'
    <2>1. \A n \in DOMAIN clicks' : clicks'[n].answered = clicks[n].answered
      BY <1>3, <1>4, <1>5
    <2> QED BY <1>2, <1>5, <2>1 DEF CommandPart, OrderInv, AnsweredFirst
  <1>9. KeptInv'
    BY <1>3, <1>4, <1>5 DEF KeptInv
  <1>10. MisdirectedOnlyIfRebound'
    BY <1>2, <1>3, <1>4, <1>5 DEF CommandPart, MisdirectedOnlyIfRebound
  <1> QED BY <1>6, <1>7, <1>8, <1>9, <1>10 DEF CommandPart

\* Every step, those of the polling included, which touch none of this.
LEMMA CommandStep ==
  ASSUME MaxMessages \in Nat, CommandPart, [Next]_vars
  PROVE  CommandPart'
  <1>1. CASE UNCHANGED <<commandVars, tableVars>>
    BY <1>1 DEF CommandPart, CommandTypeOK, QueueInv, OrderInv, AnsweredFirst, KeptInv,
                MisdirectedOnlyIfRebound
  <1>2. CASE Returns
    <2>1. held' \in [{Listener} -> Handles \cup {NULL}]
      BY <1>2 DEF Returns, Table!Release, CommandPart, CommandTypeOK
    <2> QED BY <1>2, <2>1 DEF Returns, Table!Release, CommandPart, CommandTypeOK, QueueInv,
                OrderInv, AnsweredFirst, KeptInv, MisdirectedOnlyIfRebound
  <1>3. \/ \E i \in Ids : Clicks(i)
        \/ \E n \in DOMAIN calls : Sends(n) \/ Replies(n)
        \/ Takes \/ Returns \/ Rebinds
        \/ UNCHANGED <<commandVars, tableVars>>
    BY DEF Next, Parses, Publishes, Reads, Answers, Fails
  <1> QED BY <1>1, <1>2, <1>3, ClicksKeeps, SendsKeeps, RepliesKeeps, TakesKeeps, RebindsKeeps

-----------------------------------------------------------------------------
(* The theorems.                                                           *)

\* With the first request out, or failed.
LEMMA Start ==
  ASSUME MaxDevs \in Nat \ {0}, MaxRounds \in Nat, MaxMessages \in Nat,
         Init \/ InitUnanswered
  PROVE  IInv
  <1> USE Basics DEF Init, InitUnanswered, InitWith, Table!TableInit, Table!Ids, Table!Unbound, Ids
  <1>1. PollTypeOK
    BY DEF PollTypeOK
  <1>2. PollInv /\ AnswersInPlace
    BY DEF PollInv, AnswersInPlace
  <1>3. CommandTypeOK
    <2>1. clicks = <<>> /\ calls = <<>> /\ queue = <<>> /\ taken = <<>> /\ Len(<<>>) = 0
      OBVIOUS
    <2>2. table \in [Ids -> Bindings] /\ held \in [{Listener} -> Handles \cup {NULL}]
      BY DEF Bindings
    <2> QED BY <2>1, <2>2, EmptySeq DEF CommandTypeOK
  <1>4. QueueInv /\ OrderInv /\ KeptInv /\ MisdirectedOnlyIfRebound
    BY DEF QueueInv, OrderInv, AnsweredFirst, KeptInv, MisdirectedOnlyIfRebound
  <1> QED BY <1>1, <1>2, <1>3, <1>4 DEF IInv, TypeOK

\* What is out, shown, queued and taken is as IInv says in every reachable state.
THEOREM Invariance ==
  ASSUME MaxDevs \in Nat \ {0}, MaxRounds \in Nat, MaxMessages \in Nat
  PROVE  Spec => []IInv
  <1>1. Init \/ InitUnanswered => IInv
    BY Start
  <1>2. IInv /\ [Next]_vars => IInv'
    BY PollStep, CommandStep DEF IInv, TypeOK, PollPart, CommandPart
  <1> QED BY <1>1, <1>2, PTL DEF Spec

\* A table of the page shows the buttons of its own controller, though the handler of
\* an answer does not look at what was asked.
THEOREM InPlace ==
  ASSUME MaxDevs \in Nat \ {0}, MaxRounds \in Nat, MaxMessages \in Nat
  PROVE  Spec => []AnswersInPlace
  <1>1. IInv => AnswersInPlace
    BY DEF IInv
  <1> QED BY <1>1, Invariance, PTL

\* No table of the page goes back to an older version of the buttons.
THEOREM NeverOlder ==
  ASSUME MaxDevs \in Nat \ {0}, MaxRounds \in Nat, MaxMessages \in Nat
  PROVE  Spec => [][NotOlder]_vars
  <1>1. IInv /\ [Next]_vars => [NotOlder]_vars
    BY PollStep DEF IInv, TypeOK, PollPart, NotOlder
  <1> QED BY <1>1, Invariance, PTL DEF Spec

\* Who sees the answer to one command before clicking the next has them taken in
\* that order, for any number of commands, whatever overtakes what.
THEOREM InOrder ==
  ASSUME MaxDevs \in Nat \ {0}, MaxRounds \in Nat, MaxMessages \in Nat
  PROVE  Spec => []AnsweredFirst
  <1>1. IInv => AnsweredFirst
    BY DEF IInv, OrderInv
  <1> QED BY <1>1, Invariance, PTL

\* A command is taken once, and reaches the controller that was meant unless its id
\* has changed hands since the click.
THEOREM Directed ==
  ASSUME MaxDevs \in Nat \ {0}, MaxRounds \in Nat, MaxMessages \in Nat
  PROVE  Spec => []MisdirectedOnlyIfRebound
  <1>1. IInv => MisdirectedOnlyIfRebound
    BY DEF IInv
  <1> QED BY <1>1, Invariance, PTL
=============================================================================
