------------------------- MODULE XbcPageProperties -------------------------
(* What the page shows, and where its commands go.                         *)
EXTENDS XbcPage

\* The first request is out, or has failed.
Spec == (Init \/ InitUnanswered) /\ [][Next]_vars

Bindings == [addr : Addrs \cup {NoAddr}, handle : Handles \cup {NULL}]

PollTypeOK ==
    /\ parsed \in 0..MaxDevs
    /\ idx \in Ids
    /\ polls \subseteq [id : Ids, version : 0..Unread]
    /\ shown \in [Ids -> [id : 0..MaxDevs, version : 0..MaxRounds]]
    /\ slots \in [Ids -> 0..MaxRounds]

CommandTypeOK ==
    /\ clicks \in Seq([id : Ids, owner : Bindings, kept : BOOLEAN, answered : SUBSET Nat])
    /\ calls \in Seq({"asked", "sent", "answered"})
    /\ Len(calls) = Len(clicks)
    /\ queue \in Seq(Nat) /\ Len(queue) <= MaxMessages
    /\ taken \in Seq([n : Nat, to : Handles \cup {NULL}, stale : BOOLEAN])
    /\ table \in [Ids -> Bindings]
    /\ held \in [{Listener} -> Handles \cup {NULL}]

\* Every variable has its type.
TypeOK == PollTypeOK /\ CommandTypeOK

\* The handler of an answer puts it where idx says, not where the request said:
\* still every table of the page shows the buttons of its own controller.
AnswersInPlace == \A i \in Ids : shown[i] # NotShown => shown[i].id = i

\* No table goes back to an older version of the buttons.
NotOlder == \A i \in Ids : shown[i] # NotShown => shown'[i].version >= shown[i].version

\* A command whose answer the page had when another was clicked is taken before
\* that other one. Commands that are out together can overtake each other.
AnsweredFirst ==
    \A j, k \in DOMAIN taken : j < k => taken[k].n \notin clicks[taken[j].n].answered

\* A command names an id, and the id is looked up when the command is taken: it
\* reaches the controller that had the id when the user clicked, or the id has
\* changed hands since. It is taken once.
MisdirectedOnlyIfRebound ==
    \A k \in DOMAIN taken :
        /\ ~taken[k].stale => taken[k].to = clicks[taken[k].n].owner.handle
        /\ \A j \in DOMAIN taken : taken[j].n = taken[k].n => j = k

-----------------------------------------------------------------------------
(* The strengthening of the invariants above that every step preserves.    *)

\* One request at most is out, for the id the page thinks it asks for, and what it
\* has read is no older than what the page shows, nor newer than what there is.
PollInv ==
    /\ \A p, q \in polls : p = q
    /\ \A p \in polls : p.id = idx
    /\ \A i \in Ids : shown[i].version <= slots[i]
    /\ \A p \in polls : p.version # Unread =>
            shown[p.id].version <= p.version /\ p.version <= slots[p.id]

\* A command is in the queue once or has been taken once, and then it has been sent.
QueueInv ==
    /\ \A k \in DOMAIN queue : queue[k] \in DOMAIN calls /\ calls[queue[k]] # "asked"
    /\ \A k \in DOMAIN taken : taken[k].n \in DOMAIN calls /\ calls[taken[k].n] # "asked"
    /\ \A j, k \in DOMAIN queue : queue[j] = queue[k] => j = k
    /\ \A j, k \in DOMAIN taken : taken[j].n = taken[k].n => j = k
    /\ \A j \in DOMAIN taken, k \in DOMAIN queue : taken[j].n # queue[k]

\* Who is behind a command, in the queue or in what was taken, was not answered when
\* that one was clicked.
OrderInv ==
    /\ \A n \in DOMAIN clicks : \A m \in clicks[n].answered :
            m \in DOMAIN calls /\ calls[m] = "answered"
    /\ AnsweredFirst
    /\ \A j \in DOMAIN taken, k \in DOMAIN queue : queue[k] \notin clicks[taken[j].n].answered
    /\ \A j, k \in DOMAIN queue : j < k => queue[k] \notin clicks[queue[j]].answered

\* Where an id has not changed hands, it is still bound as it was.
KeptInv == \A n \in DOMAIN clicks : clicks[n].kept => table[clicks[n].id] = clicks[n].owner

IInv ==
    /\ TypeOK
    /\ PollInv
    /\ AnswersInPlace
    /\ QueueInv
    /\ OrderInv
    /\ KeptInv
    /\ MisdirectedOnlyIfRebound

-----------------------------------------------------------------------------
(* Liveness.                                                               *)

\* As long as every answer is one with status 200 for a table that is parsed, the
\* request that ends the round of one controller begins that of the next: every
\* table is written again and again.
PollsGoRound ==
    ([](polls # {})) => \A i \in Ids : []<>(idx = i) /\ []<>(idx # i)

\* Every click is a command that is taken in the end, however full the queue is.
ClicksLand ==
    \A n \in 1..MaxClicks :
        (n \in DOMAIN clicks) ~> (\E k \in DOMAIN taken : taken[k].n = n)
=============================================================================
