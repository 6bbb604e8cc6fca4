---------------------------- MODULE CommandQueue ----------------------------
(***************************************************************************)
(* The message queue of commands (commands.c). MQ_CMDS_NAME is a name,     *)
(* bound to a queue that lives on, without the name, while a process has   *)
(* it open. Each operator is one step of process p in one function of      *)
(* commands.c; it says what becomes of every variable of this module.      *)
(***************************************************************************)
EXTENDS Naturals, Sequences

CONSTANTS
    Procs,          \* the processes
    Queues,         \* the queues the kernel can hold at once
    NoObj,          \* an unbound name, or (mqd_t)-1
    MaxMessages     \* MAX_MESSAGES of commands.h

VARIABLES
    mqName,     \* the queue bound to MQ_CMDS_NAME
    msgs,       \* msgs[o]: the commands in queue o
    mq          \* mq_cmds of each process

queueVars == <<mqName, msgs, mq>>

QueueInit ==
    /\ mqName = NoObj
    /\ msgs = [o \in Queues |-> <<>>]
    /\ mq = [p \in Procs |-> NoObj]

\* A queue with neither a name nor a process that has it open is gone.
Gone(q, name, open) == q # name /\ \A r \in Procs : open[r] # q

\* initQueue: the name is unbound, whatever is bound to it, and bound to a new
\* queue.
QueueCreates(p) ==
    \E o \in {q \in Queues : Gone(q, NoObj, mq)} :
        /\ mqName' = o
        /\ mq' = [mq EXCEPT ![p] = o]
        /\ msgs' = [q \in Queues |-> IF Gone(q, NoObj, mq) THEN <<>> ELSE msgs[q]]

\* What becomes of the queues when p closes its own.
QueueFrees(name, p) ==
    msgs' = [q \in Queues |-> IF Gone(q, name, [mq EXCEPT ![p] = NoObj])
                             THEN <<>> ELSE msgs[q]]

\* closeQueue, and an initQueue in which mq_open fails.
QueueUnlinks(p) ==
    /\ mqName' = NoObj
    /\ mq' = [mq EXCEPT ![p] = NoObj]
    /\ QueueFrees(NoObj, p)

\* startQueue: without a queue, mq_cmds is -1.
QueueOpens(p) ==
    /\ mq' = [mq EXCEPT ![p] = mqName]
    /\ UNCHANGED <<mqName, msgs>>

\* sendCommand waits while the queue is full.
Sends(p, cmd) ==
    /\ mq[p] # NoObj
    /\ Len(msgs[mq[p]]) < MaxMessages
    /\ msgs' = [msgs EXCEPT ![mq[p]] = Append(@, cmd)]
    /\ UNCHANGED <<mqName, mq>>

\* getCommand waits while the queue is empty.
Receives(p) ==
    /\ mq[p] # NoObj
    /\ msgs[mq[p]] # <<>>
    /\ msgs' = [msgs EXCEPT ![mq[p]] = Tail(@)]
    /\ UNCHANGED <<mqName, mq>>

\* stopQueue, and the end of a process.
QueueCloses(p) ==
    /\ mq' = [mq EXCEPT ![p] = NoObj]
    /\ QueueFrees(mqName, p)
    /\ UNCHANGED mqName

QueueTypeOK ==
    /\ mqName \in Queues \cup {NoObj}
    /\ \A o \in Queues : Len(msgs[o]) <= MaxMessages
    /\ mq \in [Procs -> Queues \cup {NoObj}]
=============================================================================
