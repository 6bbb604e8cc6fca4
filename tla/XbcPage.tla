------------------------------ MODULE XbcPage ------------------------------
(***************************************************************************)
(* The page xbc.html in a browser, and what it makes the rest of the       *)
(* system do: it asks for the buttons of one controller after another, and *)
(* every click on one of its buttons is a command on its way through a CGI *)
(* process of its own (xbcweb/main.c) and the queue (commands.c) to the    *)
(* daemon's command thread (xbcdaemon/main.c). The table of ids is         *)
(* HotplugTable, which Devices implements.                                 *)
(*                                                                         *)
(* A definition whose comment starts with "Fault:" is not part of the      *)
(* model: it is the definition after it with a bug.                        *)
(***************************************************************************)
EXTENDS Naturals, Sequences, FiniteSets

CONSTANTS
    MaxDevs,            \* MAX_DEVS of common.h, and the four tables of the page
    MaxMessages,        \* MAX_MESSAGES of commands.h
    Addrs, Handles,     \* the controllers, and what libusb_open returns
    NULL, NoAddr,
    Listener,           \* the command thread
    MaxClicks,          \* bound: clicks of the user
    MaxRounds           \* bound: versions of a slot's buttons

VARIABLES
    parsed,     \* how many tables of the body the browser has parsed
    idx,        \* the page's idx
    polls,      \* the requests for buttons that are out: the id in their URL, and
                \* the version read for it, or "none" yet
    shown,      \* shown[i]: the [id, version] in table i of the page
    slots,      \* slots[i]: the version of i's buttons in the shared memory
    clicks,     \* clicks[n]: the id of the n-th command, who had it (and has kept it
                \* since), and the commands whose answer the page had
    calls,      \* calls[n]: where the CGI process of the n-th command is
    queue,      \* the message queue: numbers of commands
    taken,      \* the commands that were taken, the handles they went to, and
                \* whether their ids had changed hands
    table, held, serving    \* HotplugTable

pollVars == <<parsed, idx, polls, shown, slots>>
commandVars == <<clicks, calls, queue, taken>>
tableVars == <<table, held, serving>>
vars == <<pollVars, commandVars, tableVars>>

Table == INSTANCE HotplugTable WITH Clients <- {Listener}

Ids == 0 .. MaxDevs - 1
Unread == MaxRounds + 1
NotShown == [id |-> MaxDevs, version |-> 0]

\* The page, with the requests that are out: the first one,
InitWith(out) ==
    /\ parsed = 0
    /\ idx = 0
    /\ polls = out
    /\ shown = [i \in Ids |-> NotShown]
    /\ slots = [i \in Ids |-> 0]
    /\ clicks = <<>>
    /\ calls = <<>>
    /\ queue = <<>>
    /\ taken = <<>>
    /\ Table!TableInit

Init == InitWith({[id |-> 0, version |-> Unread]})

\* or none, when the first one has failed: nothing will be polled.
InitUnanswered == InitWith({})

-----------------------------------------------------------------------------
(* Polling. The script runs init() where it assigns window.onload, so the  *)
(* first request is out before the body is parsed.                         *)

Parses ==
    /\ parsed < MaxDevs
    /\ parsed' = parsed + 1
    /\ UNCHANGED <<idx, polls, shown, slots, commandVars, tableVars>>

Publishes(i) ==
    /\ slots[i] < MaxRounds
    /\ slots' = [slots EXCEPT ![i] = @ + 1]
    /\ UNCHANGED <<parsed, idx, polls, shown, commandVars, tableVars>>

\* readButtonFromSHM in the CGI process.
Reads(p) ==
    /\ p.version = Unread
    /\ polls' = (polls \ {p}) \cup {[p EXCEPT !.version = slots[p.id]]}
    /\ UNCHANGED <<parsed, idx, shown, slots, commandVars, tableVars>>

\* Fault: the next id is taken before the answer is put on the page.
AnswersNext(p) ==
    /\ p.version # Unread
    /\ LET next == (idx + 1) % MaxDevs IN
        \/ /\ next < parsed
           /\ shown' = [shown EXCEPT ![next] = p]
           /\ idx' = next
           /\ polls' = (polls \ {p}) \cup {[id |-> next, version |-> Unread]}
        \/ /\ next >= parsed
           /\ polls' = polls \ {p}
           /\ UNCHANGED <<idx, shown>>
    /\ UNCHANGED <<parsed, slots, commandVars, tableVars>>

\* Fault: idx stops at the last table.
AnswersToLast(p) ==
    /\ p.version # Unread
    /\ \/ /\ idx < parsed
          /\ shown' = [shown EXCEPT ![idx] = p]
          /\ idx' = IF idx + 1 < MaxDevs THEN idx + 1 ELSE idx
          /\ polls' = (polls \ {p}) \cup {[id |-> idx', version |-> Unread]}
       \/ /\ idx >= parsed
          /\ polls' = polls \ {p}
          /\ UNCHANGED <<idx, shown>>
    /\ UNCHANGED <<parsed, slots, commandVars, tableVars>>

\* The handler of an answer with status 200: it puts it in table idx, and asks for
\* the next. Where that table is not parsed yet its elements are null, the
\* handler ends in an exception, and nothing is asked any more.
Answers(p) ==
    /\ p.version # Unread
    /\ \/ /\ idx < parsed
          /\ shown' = [shown EXCEPT ![idx] = p]
          /\ idx' = (idx + 1) % MaxDevs
          /\ polls' = (polls \ {p}) \cup {[id |-> idx', version |-> Unread]}
       \/ /\ idx >= parsed
          /\ polls' = polls \ {p}
          /\ UNCHANGED <<idx, shown>>
    /\ UNCHANGED <<parsed, slots, commandVars, tableVars>>

\* Any other status: "TODO: report error".
Fails(p) ==
    /\ polls' = polls \ {p}
    /\ UNCHANGED <<parsed, idx, shown, slots, commandVars, tableVars>>

-----------------------------------------------------------------------------
(* Commands.                                                               *)

\* A click: sendCommand of the page.
Clicks(i) ==
    /\ i < parsed
    /\ Len(clicks) < MaxClicks
    /\ clicks' = Append(clicks, [id |-> i, owner |-> table[i],
                                 kept |-> TRUE,
                                 answered |-> {n \in DOMAIN calls : calls[n] = "answered"}])
    /\ calls' = Append(calls, "asked")
    /\ UNCHANGED <<pollVars, queue, taken, tableVars>>

\* Fault: the message has a higher priority than those in the queue.
SendsBefore(n) ==
    /\ calls[n] = "asked"
    /\ Len(queue) < MaxMessages
    /\ queue' = <<n>> \o queue
    /\ calls' = [calls EXCEPT ![n] = "sent"]
    /\ UNCHANGED <<pollVars, clicks, taken, tableVars>>

\* Fault: a full queue drops the command.
SendsOrDrops(n) ==
    /\ calls[n] = "asked"
    /\ queue' = IF Len(queue) < MaxMessages THEN Append(queue, n) ELSE queue
    /\ calls' = [calls EXCEPT ![n] = "sent"]
    /\ UNCHANGED <<pollVars, clicks, taken, tableVars>>

\* sendCommand of the CGI process, which waits while the queue is full.
Sends(n) ==
    /\ calls[n] = "asked"
    /\ Len(queue) < MaxMessages
    /\ queue' = Append(queue, n)
    /\ calls' = [calls EXCEPT ![n] = "sent"]
    /\ UNCHANGED <<pollVars, clicks, taken, tableVars>>

\* The CGI process ends, which flushes its answer.
Replies(n) ==
    /\ calls[n] = "sent"
    /\ calls' = [calls EXCEPT ![n] = "answered"]
    /\ UNCHANGED <<pollVars, clicks, queue, taken, tableVars>>

\* commandListenerThread: getCommand and getDeviceHandle. (That the thread may
\* wait in between is in Daemon; here only the look-up counts.)
Takes ==
    /\ queue # <<>>
    /\ Table!Lookup(Listener, clicks[Head(queue)].id)
    /\ taken' = Append(taken, [n |-> Head(queue), to |-> held'[Listener],
                              stale |-> ~clicks[Head(queue)].kept])
    /\ queue' = Tail(queue)
    /\ UNCHANGED <<pollVars, clicks, calls>>

\* setControllerRumble or setControllerLeds returns.
Returns ==
    /\ held[Listener] # NULL
    /\ Table!Release(Listener)
    /\ UNCHANGED <<pollVars, commandVars>>

Rebinds ==
    /\ \/ \E i \in Ids, a \in Addrs, h \in Handles : Table!Bind(i, a, h)
       \/ \E i \in Ids : Table!Unbind(i)
    /\ clicks' = [n \in DOMAIN clicks |->
                    [clicks[n] EXCEPT !.kept = @ /\ table'[clicks[n].id] = clicks[n].owner]]
    /\ UNCHANGED <<pollVars, calls, queue, taken>>

-----------------------------------------------------------------------------
Next ==
    \/ Parses
    \/ \E i \in Ids : Publishes(i) \/ Clicks(i)
    \/ \E p \in polls : Reads(p) \/ Answers(p) \/ Fails(p)
    \/ \E n \in DOMAIN calls : Sends(n) \/ Replies(n)
    \/ Takes
    \/ Returns
    \/ Rebinds

\* The browser parses the page and its requests are served; the processes run. No
\* one must click, plug or publish, and an answer need not be one with status 200.
Fairness ==
    /\ WF_vars(Parses)
    /\ WF_vars(\E p \in polls : Reads(p))
    /\ WF_vars(\E p \in polls : Answers(p) \/ Fails(p))
    /\ \A n \in 1..MaxClicks :
        /\ SF_vars(n \in DOMAIN calls /\ Sends(n))
        /\ WF_vars(n \in DOMAIN calls /\ Replies(n))
    /\ WF_vars(Takes)
    /\ WF_vars(Returns)
=============================================================================
