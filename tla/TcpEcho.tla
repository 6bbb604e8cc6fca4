------------------------------- MODULE TcpEcho -------------------------------
(***************************************************************************)
(* The TCP echo client, its three servers (one client at a time, a process *)
(* per client, a thread per client), and the streams between them. A       *)
(* client sends each of its strings and takes what one recv brings for the *)
(* answer; the handler of a server echoes what one recv brings, with upper *)
(* and lower case exchanged. The n-th byte a client sends is n, its echo   *)
(* is -n. A closed or reset connection is seen by whoever uses it next.    *)
(*                                                                         *)
(* A definition whose comment starts with "Fault:" is not part of the      *)
(* model: it is the definition after it with a bug.                        *)
(***************************************************************************)
EXTENDS Integers, Sequences

CONSTANTS
    Clients,
    Size,           \* RCVBUFSIZE - 1
    Strings,        \* the possible arguments of a client: where each of its strings ends
                    \* in the text of all of them
    Whole           \* the clients whose bytes TCP delivers as they were sent

VARIABLES
    server,         \* "one", "fork" or "thread"
    main,           \* "accept", "busy" or "dead"
    backlog,        \* the clients that are connected and not accepted
    open,           \* the clients for whom the main process has a descriptor open
    handler, buffer,    \* each client's handler and its echoBuffer
    data, i,        \* each client's arguments, and how far it is
    client,         \* where each client is
    got,            \* what it has printed
    up, down,       \* the streams
    gone            \* the connections one end of which has closed, and those reset

serverVars == <<main, backlog, open, handler, buffer>>
clientVars == <<i, client, got>>
vars == <<server, data, serverVars, clientVars, up, down, gone>>

Lesser(m, n) == IF m < n THEN m ELSE n

Init ==
    /\ server \in {"one", "fork", "thread"}
    /\ data \in [Clients -> Strings]
    /\ main = "accept" /\ backlog = <<>> /\ open = {}
    /\ handler = [c \in Clients |-> "none"]
    /\ buffer = [c \in Clients |-> <<>>]
    /\ i = [c \in Clients |-> 0]
    /\ client = [c \in Clients |-> "off"]
    /\ got = [c \in Clients |-> <<>>]
    /\ up = [c \in Clients |-> <<>>] /\ down = [c \in Clients |-> <<>>]
    /\ gone = [client |-> {}, server |-> {}, reset |-> {}]

\* How many bytes the first k strings of a client have, and the bytes of the k-th.
Bytes(c, k) == IF k = 0 THEN 0 ELSE data[c][k]
String(c, k) == [n \in 1 .. Bytes(c, k) - Bytes(c, k - 1) |-> Bytes(c, k - 1) + n]

\* What a recv of at most Size bytes may bring.
Brings(c, stream) ==
    LET most == Lesser(Size, Len(stream)) IN IF c \in Whole THEN {most} ELSE 1..most

-----------------------------------------------------------------------------
(* A client: TCPEchoClient.c.                                              *)

\* CreateTCPClientSocket. A server that is there has room in its backlog.
Connects(c) ==
    /\ client[c] = "off"
    /\ IF main = "dead"
       THEN client' = [client EXCEPT ![c] = "died"] /\ UNCHANGED backlog
       ELSE client' = [client EXCEPT ![c] = "send"] /\ backlog' = Append(backlog, c)
    /\ UNCHANGED <<server, data, main, open, handler, buffer, i, got, up, down, gone>>

\* The next string. What is sent to a server that has closed comes back as a reset;
\* after a reset, SIGPIPE.
Sends(c) ==
    /\ client[c] = "send" /\ i[c] < Len(data[c])
    /\ i' = [i EXCEPT ![c] = @ + 1]
    /\ client' = [client EXCEPT ![c] = IF c \in gone.reset THEN "died" ELSE "recv"]
    /\ IF c \in gone.server \cup gone.reset
       THEN gone' = [gone EXCEPT !.reset = @ \cup {c}] /\ UNCHANGED up
       ELSE up' = [up EXCEPT ![c] = @ \o String(c, i'[c])] /\ UNCHANGED gone
    /\ UNCHANGED <<server, data, serverVars, got, down>>

\* One recv, whatever it brings: nothing, when the server has closed.
Receives(c) ==
    /\ client[c] = "recv"
    /\ \/ \E n \in Brings(c, down[c]) :
            /\ n > 0
            /\ got' = [got EXCEPT ![c] = @ \o SubSeq(down[c], 1, n)]
            /\ down' = [down EXCEPT ![c] = SubSeq(@, n + 1, Len(@))]
            /\ client' = [client EXCEPT ![c] = "send"]
       \/ /\ down[c] = <<>> /\ c \in gone.server \ gone.reset
          /\ client' = [client EXCEPT ![c] = "send"]
          /\ UNCHANGED <<got, down>>
       \/ /\ c \in gone.reset
          /\ client' = [client EXCEPT ![c] = "died"]
          /\ UNCHANGED <<got, down>>
    /\ UNCHANGED <<server, data, serverVars, i, up, gone>>

\* A socket that is closed with something unread resets the connection.
Closes(c) ==
    /\ client[c] = "send" /\ i[c] = Len(data[c])
    /\ client' = [client EXCEPT ![c] = "done"]
    /\ gone' = [gone EXCEPT !.client = @ \cup {c},
                            !.reset = IF down[c] = <<>> THEN @ ELSE @ \cup {c}]
    /\ UNCHANGED <<server, data, serverVars, i, got, up, down>>

-----------------------------------------------------------------------------
(* The servers: TCPEchoServer.c, -Fork.c, -Thread.c, HandleTCPClient.c.    *)

\* AcceptTCPConnection, and fork or pthread_create.
Accepts ==
    /\ main = "accept" /\ backlog # <<>>
    /\ backlog' = Tail(backlog)
    /\ handler' = [handler EXCEPT ![Head(backlog)] = "recv"]
    /\ open' = open \cup {Head(backlog)}
    /\ main' = IF server = "one" THEN "busy" ELSE "accept"
    /\ UNCHANGED <<server, data, buffer, clientVars, up, down, gone>>

\* DieWithError or SIGPIPE in a handler: the end of its process, which is that of
\* one client or of the whole server. What the process has open, closes.
Dies(c) ==
    IF server = "fork"
    THEN /\ handler' = [handler EXCEPT ![c] = "off"]
         /\ UNCHANGED <<main, backlog, gone>>
    ELSE /\ handler' = [x \in Clients |-> "off"]
         /\ main' = "dead"
         /\ backlog' = <<>>
         /\ gone' = [gone EXCEPT !.server = {x \in Clients : client[x] # "off"},
                !.reset = @ \cup {x \in Clients : up[x] # <<>> \/ \E k \in DOMAIN backlog : x = backlog[k]}]

\* Fault: the whole buffer is read, and its last byte made the terminator.
HandlerReceivesLess(c) ==
    /\ handler[c] = "recv"
    /\ \/ \E n \in Brings(c, up[c]) :
            /\ n > 0
            /\ buffer' = [buffer EXCEPT ![c] = SubSeq(up[c], 1, Lesser(n, Size - 1))]
            /\ up' = [up EXCEPT ![c] = SubSeq(@, n + 1, Len(@))]
            /\ handler' = [handler EXCEPT ![c] = "send"]
            /\ UNCHANGED <<main, backlog, gone>>
       \/ /\ up[c] = <<>> /\ c \in gone.client \ gone.reset
          /\ handler' = [handler EXCEPT ![c] = "close"]
          /\ UNCHANGED <<main, backlog, buffer, up, gone>>
       \/ c \in gone.reset /\ Dies(c) /\ UNCHANGED <<buffer, up>>
    /\ UNCHANGED <<server, data, open, clientVars, down>>

HandlerReceives(c) ==
    /\ handler[c] = "recv"
    /\ \/ \E n \in Brings(c, up[c]) :
            /\ n > 0
            /\ buffer' = [buffer EXCEPT ![c] = SubSeq(up[c], 1, n)]
            /\ up' = [up EXCEPT ![c] = SubSeq(@, n + 1, Len(@))]
            /\ handler' = [handler EXCEPT ![c] = "send"]
            /\ UNCHANGED <<main, backlog, gone>>
       \/ /\ up[c] = <<>> /\ c \in gone.client \ gone.reset
          /\ handler' = [handler EXCEPT ![c] = "close"]
          /\ UNCHANGED <<main, backlog, buffer, up, gone>>
       \/ c \in gone.reset /\ Dies(c) /\ UNCHANGED <<buffer, up>>
    /\ UNCHANGED <<server, data, open, clientVars, down>>

\* The echo. To a client that has closed, it comes back as a reset.
HandlerSends(c) ==
    /\ handler[c] = "send"
    /\ \/ /\ c \notin gone.reset
          /\ handler' = [handler EXCEPT ![c] = "recv"]
          /\ IF c \in gone.client
             THEN gone' = [gone EXCEPT !.reset = @ \cup {c}] /\ UNCHANGED down
             ELSE down' = [down EXCEPT ![c] = @ \o [n \in DOMAIN buffer[c] |-> -buffer[c][n]]]
                  /\ UNCHANGED gone
          /\ UNCHANGED <<main, backlog>>
       \/ c \in gone.reset /\ Dies(c) /\ UNCHANGED down
    /\ UNCHANGED <<server, data, open, buffer, clientVars, up>>

\* The end of the handler; the main process of "fork" keeps its own descriptor.
HandlerCloses(c) ==
    /\ handler[c] = "close"
    /\ handler' = [handler EXCEPT ![c] = "off"]
    /\ main' = IF server = "one" THEN "accept" ELSE main
    /\ IF server = "fork" THEN UNCHANGED <<open, gone>>
       ELSE open' = open \ {c} /\ gone' = [gone EXCEPT !.server = @ \cup {c}]
    /\ UNCHANGED <<server, data, backlog, buffer, clientVars, up, down>>

-----------------------------------------------------------------------------
Runs(c) == Connects(c) \/ Sends(c) \/ Receives(c) \/ Closes(c)
Handles(c) == HandlerReceives(c) \/ HandlerSends(c) \/ HandlerCloses(c)

Next == Accepts \/ \E c \in Clients : Runs(c) \/ Handles(c)

\* What is started, the kernel runs.
Fairness == WF_vars(Next)

-----------------------------------------------------------------------------
\* Whatever is delivered in whatever pieces, and whoever dies: what a client prints
\* is its own text echoed, nothing lost, doubled or exchanged up to where it stops.
EchoedInOrder == \A c \in Clients : \A n \in DOMAIN got[c] : got[c][n] = -n

\* A client whose strings fit in the buffer, and whose bytes are not cut.
Plain(c) == c \in Whole /\ \A k \in DOMAIN data[c] : Bytes(c, k) - Bytes(c, k - 1) <= Size

\* A plain client of the forking server gets to each string its own echo, all of it and
\* before it sends the next, and is not cut off, whatever the other clients do; of the
\* other servers, when all are plain: they die with any handler.
EachItsAnswer ==
    \A c \in Clients :
        Plain(c) /\ (server = "fork" \/ \A x \in Clients : Plain(x)) =>
            /\ client[c] # "died"
            /\ client[c] \in {"send", "done"} => Len(got[c]) = Bytes(c, i[c])

\* A server that goes on gives back the descriptor of each client it is done with;
\* but "fork" keeps all of them.
DescriptorsReturn ==
    main # "dead" /\ server # "fork" =>
        open = {c \in Clients : handler[c] \notin {"none", "off"}}

\* With strings that are not empty, every client comes to its end, and every handler.
AllEnd ==
    <>(/\ \A c \in Clients : client[c] \in {"done", "died"}
       /\ main # "dead" => \A c \in Clients : handler[c] = "off")
=============================================================================
