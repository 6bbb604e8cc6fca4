------------------------------- MODULE TcpChat -------------------------------
(***************************************************************************)
(* The TCP chat: each user types a line, which is sent, and then waits for *)
(* what one recv brings. The server talks with one client until its own    *)
(* user types "Quit"; a client leaves when its user does. A line takes as  *)
(* many pieces as recv needs for it: none, when it is empty.               *)
(***************************************************************************)
EXTENDS Integers, Sequences

CONSTANTS
    Clients,
    MaxLines        \* bound: lines each user types; then it leaves the keyboard

Lines == {"Quit", "empty", "short", "long"}
Pieces == [Quit |-> 1, empty |-> 0, short |-> 1, long |-> 2]

VARIABLES
    at,             \* where each client is
    talk, partner,  \* where the server is, and the client it talks with
    queue,          \* the clients that are connected and not accepted
    line,           \* the line in the server's and in each client's buffer
    typed,          \* how many lines each of them has typed
    up, down,       \* pieces that are sent and not received
    heard,          \* pieces each has received
    gone            \* the connections one end of which has closed, and those reset

Server == "server"
Users == Clients \cup {Server}
vars == <<at, talk, partner, queue, line, typed, up, down, heard, gone>>

Init ==
    /\ at = [c \in Clients |-> "off"]
    /\ talk = "accept" /\ partner = Server
    /\ queue = <<>>
    /\ line = [u \in Users |-> "unset"]
    /\ typed = [u \in Users |-> 0]
    /\ up = [c \in Clients |-> 0] /\ down = [c \in Clients |-> 0]
    /\ heard = [u \in Users |-> 0]
    /\ gone = [client |-> {}, server |-> {}, reset |-> {}]

-----------------------------------------------------------------------------
(* A client: TCPChatClient.c.                                              *)

\* line is not initialised when it is compared with "Quit" for the first time.
Connects(c) ==
    /\ at[c] = "off"
    /\ \/ talk = "died" /\ at' = [at EXCEPT ![c] = "died"] /\ UNCHANGED queue
       \/ /\ talk # "died" /\ queue' = Append(queue, c)
          /\ \E w \in {"loop", "close"} : at' = [at EXCEPT ![c] = w]
    /\ UNCHANGED <<talk, partner, line, typed, up, down, heard, gone>>

\* fgets and send. A server that has closed answers with a reset; after that,
\* SIGPIPE.
Types(c) ==
    /\ at[c] = "loop" /\ typed[c] < MaxLines
    /\ typed' = [typed EXCEPT ![c] = @ + 1]
    /\ \E text \in Lines :
        /\ line' = [line EXCEPT ![c] = text]
        /\ at' = [at EXCEPT ![c] =
                IF c \in gone.reset /\ text # "empty" THEN "died"
                ELSE IF text = "Quit" THEN "close" ELSE "recv"]
        /\ IF text # "empty" /\ c \in gone.server \cup gone.reset
           THEN gone' = [gone EXCEPT !.reset = @ \cup {c}] /\ UNCHANGED up
           ELSE up' = [up EXCEPT ![c] = @ + Pieces[text]] /\ UNCHANGED gone
    /\ UNCHANGED <<talk, partner, queue, down, heard>>

\* Nothing is printed, and the user asked again, when the server has closed.
Receives(c) ==
    /\ at[c] = "recv"
    /\ \/ /\ down[c] > 0
          /\ down' = [down EXCEPT ![c] = @ - 1]
          /\ heard' = [heard EXCEPT ![c] = @ + 1]
          /\ at' = [at EXCEPT ![c] = "loop"]
       \/ /\ down[c] = 0 /\ c \in gone.server \ gone.reset
          /\ at' = [at EXCEPT ![c] = "loop"]
          /\ UNCHANGED <<down, heard>>
       \/ /\ c \in gone.reset
          /\ at' = [at EXCEPT ![c] = "died"]
          /\ UNCHANGED <<down, heard>>
    /\ UNCHANGED <<talk, partner, queue, line, typed, up, gone>>

Closes(c) ==
    /\ at[c] = "close"
    /\ at' = [at EXCEPT ![c] = "done"]
    /\ gone' = [gone EXCEPT !.client = @ \cup {c},
                            !.reset = IF down[c] > 0 THEN @ \cup {c} ELSE @]
    /\ UNCHANGED <<talk, partner, queue, line, typed, up, down, heard>>

-----------------------------------------------------------------------------
(* The server: TCPChatServer.c, HandleTCPChatClient.c.                     *)

\* line is a variable of the handler, and not initialised in any call of it.
Accepts ==
    /\ talk = "accept" /\ queue # <<>>
    /\ partner' = Head(queue) /\ queue' = Tail(queue)
    /\ talk' \in {"recv", "close"}
    /\ line' = [line EXCEPT ![Server] = "unset"]
    /\ UNCHANGED <<at, typed, up, down, heard, gone>>

\* DieWithError or SIGPIPE: all connections close, those that wait too.
ServerDies ==
    /\ partner \in gone.reset
    /\ talk' = "died"
    /\ queue' = <<>>
    /\ gone' = [gone EXCEPT !.server = {c \in Clients : at[c] # "off"},
                            !.reset = @ \cup {c \in Clients : up[c] > 0}]
    /\ UNCHANGED <<at, partner, up, down, heard>>

\* The inner loop: it goes on as long as recv brings nothing, also when the client
\* has closed and there never will be anything.
ServerReceives ==
    /\ talk = "recv"
    /\ \/ /\ up[partner] > 0
          /\ up' = [up EXCEPT ![partner] = @ - 1]
          /\ heard' = [heard EXCEPT ![Server] = @ + 1]
          /\ talk' = "type"
          /\ UNCHANGED <<at, partner, queue, down, gone>>
       \/ ServerDies
    /\ UNCHANGED <<line, typed>>

ServerTypes ==
    /\ talk = "type" /\ typed[Server] < MaxLines
    /\ typed' = [typed EXCEPT ![Server] = @ + 1]
    /\ \E text \in Lines :
        /\ line' = [line EXCEPT ![Server] = text]
        /\ \/ text # "empty" /\ ServerDies
           \/ /\ text # "empty" => partner \notin gone.reset
              /\ talk' = IF text = "Quit" THEN "close" ELSE "recv"
              /\ IF text # "empty" /\ partner \in gone.client
                 THEN gone' = [gone EXCEPT !.reset = @ \cup {partner}] /\ UNCHANGED down
                 ELSE down' = [down EXCEPT ![partner] = @ + Pieces[text]] /\ UNCHANGED gone
              /\ UNCHANGED <<at, partner, queue, up, heard>>

ServerCloses ==
    /\ talk = "close"
    /\ talk' = "accept"
    /\ gone' = [gone EXCEPT !.server = @ \cup {partner},
                            !.reset = IF up[partner] > 0 THEN @ \cup {partner} ELSE @]
    /\ UNCHANGED <<at, partner, queue, line, typed, up, down, heard>>

-----------------------------------------------------------------------------
Next ==
    \/ \E c \in Clients : Connects(c) \/ Types(c) \/ Receives(c) \/ Closes(c)
    \/ Accepts \/ ServerReceives \/ ServerTypes \/ ServerCloses

-----------------------------------------------------------------------------
\* The users speak in turn: nobody is asked for a line before a piece of the other's
\* has come, unless the other has closed.
SpeakInTurn ==
    /\ typed[Server] <= heard[Server]
    /\ \A c \in Clients \ (gone.server \cup gone.reset) : typed[c] <= heard[c] + 1

\* Both wait for each other only when somebody has sent an empty line, of which
\* nothing arrives.
BothWaitAfterEmpty ==
    talk = "recv" /\ at[partner] = "recv" /\ up[partner] + down[partner] = 0
        /\ partner \notin gone.reset
    => "empty" \in {line[Server], line[partner]}
=============================================================================
