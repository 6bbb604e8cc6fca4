---------------------------- MODULE HotplugTable ----------------------------
(***************************************************************************)
(* What the daemon's threads may rely on when they ask devices.c for a     *)
(* controller: a table of ids in which a claimed controller appears and    *)
(* disappears at once, and look-ups that read one id of it at once. How    *)
(* the table is kept (scans, tmp, the mutex, opening, claiming, closing)   *)
(* is not visible here; Devices implements this specification.             *)
(***************************************************************************)
EXTENDS Naturals

CONSTANTS MaxDevs, Addrs, Handles, Clients, NULL, NoAddr

VARIABLES
    table,      \* what each id is bound to
    held,       \* the handle each thread was given and has not used up
    serving     \* FALSE when the table has been closed

tableVars == <<table, held, serving>>

Ids == 0 .. MaxDevs - 1
Unbound == [addr |-> NoAddr, handle |-> NULL]

TableInit ==
    /\ table = [s \in Ids |-> Unbound]
    /\ held = [c \in Clients |-> NULL]
    /\ serving = TRUE

\* A controller with no id gets a free one, with a handle no other id has.
Bind(s, a, h) ==
    /\ serving
    /\ table[s] = Unbound
    /\ \A t \in Ids : table[t].addr # a /\ table[t].handle # h
    /\ table' = [table EXCEPT ![s] = [addr |-> a, handle |-> h]]
    /\ UNCHANGED <<held, serving>>

Unbind(s) ==
    /\ serving
    /\ table[s] # Unbound
    /\ table' = [table EXCEPT ![s] = Unbound]
    /\ UNCHANGED <<held, serving>>

\* A thread gets the handle an id has at that moment, NULL when it has none.
Lookup(c, s) ==
    /\ serving
    /\ held[c] = NULL
    /\ held' = [held EXCEPT ![c] = table[s].handle]
    /\ UNCHANGED <<table, serving>>

Release(c) ==
    /\ held' = [held EXCEPT ![c] = NULL]
    /\ UNCHANGED <<table, serving>>

\* The table is closed when nobody holds a handle any more.
Shut ==
    /\ serving
    /\ \A c \in Clients : held[c] = NULL
    /\ table' = [s \in Ids |-> Unbound]
    /\ serving' = FALSE
    /\ UNCHANGED held

TableNext ==
    \/ \E s \in Ids, a \in Addrs, h \in Handles : Bind(s, a, h)
    \/ \E s \in Ids : Unbind(s)
    \/ \E c \in Clients : Release(c) \/ \E s \in Ids : Lookup(c, s)
    \/ Shut

TableSpec == TableInit /\ [][TableNext]_tableVars
=============================================================================
