------------------------- MODULE DevicesProperties -------------------------
(***************************************************************************)
(* What the USB device table of the daemon (Devices) must satisfy: safety, *)
(* the inductive invariant that carries it, what a step may do, liveness,  *)
(* and the table of ids it implements (HotplugTable).                      *)
(***************************************************************************)
EXTENDS Devices

-----------------------------------------------------------------------------
(* Safety.                                                                 *)

PollerTypes ==
    /\ devices \in [Slots -> Entries]
    /\ tmp \in [Slots -> Entries]
    /\ list \subseteq Addrs
    /\ poll \in {"test", "list", "scan", "clean", "remove", "clear", "add",
                 "write", "claim", "sleep", "ended", "crashed"}
    /\ i \in 0 .. MaxDevs
    /\ poll \in {"remove", "clear", "write", "claim"} => i \in Slots
    /\ state \in [Handles -> {"closed", "open", "claimed", "refused"}]
    /\ target \in [Handles -> Addrs \cup {NoAddr}]
    /\ seen \subseteq Addrs
    /\ cut \in BOOLEAN

ClientTypes ==
    /\ cpc \in [Clients -> {"idle", "lock", "read", "got", "transfer", "ended"}]
    /\ cslot \in [Clients -> Slots]
    /\ ch \in [Clients -> Handles \cup {NULL}]

\* Every variable has its type; in particular the clients and the poller index
\* the table within its bounds.
TypeOK ==
    /\ attached \subseteq Addrs
    /\ running \in BOOLEAN
    /\ mutex \in Clients \cup {Poller, Nobody}
    /\ closer \in {"up", "join", "closed"}
    /\ PollerTypes
    /\ ClientTypes

\* A controller has at most one id and a handle is in at most one slot, however
\* plugging and failing scans interleave: listContains keeps a controller that
\* is listed from being opened and added again (getDevices, listTryAdd).
OneSlotEach ==
    \A s, t \in Slots : s # t =>
        /\ devices[s].addr # NoAddr => devices[s].addr # devices[t].addr
        /\ devices[s].handle # NULL => devices[s].handle # devices[t].handle

\* A slot that names a controller holds a live handle that was opened for that
\* very controller, except for the slot listTryRemove is at work on between
\* libusb_close and the critical section. No handle is therefore closed twice,
\* by listClean or by closeDevices, and an id never drives another controller.
TableHandlesLive ==
    closer # "closed" =>
        \A s \in Slots :
            /\ devices[s].addr = NoAddr <=> devices[s].handle = NULL
            /\ devices[s].addr # NoAddr =>
                \/ devices[s].handle \in Live /\ target[devices[s].handle] = devices[s].addr
                \/ s = i /\ poll \in {"remove", "clear"}

\* The entries of tmp with a handle listUpdateDevices has still to put in the
\* table.
PendingSlots ==
    {t \in Slots :
        /\ tmp[t].handle # NULL
        /\ \/ poll \in {"scan", "clean", "remove", "clear"}
           \/ poll \in {"add", "write"} /\ t >= i
           \/ poll = "claim" /\ t > i}

Pending == {tmp[t].handle : t \in PendingSlots}

\* A handle that libusb_open returned is in the table, or in tmp on its way to
\* the table: none leaks. It takes the whole cycle: after listClean the table
\* holds only controllers of tmp, so listTryAdd always finds a free slot for the
\* others, even with more than MAX_DEVS controllers on the bus.
NoHandleLeak ==
    poll # "crashed" => Live \subseteq {devices[s].handle : s \in Slots} \cup Pending

\* A thread that can lock the mutex finds no handle that has not gone through
\* claimHandle: listTryAdd keeps the lock until the claim was tried ("Make sure
\* the handle is claimend before other threads use this device").
ClaimedBeforeUse ==
    mutex # Poller =>
        \A s \in Slots : devices[s].handle # NULL => state[devices[s].handle] # "open"

\* When closeDevices is done no handle is live, so libusb_exit leaks none.
AllClosedAtExit == closer = "closed" => Live = {}

\* What the comment of listTryRemove says ("Threadsafe"): a handle a thread is
\* transferring through has not been closed.
NoTransferOnClosed ==
    \A c \in Clients : cpc[c] = "transfer" => ch[c] \in Live
-----------------------------------------------------------------------------
(* The strengthening of the invariants above that every step preserves.    *)

\* The mutex is held exactly in the critical sections.
MutexInv ==
    /\ mutex = Poller <=> poll \in {"clear", "write", "claim"}
    /\ \A c \in Clients : mutex = c <=> cpc[c] = "read"

\* closeDevices works alone.
ClosingInv ==
    /\ closer # "up" => \A c \in Clients : cpc[c] = "ended"
    /\ closer = "closed" => poll = "ended" /\ \A s \in Slots : devices[s].handle = NULL

\* The scan: every controller is met once, and what it opened is not listed.
ScanInv ==
    /\ poll = "list" => \A t \in Slots : tmp[t] = Empty
    /\ poll = "scan" =>
            \A t \in Slots : (t >= i => tmp[t] = Empty) /\ tmp[t].addr \notin list
    /\ \A t, u \in Slots :
            t # u /\ tmp[t].addr # NoAddr => tmp[t].addr # tmp[u].addr
    /\ \A t, u \in PendingSlots : t # u => tmp[t].handle # tmp[u].handle
    /\ \A t \in PendingSlots :
            /\ tmp[t].addr # NoAddr
            /\ state[tmp[t].handle] = "open"
            /\ target[tmp[t].handle] = tmp[t].addr
            /\ \A s \in Slots :
                    /\ devices[s].addr # tmp[t].addr
                    /\ devices[s].handle # tmp[t].handle

\* listClean leaves only controllers of tmp in the slots it is past.
CleanInv ==
    /\ poll \in {"clean", "remove", "clear", "add", "write", "claim"} =>
            \A s \in Slots :
                /\ s < i \/ poll \in {"add", "write", "claim"}
                /\ devices[s].addr # NoAddr
                => Contains(tmp, devices[s].addr)
    /\ poll \in {"remove", "clear"} =>
            devices[i].addr # NoAddr /\ devices[i].handle \notin Live

\* Only the handle listTryAdd is at work on is listed and not yet claimed.
AddInv ==
    /\ poll \in {"write", "claim"} => tmp[i].handle # NULL
    /\ poll = "claim" =>
            state[tmp[i].handle] = "open" /\ \E s \in Slots : devices[s] = tmp[i]
    /\ \A s \in Slots :
            devices[s].handle # NULL /\ state[devices[s].handle] = "open"
                => poll = "claim" /\ devices[s].handle = tmp[i].handle

\* A thread holds a handle only from the look-up to the end of the transfer.
HeldInv ==
    \A c \in Clients : cpc[c] \in {"idle", "lock", "read", "ended"} => ch[c] = NULL

\* Every controller in the list of the scan is in tmp or not yet visited; when the
\* scan is over it is in tmp, unless the scan was cut short or tmp was too small.
\* listTryRemove works on a slot whose controller is not in tmp.
CauseInv ==
    /\ poll = "scan" =>
            /\ \A a \in seen : a \in list \/ Contains(tmp, a)
            /\ \A t \in Slots : t < i => tmp[t].addr \in seen
            /\ list \subseteq seen
    /\ poll \in {"clean", "remove", "clear"} =>
            cut \/ Cardinality(seen) > MaxDevs \/ \A a \in seen : Contains(tmp, a)
    /\ poll \in {"remove", "clear"} => ~Contains(tmp, devices[i].addr)

TableInv ==
    /\ OneSlotEach
    /\ TableHandlesLive
    /\ ScanInv
    /\ CleanInv
    /\ AddInv

IInv ==
    /\ TypeOK
    /\ MutexInv
    /\ ClosingInv
    /\ TableInv
    /\ NoHandleLeak
    /\ HeldInv
    /\ CauseInv

-----------------------------------------------------------------------------
(* What a step may do to the table.                                        *)

\* A slot never passes from one controller to another in one step: the id goes
\* through a state in which it names none, so a look-up between sees NULL.
SlotsEmptyBetween ==
    [][\A s \in Slots :
        devices[s].addr # NoAddr /\ devices'[s].addr # NoAddr
            => devices'[s].addr = devices[s].addr]_vars

\* A controller loses its id only when the last scan did not see it, failed, or
\* saw more controllers than the table has room for.
DroppedForCause ==
    [][\A s \in Slots :
        devices[s].addr # NoAddr /\ devices'[s].addr = NoAddr
            => \/ devices[s].addr \notin seen
               \/ cut
               \/ Cardinality(seen) > MaxDevs]_vars

-----------------------------------------------------------------------------
(* Liveness.                                                               *)

Listed == {devices[s].addr : s \in Slots} \ {NoAddr}

Faults ==
    \/ GetDeviceListFails
    \/ GetDescriptorFails
    \/ \E a \in Addrs : VisitOpenFails(a)

NoMoreFaults == <>[][~Faults]_vars

\* A controller that is gone for good is not listed for ever: from some time on
\* its id is free, whatever fails on the way.
GoneIsUnlisted ==
    \A a \in Addrs :
        <>[](a \notin attached /\ running /\ Alive) => <>[](a \notin Listed)

\* A controller that stays plugged in gets an id and keeps it once libusb calls
\* stop failing, when there are not more controllers than ids.
PresentIsListed ==
    \A a \in Addrs :
        /\ NoMoreFaults
        /\ <>[](a \in attached /\ Cardinality(attached) <= MaxDevs /\ running /\ Alive)
        => <>[](a \in Listed)

\* closeDevices returns: the poller sees running and ends.
CloseTerminates == closer = "join" /\ Alive ~> closer = "closed" \/ ~Alive

\* A thread that asks for a handle is given one and ends its transfer.
LookupReturns == \A c \in Clients : cpc[c] = "lock" ~> cpc[c] = "idle" \/ ~Alive

-----------------------------------------------------------------------------
(* Refinement: an id is bound, for the threads, from the moment its handle *)
(* has gone through claimHandle until its slot is cleared.                 *)

Published ==
    [s \in Slots |->
        IF devices[s].handle # NULL /\ state[devices[s].handle] # "open"
        THEN devices[s] ELSE Empty]

Table == INSTANCE HotplugTable
    WITH table <- Published, held <- ch, serving <- closer # "closed"

\* The poller, the look-ups and closeDevices together behave as the table of
\* ids HotplugTable specifies: what a thread reads under the mutex is a state of
\* that table, never a controller half added or not yet claimed.
ImplementsTable == Table!TableSpec
=============================================================================
