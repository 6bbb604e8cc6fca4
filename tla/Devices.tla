------------------------------ MODULE Devices ------------------------------
(***************************************************************************)
(* The USB device table of the Xbox-controller daemon (devices.c): the     *)
(* polling thread that follows hot-plugging, the table "devices" guarded   *)
(* by "mutex", the threads that look a handle up with getDeviceHandle and  *)
(* then transfer through it (controller.c), and closeDevices, which        *)
(* closeAndExit of main.c calls once those threads have been joined.       *)
(*                                                                         *)
(* A bus/address pair is one value of Addrs; NoAddr stands for (-1, -1).   *)
(* A libusb handle is one value of Handles, a finite set of pointers:      *)
(* libusb_open may return any pointer that is not live, so a pointer that  *)
(* was closed can come back for another controller, as with malloc.        *)
(*                                                                         *)
(* A definition whose comment starts with "Fault:" is not part of the      *)
(* model: it is the definition after it with a bug, and shows which        *)
(* property notices that bug.                                              *)
(***************************************************************************)
EXTENDS Naturals, FiniteSets

CONSTANTS
    MaxDevs,    \* MAX_DEVS of common.h
    Addrs,      \* the bus/address pairs a controller can get
    Handles,    \* the pointers libusb_open can return
    Clients,    \* the threads that use getDeviceHandle
    NULL,       \* the null handle
    NoAddr,     \* bus = address = -1
    Poller,     \* the polling thread, as an owner of the mutex
    Nobody      \* the owner of a mutex that is not locked

ASSUME MaxDevsAssumption == MaxDevs \in Nat \ {0}
ASSUME AddrsAssumption == IsFiniteSet(Addrs)
ASSUME DistinctAssumption ==
    /\ NULL \notin Handles
    /\ NoAddr \notin Addrs
    /\ Poller # Nobody
    /\ Clients \cap {Poller, Nobody} = {}

VARIABLES
    attached,   \* the controllers plugged in
    devices,    \* devices[]: what each slot holds
    tmp,        \* tmp[]: what the scan found
    list,       \* the elements of the libusb device list not yet visited
    poll,       \* where the polling thread is
    i,          \* the index of the loop it is in (id in getDevices)
    running,    \* devices.c's running
    mutex,      \* who holds mutex
    state,      \* state[h]: what has been done with handle h
    target,     \* target[h]: the controller handle h was opened for
    cpc, cslot, ch,     \* the clients: where, the id asked for, the handle got
    closer,     \* how far closeDevices is
    seen, cut   \* history, up to the end of listClean: the controllers in the list
                \* of the scan, and whether the scan was cut short

clientVars == <<cpc, cslot, ch>>
scanVars == <<tmp, list, seen, cut>>
handleVars == <<state, target>>
pollVars == <<devices, scanVars, handleVars, poll, i>>
vars == <<attached, running, mutex, closer, pollVars, clientVars>>

\* What the poller never touches.
others == <<attached, running, closer, clientVars>>

Slots == 0 .. MaxDevs - 1
Empty == [addr |-> NoAddr, handle |-> NULL]
Entries == [addr : Addrs \cup {NoAddr}, handle : Handles \cup {NULL}]

\* Fault: the loop of listContains stops one slot early.
ContainsShort(arr, a) == \E s \in Slots : s # MaxDevs - 1 /\ arr[s].addr = a

\* listContains
Contains(arr, a) == \E s \in Slots : arr[s].addr = a

Live == {h \in Handles : state[h] # "closed"}

\* s is the slot a for loop that looks for one of S stops at.
IsFirst(s, S) == s \in S /\ \A t \in S : s <= t

\* Fault: listTryAdd does not look whether a slot is free.
EverySlot == Slots

FreeSlots == {s \in Slots : devices[s].handle = NULL}

Init ==
    /\ attached \in SUBSET Addrs
    /\ devices = [s \in Slots |-> Empty]
    /\ tmp = [s \in Slots |-> Empty]
    /\ list = {}
    /\ poll = "test"
    /\ i = 0
    /\ running = TRUE
    /\ mutex = Nobody
    /\ state = [h \in Handles |-> "closed"]
    /\ target = [h \in Handles |-> NoAddr]
    /\ cpc = [c \in Clients |-> "idle"]
    /\ cslot = [c \in Clients |-> 0]
    /\ ch = [c \in Clients |-> NULL]
    /\ closer = "up"
    /\ seen = {}
    /\ cut = FALSE

-----------------------------------------------------------------------------
(* The world outside: the kernel's view of the USB bus.                    *)

Plug(a) ==
    /\ a \notin attached
    /\ attached' = attached \cup {a}
    /\ UNCHANGED <<running, mutex, closer, pollVars, clientVars>>

Unplug(a) ==
    /\ a \in attached
    /\ attached' = attached \ {a}
    /\ UNCHANGED <<running, mutex, closer, pollVars, clientVars>>

-----------------------------------------------------------------------------
(* pollingThread: test running, getDevices, listClean, listUpdateDevices,  *)
(* sleep, again.                                                           *)

\* Fault: the loop does not look at running.
TestNothing ==
    /\ poll = "test"
    /\ poll' = "list"
    /\ tmp' = [s \in Slots |-> Empty]
    /\ UNCHANGED <<others, mutex, devices, list, i, seen, cut, handleVars>>

\* while(running): the loop goes on with getDevices, which empties tmp, or
\* the thread ends.
TestRunning ==
    /\ poll = "test"
    /\ IF running
       THEN /\ poll' = "list"
            /\ tmp' = [s \in Slots |-> Empty]
       ELSE /\ poll' = "ended"
            /\ UNCHANGED tmp
    /\ UNCHANGED <<others, mutex, devices, list, i, seen, cut, handleVars>>

\* libusb_get_device_list takes a picture of the bus.
GetDeviceList ==
    /\ poll = "list"
    /\ poll' = "scan"
    /\ list' = attached
    /\ seen' = attached
    /\ cut' = FALSE
    /\ i' = 0
    /\ UNCHANGED <<others, mutex, devices, tmp, handleVars>>

\* It fails: getDevices frees the list, an uninitialized pointer, which ends the
\* process unless the pointer happens to be null; then tmp stays empty.
GetDeviceListFails ==
    /\ poll = "list"
    /\ poll' \in {"clean", "crashed"}
    /\ cut' = TRUE
    /\ i' = 0
    /\ UNCHANGED <<others, mutex, devices, tmp, list, seen, handleVars>>

\* Fault: the loop does not stop when tmp is full.
VisitUnbounded(a, h) ==
    /\ poll = "scan"
    /\ a \in list
    /\ tmp' = [tmp EXCEPT ![i] = [addr |-> a, handle |-> h]]
    /\ list' = list \ {a}
    /\ i' = i + 1
    /\ UNCHANGED <<others, mutex, devices, poll, seen, cut>>

\* One matching element of the list is put in tmp[i] with handle h; the loop
\* stops when tmp is full. The order of the list is the kernel's.
Visit(a, h) ==
    /\ poll = "scan"
    /\ a \in list
    /\ i < MaxDevs
    /\ tmp' = [tmp EXCEPT ![i] = [addr |-> a, handle |-> h]]
    /\ list' = list \ {a}
    /\ i' = i + 1
    /\ UNCHANGED <<others, mutex, devices, poll, seen, cut>>

\* Fault: a controller that is known is left out of tmp.
VisitKnownForgets(a) ==
    /\ poll = "scan"
    /\ a \in list
    /\ Contains(devices, a)
    /\ list' = list \ {a}
    /\ UNCHANGED <<others, mutex, devices, tmp, poll, i, seen, cut, handleVars>>

\* A controller that is in the table already is not opened again.
VisitKnown(a) ==
    /\ Contains(devices, a)
    /\ Visit(a, NULL)
    /\ UNCHANGED handleVars

\* Fault: a controller that is known is opened again.
VisitOpensAlways(a, h) ==
    /\ a \in attached
    /\ h \notin Live
    /\ Visit(a, h)
    /\ state' = [state EXCEPT ![h] = "open"]
    /\ target' = [target EXCEPT ![h] = a]

VisitOpens(a, h) ==
    /\ ~Contains(devices, a)
    /\ a \in attached
    /\ h \notin Live
    /\ Visit(a, h)
    /\ state' = [state EXCEPT ![h] = "open"]
    /\ target' = [target EXCEPT ![h] = a]

\* libusb_open fails and leaves the handle NULL; its result is not looked at.
VisitOpenFails(a) ==
    /\ ~Contains(devices, a)
    /\ Visit(a, NULL)
    /\ UNCHANGED handleVars

\* The descriptor of some element, a controller or not, cannot be read:
\* getDevices returns with what it has.
GetDescriptorFails ==
    /\ poll = "scan"
    /\ i < MaxDevs
    /\ poll' = "clean"
    /\ cut' = TRUE
    /\ list' = {}
    /\ i' = 0
    /\ UNCHANGED <<others, mutex, devices, tmp, seen, handleVars>>

\* The end of the list, or tmp is full.
ScanDone ==
    /\ poll = "scan"
    /\ list = {} \/ i = MaxDevs
    /\ poll' = "clean"
    /\ list' = {}
    /\ i' = 0
    /\ UNCHANGED <<others, mutex, devices, tmp, seen, cut, handleVars>>

\* listClean, slot i: keep it when it is empty or in tmp.
CleanKeeps ==
    /\ poll = "clean"
    /\ i < MaxDevs
    /\ devices[i].addr = NoAddr \/ Contains(tmp, devices[i].addr)
    /\ i' = i + 1
    /\ UNCHANGED <<others, mutex, devices, poll, scanVars, handleVars>>

\* Otherwise listTryRemove: close its handle, the mutex not held, ...
CleanCloses ==
    /\ poll = "clean"
    /\ i < MaxDevs
    /\ devices[i].addr # NoAddr
    /\ ~Contains(tmp, devices[i].addr)
    /\ poll' = "remove"
    /\ IF devices[i].handle # NULL
       THEN /\ state' = [state EXCEPT ![devices[i].handle] = "closed"]
            /\ target' = [target EXCEPT ![devices[i].handle] = NoAddr]
       ELSE UNCHANGED handleVars
    /\ UNCHANGED <<others, mutex, devices, i, scanVars>>

\* Fault: it goes on whoever has the mutex.
RemoveBarges ==
    /\ poll = "remove"
    /\ mutex' = Poller
    /\ poll' = "clear"
    /\ UNCHANGED <<others, devices, i, scanVars, handleVars>>

\* ... lock the mutex, ...
RemoveLocks ==
    /\ poll = "remove"
    /\ mutex = Nobody
    /\ mutex' = Poller
    /\ poll' = "clear"
    /\ UNCHANGED <<others, devices, i, scanVars, handleVars>>

\* Fault: the handle of the slot is not reset.
RemoveClearsAddr ==
    /\ poll = "clear"
    /\ \E s \in Slots :
            /\ IsFirst(s, {t \in Slots : devices[t].addr = devices[i].addr})
            /\ devices' = [devices EXCEPT ![s].addr = NoAddr]
    /\ mutex' = Nobody
    /\ poll' = "clean"
    /\ i' = i + 1
    /\ UNCHANGED <<others, scanVars, handleVars>>

\* Fault: the mutex is not unlocked.
RemoveClearsLocked ==
    /\ poll = "clear"
    /\ \E s \in Slots :
            /\ IsFirst(s, {t \in Slots : devices[t].addr = devices[i].addr})
            /\ devices' = [devices EXCEPT ![s] = Empty]
    /\ poll' = "clean"
    /\ i' = i + 1
    /\ UNCHANGED <<others, mutex, scanVars, handleVars>>

\* ... clear the first slot with that address and unlock.
RemoveClears ==
    /\ poll = "clear"
    /\ \E s \in Slots :
            /\ IsFirst(s, {t \in Slots : devices[t].addr = devices[i].addr})
            /\ devices' = [devices EXCEPT ![s] = Empty]
    /\ mutex' = Nobody
    /\ poll' = "clean"
    /\ i' = i + 1
    /\ UNCHANGED <<others, scanVars, handleVars>>

CleanDone ==
    /\ poll = "clean"
    /\ i = MaxDevs
    /\ poll' = "add"
    /\ i' = 0
    /\ seen' = {}
    /\ cut' = FALSE
    /\ UNCHANGED <<others, mutex, devices, tmp, list, handleVars>>

\* listTryAdd(&tmp[i]) has something to do when tmp[i] is not listed, was
\* opened, and a slot is free.
Addable ==
    /\ ~Contains(devices, tmp[i].addr)
    /\ tmp[i].handle # NULL
    /\ FreeSlots # {}

AddSkips ==
    /\ poll = "add"
    /\ i < MaxDevs
    /\ ~Addable
    /\ i' = i + 1
    /\ UNCHANGED <<others, mutex, devices, poll, scanVars, handleVars>>

AddLocks ==
    /\ poll = "add"
    /\ i < MaxDevs
    /\ Addable
    /\ mutex = Nobody
    /\ mutex' = Poller
    /\ poll' = "write"
    /\ UNCHANGED <<others, devices, i, scanVars, handleVars>>

\* Fault: the mutex is unlocked before the handle is claimed.
AddWritesUnlocks ==
    /\ poll = "write"
    /\ \E s \in Slots :
            /\ IsFirst(s, FreeSlots)
            /\ devices' = [devices EXCEPT ![s] = tmp[i]]
    /\ poll' = "claim"
    /\ mutex' = Nobody
    /\ UNCHANGED <<others, i, scanVars, handleVars>>

AddWrites ==
    /\ poll = "write"
    /\ \E s \in Slots :
            /\ IsFirst(s, FreeSlots)
            /\ devices' = [devices EXCEPT ![s] = tmp[i]]
    /\ poll' = "claim"
    /\ UNCHANGED <<others, mutex, i, scanVars, handleVars>>

\* claimHandle, whose failure listTryAdd does not look at, and unlock.
AddClaims ==
    /\ poll = "claim"
    /\ \E result \in {"claimed", "refused"} :
            state' = [state EXCEPT ![tmp[i].handle] = result]
    /\ mutex' = Nobody
    /\ poll' = "add"
    /\ i' = i + 1
    /\ UNCHANGED <<others, devices, target, scanVars>>

AddDone ==
    /\ poll = "add"
    /\ i = MaxDevs
    /\ poll' = "sleep"
    /\ i' = 0
    /\ UNCHANGED <<others, mutex, devices, scanVars, handleVars>>

Wake ==
    /\ poll = "sleep"
    /\ poll' = "test"
    /\ UNCHANGED <<others, mutex, devices, i, scanVars, handleVars>>

-----------------------------------------------------------------------------
(* A client: the command or the button thread of main.c. It asks for the   *)
(* handle of an id and uses it in one interrupt transfer (controller.c).   *)

\* getDeviceHandle(id): MaxDevs stands for every id past the table.
Call(c, id) ==
    /\ cpc[c] = "idle"
    /\ IF id \in Slots
       THEN /\ cpc' = [cpc EXCEPT ![c] = "lock"]
            /\ cslot' = [cslot EXCEPT ![c] = id]
            /\ UNCHANGED ch
       ELSE /\ cpc' = [cpc EXCEPT ![c] = "got"]
            /\ ch' = [ch EXCEPT ![c] = NULL]
            /\ UNCHANGED cslot
    /\ UNCHANGED <<attached, running, mutex, closer, pollVars>>

\* Fault: getDeviceHandle reads without waiting for the mutex.
LookupBarges(c) ==
    /\ cpc[c] = "lock"
    /\ cpc' = [cpc EXCEPT ![c] = "read"]
    /\ UNCHANGED <<attached, running, mutex, closer, pollVars, cslot, ch>>

LookupLocks(c) ==
    /\ cpc[c] = "lock"
    /\ mutex = Nobody
    /\ mutex' = c
    /\ cpc' = [cpc EXCEPT ![c] = "read"]
    /\ UNCHANGED <<attached, running, closer, pollVars, cslot, ch>>

LookupReads(c) ==
    /\ cpc[c] = "read"
    /\ ch' = [ch EXCEPT ![c] = devices[cslot[c]].handle]
    /\ cslot' = [cslot EXCEPT ![c] = 0]
    /\ mutex' = Nobody
    /\ cpc' = [cpc EXCEPT ![c] = "got"]
    /\ UNCHANGED <<attached, running, closer, pollVars>>

\* A null handle is refused; with another one the transfer starts.
Use(c) ==
    /\ cpc[c] = "got"
    /\ cpc' = [cpc EXCEPT ![c] = IF ch[c] = NULL THEN "idle" ELSE "transfer"]
    /\ UNCHANGED <<attached, running, mutex, closer, pollVars, cslot, ch>>

\* The transfer ends, with data, an error or its time-out of 1000 ms.
TransferEnds(c) ==
    /\ cpc[c] = "transfer"
    /\ cpc' = [cpc EXCEPT ![c] = "idle"]
    /\ ch' = [ch EXCEPT ![c] = NULL]
    /\ UNCHANGED <<attached, running, mutex, closer, pollVars, cslot>>

\* The thread's own loop in main.c ends.
ClientEnds(c) ==
    /\ cpc[c] = "idle"
    /\ cpc' = [cpc EXCEPT ![c] = "ended"]
    /\ UNCHANGED <<attached, running, mutex, closer, pollVars, cslot, ch>>

-----------------------------------------------------------------------------
(* closeDevices, called by closeAndExit when the clients have been joined. *)

StopPolling ==
    /\ closer = "up"
    /\ \A c \in Clients : cpc[c] = "ended"
    /\ running' = FALSE
    /\ closer' = "join"
    /\ UNCHANGED <<attached, mutex, pollVars, clientVars>>

\* Fault: closeDevices does not wait for the poller.
CloseAllUnjoined ==
    /\ closer = "join"
    /\ closer' = "closed"
    /\ state' = [h \in Handles |->
            IF \E s \in Slots : devices[s].handle = h THEN "closed" ELSE state[h]]
    /\ target' = [h \in Handles |->
            IF \E s \in Slots : devices[s].handle = h THEN NoAddr ELSE target[h]]
    /\ devices' = [s \in Slots |-> [devices[s] EXCEPT !.handle = NULL]]
    /\ UNCHANGED <<attached, running, mutex, clientVars>>
    /\ UNCHANGED <<tmp, list, poll, i, seen, cut>>

\* The poller has been joined: every handle of the table is closed.
CloseAll ==
    /\ closer = "join"
    /\ poll = "ended"
    /\ closer' = "closed"
    /\ state' = [h \in Handles |->
            IF \E s \in Slots : devices[s].handle = h THEN "closed" ELSE state[h]]
    /\ target' = [h \in Handles |->
            IF \E s \in Slots : devices[s].handle = h THEN NoAddr ELSE target[h]]
    /\ devices' = [s \in Slots |-> [devices[s] EXCEPT !.handle = NULL]]
    /\ UNCHANGED <<attached, running, mutex, clientVars>>
    /\ UNCHANGED <<tmp, list, poll, i, seen, cut>>

-----------------------------------------------------------------------------
Alive == poll # "crashed"

Scan ==
    \/ GetDeviceList
    \/ GetDeviceListFails
    \/ \E a \in Addrs :
            \/ VisitKnown(a)
            \/ \E h \in Handles : VisitOpens(a, h)
            \/ VisitOpenFails(a)
    \/ GetDescriptorFails
    \/ ScanDone

Clean == CleanKeeps \/ CleanCloses \/ RemoveLocks \/ RemoveClears \/ CleanDone

Update == AddSkips \/ AddLocks \/ AddWrites \/ AddClaims \/ AddDone

PollerStep == TestRunning \/ Scan \/ Clean \/ Update \/ Wake

ClientStep(c) ==
    /\ Alive
    /\ \/ \E id \in 0 .. MaxDevs : Call(c, id)
       \/ LookupLocks(c)
       \/ LookupReads(c)
       \/ Use(c)
       \/ TransferEnds(c)
       \/ ClientEnds(c)

CloserStep == Alive /\ (StopPolling \/ CloseAll)

Environment == \E a \in Addrs : Plug(a) \/ Unplug(a)

Next ==
    \/ Environment
    \/ PollerStep
    \/ \E c \in Clients : ClientStep(c)
    \/ CloserStep

Spec == Init /\ [][Next]_vars

-----------------------------------------------------------------------------
(* Fairness. The poller never blocks for long: the mutex is held for a few *)
(* statements and libusb calls return, so each of its steps is weakly      *)
(* fair, and it is not starved by look-ups, which sleep in transfers of up *)
(* to a second: taking the mutex is strongly fair. libusb_open and the     *)
(* scan may fail, and are not assumed to succeed. Nobody must stop the     *)
(* daemon, plug, or ask for a handle.                                      *)

Fairness ==
    /\ WF_vars(PollerStep)
    /\ SF_vars(RemoveLocks)
    /\ SF_vars(AddLocks)
    /\ WF_vars(Alive /\ CloseAll)
    /\ \A c \in Clients :
        /\ WF_vars(Alive /\ (LookupReads(c) \/ Use(c) \/ TransferEnds(c)))
        /\ SF_vars(Alive /\ LookupLocks(c))

FairSpec == Spec /\ Fairness
=============================================================================
