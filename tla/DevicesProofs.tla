--------------------------- MODULE DevicesProofs ---------------------------
(***************************************************************************)
(* Proofs about Devices, for any number of slots, controllers, handles and *)
(* threads. The invariant IInv is proved part by part: each lemma shows    *)
(* that one part survives every step that starts in IInv. Then comes what  *)
(* a step may do to a slot, and that the poller, the look-ups and          *)
(* closeDevices implement the table of ids HotplugTable.                   *)
(***************************************************************************)
EXTENDS DevicesProperties, FiniteSetTheorems, TLAPS

USE DEF others, scanVars, handleVars

-----------------------------------------------------------------------------
(* Type correctness.                                                       *)

\* The bounds of the slots, so that Slots need not be expanded.
LEMMA SlotBounds ==
    /\ 0 \in Slots /\ 0 \in 0 .. MaxDevs
    /\ \A n \in 0 .. MaxDevs : n < MaxDevs => n \in Slots /\ n + 1 \in 0 .. MaxDevs
    /\ \A n \in Slots : n \in Nat /\ n < MaxDevs /\ n \in 0 .. MaxDevs
  BY MaxDevsAssumption DEF Slots

\* The empty slot is an entry.
LEMMA EmptyEntry == Empty \in Entries
  BY DEF Empty, Entries

\* The initial state is well typed.
LEMMA TypeInit == Init => TypeOK
  <1> SUFFICES ASSUME Init PROVE TypeOK
    OBVIOUS
  <1>1. PollerTypes
    BY SlotBounds, EmptyEntry DEF Init, PollerTypes
  <1>2. ClientTypes
    <2>1. ch \in [Clients -> Handles \cup {NULL}]
      BY DEF Init
    <2>2. cslot \in [Clients -> Slots]
      BY SlotBounds DEF Init
    <2>3. cpc \in [Clients -> {"idle", "lock", "read", "got", "transfer", "ended"}]
      BY DEF Init
    <2> QED BY <2>1, <2>2, <2>3 DEF ClientTypes
  <1> QED BY <1>1, <1>2 DEF Init, TypeOK

\* A step of the poller keeps the types of what it changes.
LEMMA PollerTypeStep == PollerTypes /\ attached \subseteq Addrs /\ PollerStep => PollerTypes'
  <1> SUFFICES ASSUME PollerTypes, attached \subseteq Addrs, PollerStep PROVE PollerTypes'
    OBVIOUS
  <1> USE SlotBounds DEF PollerTypes
  <1>1. CASE TestRunning \/ Wake
    BY <1>1, EmptyEntry DEF TestRunning, Wake
  <1>2. CASE Scan
    <2>1. CASE GetDeviceList \/ GetDeviceListFails \/ GetDescriptorFails \/ ScanDone
      BY <2>1 DEF GetDeviceList, GetDeviceListFails, GetDescriptorFails, ScanDone
    <2>2. ASSUME NEW a \in Addrs, NEW h \in Handles \cup {NULL}, Visit(a, h)
          PROVE  tmp' \in [Slots -> Entries] /\ list' \subseteq Addrs /\ i' \in 0 .. MaxDevs
      <3>1. [addr |-> a, handle |-> h] \in Entries
        BY DEF Entries
      <3> QED BY <2>2, <3>1 DEF Visit
    <2>3. ASSUME NEW a \in Addrs, VisitKnown(a) \/ VisitOpenFails(a) PROVE PollerTypes'
      BY <2>2, <2>3 DEF VisitKnown, VisitOpenFails, Visit
    <2>4. ASSUME NEW a \in Addrs, NEW h \in Handles, VisitOpens(a, h) PROVE PollerTypes'
      BY <2>2, <2>4 DEF VisitOpens, Visit
    <2> QED BY <1>2, <2>1, <2>3, <2>4 DEF Scan
  <1>3. CASE Clean
    <2>1. CASE CleanKeeps
      BY <2>1 DEF CleanKeeps
    <2>2. CASE CleanCloses
      BY <2>2 DEF CleanCloses
    <2>3. CASE RemoveLocks \/ CleanDone
      BY <2>3 DEF RemoveLocks, CleanDone
    <2>4. CASE RemoveClears
      BY <2>4, EmptyEntry DEF RemoveClears
    <2> QED BY <1>3, <2>1, <2>2, <2>3, <2>4 DEF Clean
  <1>4. CASE Update
    <2>1. CASE AddSkips \/ AddLocks \/ AddDone
      BY <2>1 DEF AddSkips, AddLocks, AddDone
    <2>2. CASE AddWrites
      BY <2>2 DEF AddWrites
    <2>3. CASE AddClaims
      BY <2>3 DEF AddClaims
    <2> QED BY <1>4, <2>1, <2>2, <2>3 DEF Update
  <1> QED BY <1>1, <1>2, <1>3, <1>4 DEF PollerStep

\* A step of a client keeps the types of what it changes.
LEMMA ClientTypeStep ==
  ASSUME TypeOK, NEW c \in Clients, ClientStep(c)
  PROVE  ClientTypes' /\ mutex' \in Clients \cup {Poller, Nobody}
  <1> USE DEF TypeOK, ClientTypes
  <1>1. ASSUME NEW id \in 0 .. MaxDevs, Call(c, id) PROVE ClientTypes'
    BY <1>1 DEF Call
  <1>2. CASE LookupLocks(c)
    BY <1>2 DEF LookupLocks
  <1>3. CASE LookupReads(c)
    <2>1. devices[cslot[c]].handle \in Handles \cup {NULL}
      BY DEF PollerTypes, Entries
    <2>2. ch' \in [Clients -> Handles \cup {NULL}]
      BY <1>3, <2>1 DEF LookupReads
    <2>3. cpc' \in [Clients -> {"idle", "lock", "read", "got", "transfer", "ended"}]
      BY <1>3 DEF LookupReads
    <2>4. cslot' \in [Clients -> Slots]
      BY <1>3, SlotBounds DEF LookupReads
    <2> QED BY <1>3, <2>2, <2>3, <2>4 DEF LookupReads
  <1>4. CASE Use(c) \/ TransferEnds(c) \/ ClientEnds(c)
    BY <1>4 DEF Use, TransferEnds, ClientEnds
  <1>5. CASE \E id \in 0 .. MaxDevs : Call(c, id)
    BY <1>1, <1>5 DEF Call
  <1> QED BY <1>2, <1>3, <1>4, <1>5 DEF ClientStep

\* closeDevices keeps the types of what it changes.
LEMMA CloserTypeStep == TypeOK /\ CloserStep => PollerTypes'
  <1> SUFFICES ASSUME TypeOK, CloserStep PROVE PollerTypes'
    OBVIOUS
  <1> USE DEF TypeOK, PollerTypes
  <1>1. CASE StopPolling
    BY <1>1 DEF StopPolling, pollVars
  <1>2. CASE CloseAll
    <2>1. \A s \in Slots : [devices[s] EXCEPT !.handle = NULL] \in Entries
      BY DEF Entries
    <2> QED BY <1>2, <2>1 DEF CloseAll
  <1> QED BY <1>1, <1>2 DEF CloserStep

\* Every step keeps the types.
LEMMA TypeStep == TypeOK /\ [Next]_vars => TypeOK'
  <1> SUFFICES ASSUME TypeOK, [Next]_vars PROVE TypeOK'
    OBVIOUS
  <1> USE DEF TypeOK
  <1>1. CASE Environment
    BY <1>1 DEF Environment, Plug, Unplug, pollVars, clientVars, PollerTypes, ClientTypes
  <1>2. CASE PollerStep
    <2>1. PollerTypes'
      BY <1>2, PollerTypeStep
    <2>2. /\ UNCHANGED <<attached, running, closer, clientVars>>
          /\ mutex' \in {mutex, Poller, Nobody}
      BY <1>2 DEF PollerStep, TestRunning, Scan, Clean, Update, Wake, GetDeviceList,
                  GetDeviceListFails, GetDescriptorFails, ScanDone, VisitKnown, VisitOpens,
                  VisitOpenFails, Visit, CleanKeeps, CleanCloses, RemoveLocks, RemoveClears,
                  CleanDone, AddSkips, AddLocks, AddWrites, AddClaims, AddDone
    <2>3. ClientTypes'
      BY <2>2 DEF clientVars, ClientTypes
    <2> QED BY <2>1, <2>2, <2>3
  <1>3. ASSUME NEW c \in Clients, ClientStep(c) PROVE TypeOK'
    <2>1. UNCHANGED <<attached, running, closer, pollVars>>
      BY <1>3 DEF ClientStep, Call, LookupLocks, LookupReads, Use, TransferEnds, ClientEnds
    <2>2. PollerTypes'
      BY <2>1 DEF pollVars, PollerTypes
    <2> QED BY <1>3, <2>1, <2>2, ClientTypeStep
  <1>4. CASE CloserStep
    <2>1. PollerTypes'
      BY <1>4, CloserTypeStep
    <2> QED BY <1>4, <2>1 DEF CloserStep, StopPolling, CloseAll, clientVars, ClientTypes
  <1>5. CASE UNCHANGED vars
    BY <1>5 DEF vars, pollVars, clientVars, PollerTypes, ClientTypes
  <1> QED
    BY <1>1, <1>2, <1>3, <1>4, <1>5 DEF Next

\* Devices is type correct: in particular the poller and the clients never index
\* the table outside its bounds.
THEOREM TypeCorrect == Spec => []TypeOK
  <1>1. Init => TypeOK
    BY TypeInit
  <1>2. TypeOK /\ [Next]_vars => TypeOK'
    BY TypeStep
  <1> QED BY <1>1, <1>2, PTL DEF Spec

-----------------------------------------------------------------------------
(* The mutex and closeDevices.                                             *)

\* The mutex is held in the critical sections and nowhere else.
LEMMA MutexStep == TypeOK /\ MutexInv /\ [Next]_vars => MutexInv'
  <1> SUFFICES ASSUME TypeOK, MutexInv, [Next]_vars PROVE MutexInv'
    OBVIOUS
  <1> USE DistinctAssumption DEF DistinctAssumption, TypeOK, MutexInv
  <1>1. CASE Environment
    BY <1>1 DEF Environment, Plug, Unplug, pollVars, clientVars
  <1>2. CASE PollerStep
    <2>1. CASE UNCHANGED mutex
      BY <1>2, <2>1 DEF PollerStep, TestRunning, Scan, Clean, Update, Wake, GetDeviceList,
                  GetDeviceListFails, GetDescriptorFails, ScanDone, VisitKnown, VisitOpens,
                  VisitOpenFails, Visit, CleanKeeps, CleanCloses, RemoveLocks, RemoveClears,
                  CleanDone, AddSkips, AddLocks, AddWrites, AddClaims, AddDone, clientVars
    <2>2. CASE mutex' # mutex
      <3>1. RemoveLocks \/ RemoveClears \/ AddLocks \/ AddClaims
        BY <1>2, <2>2 DEF PollerStep, TestRunning, Scan, Clean, Update, Wake, GetDeviceList,
                  GetDeviceListFails, GetDescriptorFails, ScanDone, VisitKnown, VisitOpens,
                  VisitOpenFails, Visit, CleanKeeps, CleanCloses, CleanDone, AddSkips,
                  AddWrites, AddDone
      <3> QED BY <3>1 DEF RemoveLocks, RemoveClears, AddLocks, AddClaims, clientVars
    <2> QED BY <2>1, <2>2
  <1>3. ASSUME NEW c \in Clients, ClientStep(c) PROVE MutexInv'
    <2> USE DEF ClientTypes, pollVars
    <2>1. ASSUME NEW id \in 0 .. MaxDevs, Call(c, id) PROVE MutexInv'
      BY <2>1 DEF Call
    <2>2. CASE LookupLocks(c)
      BY <2>2 DEF LookupLocks
    <2>3. CASE LookupReads(c)
      BY <2>3 DEF LookupReads
    <2>4. CASE Use(c) \/ TransferEnds(c) \/ ClientEnds(c)
      BY <2>4 DEF Use, TransferEnds, ClientEnds
    <2> QED BY <1>3, <2>1, <2>2, <2>3, <2>4 DEF ClientStep
  <1>4. CASE CloserStep
    BY <1>4 DEF CloserStep, StopPolling, CloseAll, pollVars, clientVars
  <1>5. CASE UNCHANGED vars
    BY <1>5 DEF vars, pollVars, clientVars
  <1> QED
    BY <1>1, <1>2, <1>3, <1>4, <1>5 DEF Next

\* What a step of a client, of the environment or of nobody leaves alone.
LEMMA OthersStep ==
  ASSUME Environment \/ (\E c \in Clients : ClientStep(c)) \/ UNCHANGED vars
  PROVE  UNCHANGED pollVars /\ UNCHANGED <<running, closer>>
  BY DEF Environment, Plug, Unplug, ClientStep, Call, LookupLocks, LookupReads, Use,
         TransferEnds, ClientEnds, vars

\* What a step of the poller leaves alone.
LEMMA PollerFrame ==
  ASSUME PollerStep
  PROVE  UNCHANGED <<attached, running, closer, cpc, cslot, ch>> /\ poll # "ended" /\ poll # "crashed"
  BY DEF PollerStep, TestRunning, Scan, Clean, Update, Wake, GetDeviceList,
         GetDeviceListFails, GetDescriptorFails, ScanDone, VisitKnown, VisitOpens,
         VisitOpenFails, Visit, CleanKeeps, CleanCloses, RemoveLocks, RemoveClears,
         CleanDone, AddSkips, AddLocks, AddWrites, AddClaims, AddDone, clientVars

\* closeDevices runs when the clients and the poller have ended.
LEMMA ClosingStep == TypeOK /\ ClosingInv /\ [Next]_vars => ClosingInv'
  <1> SUFFICES ASSUME TypeOK, ClosingInv, [Next]_vars PROVE ClosingInv'
    OBVIOUS
  <1> USE DEF ClosingInv
  <1>1. CASE Environment \/ UNCHANGED vars
    BY <1>1 DEF Environment, Plug, Unplug, pollVars, clientVars, vars
  <1>2. CASE PollerStep
    BY <1>2, PollerFrame
  <1>3. ASSUME NEW c \in Clients, ClientStep(c) PROVE ClosingInv'
    <2>1. UNCHANGED pollVars /\ UNCHANGED closer
      BY <1>3, OthersStep
    <2>2. cpc[c] # "ended"
      BY <1>3 DEF ClientStep, Call, LookupLocks, LookupReads, Use, TransferEnds, ClientEnds
    <2> QED BY <2>1, <2>2 DEF pollVars
  <1>4. CASE CloserStep
    <2>1. CASE StopPolling
      BY <2>1 DEF StopPolling, pollVars, clientVars
    <2>2. CASE CloseAll
      <3>1. \A s \in Slots : devices'[s].handle = NULL
        BY <2>2 DEF CloseAll, TypeOK, PollerTypes, Entries
      <3> QED BY <2>2, <3>1 DEF CloseAll, clientVars
    <2> QED BY <1>4, <2>1, <2>2 DEF CloserStep
  <1> QED
    BY <1>1, <1>2, <1>3, <1>4 DEF Next

-----------------------------------------------------------------------------
(* The table.                                                              *)

\* The table is empty at first.
LEMMA TableInit == Init => TableInv
  <1> SUFFICES ASSUME Init PROVE TableInv
    OBVIOUS
  <1>1. \A s \in Slots : devices[s] = Empty /\ tmp[s] = Empty
    BY DEF Init
  <1>2. PendingSlots = {}
    BY <1>1 DEF PendingSlots, Empty
  <1> QED BY <1>1, <1>2 DEF Init, TableInv, OneSlotEach, TableHandlesLive, ScanInv,
              CleanInv, AddInv, Empty

\* The steps of the poller that change neither the table nor a handle, and that
\* do not look into tmp.
LEMMA TableQuiet ==
  ASSUME IInv,
         GetDeviceListFails \/ GetDescriptorFails \/ ScanDone \/ RemoveLocks \/
         CleanDone \/ AddLocks \/ AddDone \/ Wake \/ CleanKeeps
  PROVE  TableInv'
  <1> USE SlotBounds DEF IInv, TypeOK, PollerTypes, TableInv
  <1>1. UNCHANGED <<devices, tmp, state, target, closer>>
    BY DEF GetDeviceListFails, GetDescriptorFails, ScanDone, RemoveLocks, CleanDone,
           AddLocks, AddDone, Wake, CleanKeeps
  <1>2. PendingSlots' \subseteq PendingSlots
    BY DEF GetDeviceListFails, GetDescriptorFails, ScanDone, RemoveLocks, CleanDone,
           AddLocks, AddDone, Wake, CleanKeeps, PendingSlots, ScanInv, Empty
  <1>3. OneSlotEach'
    BY <1>1 DEF OneSlotEach
  <1>4. TableHandlesLive'
    BY <1>1 DEF GetDeviceListFails, GetDescriptorFails, ScanDone, RemoveLocks, CleanDone,
           AddLocks, AddDone, Wake, CleanKeeps, TableHandlesLive, Live
  <1>5. ScanInv'
    BY <1>1, <1>2 DEF GetDeviceListFails, GetDescriptorFails, ScanDone, RemoveLocks, CleanDone,
           AddLocks, AddDone, Wake, CleanKeeps, ScanInv
  <1>6. CleanInv'
    BY <1>1 DEF GetDeviceListFails, GetDescriptorFails, ScanDone, RemoveLocks, CleanDone,
           AddLocks, AddDone, Wake, CleanKeeps, CleanInv, Contains, Live
  <1>7. AddInv'
    BY <1>1 DEF GetDeviceListFails, GetDescriptorFails, ScanDone, RemoveLocks, CleanDone,
           AddLocks, AddDone, Wake, CleanKeeps, AddInv, Addable
  <1> QED BY <1>3, <1>4, <1>5, <1>6, <1>7

\* The head of the loop and the start of the scan: tmp is empty.
LEMMA TableScanStarts ==
  ASSUME IInv, TestRunning \/ GetDeviceList
  PROVE  TableInv'
  <1> USE SlotBounds DEF IInv, TypeOK, PollerTypes, TableInv
  <1>1. UNCHANGED <<devices, state, target, closer>>
    BY DEF TestRunning, GetDeviceList
  <1>2. PendingSlots' = {}
    BY DEF TestRunning, GetDeviceList, PendingSlots, Empty, ScanInv
  <1>3. OneSlotEach'
    BY <1>1 DEF OneSlotEach
  <1>4. TableHandlesLive'
    BY <1>1 DEF TestRunning, GetDeviceList, TableHandlesLive, Live
  <1>5. ScanInv'
    <2>1. CASE TestRunning
      BY <2>1, <1>2 DEF TestRunning, ScanInv, Empty
    <2>2. CASE GetDeviceList
      BY <2>2, <1>2, DistinctAssumption DEF GetDeviceList, ScanInv, Empty, DistinctAssumption
    <2> QED BY <2>1, <2>2
  <1>6. CleanInv'
    BY DEF TestRunning, GetDeviceList, CleanInv
  <1>7. AddInv'
    BY <1>1 DEF TestRunning, GetDeviceList, AddInv
  <1> QED BY <1>3, <1>4, <1>5, <1>6, <1>7

\* A visit that opens nothing: tmp gets an entry without a handle.
LEMMA TableVisit ==
  ASSUME IInv, NEW a \in Addrs, VisitKnown(a) \/ VisitOpenFails(a)
  PROVE  TableInv'
  <1> USE SlotBounds DEF IInv, TypeOK, PollerTypes, TableInv, VisitKnown, VisitOpenFails, Visit
  <1>1. UNCHANGED <<devices, poll, state, target, closer>> /\ poll = "scan" /\ i \in Slots
    OBVIOUS
  <1>2. \A t \in Slots : tmp'[t] = IF t = i THEN [addr |-> a, handle |-> NULL] ELSE tmp[t]
    OBVIOUS
  <1>3. \A t \in PendingSlots' : t \in PendingSlots /\ t # i
    BY <1>1, <1>2 DEF PendingSlots
  <1>4. OneSlotEach'
    BY <1>1 DEF OneSlotEach
  <1>5. TableHandlesLive'
    BY <1>1 DEF TableHandlesLive, Live
  <1>6. ScanInv'
    <2>1. \A t, u \in Slots :
            t # u /\ tmp'[t].addr # NoAddr => tmp'[t].addr # tmp'[u].addr
      BY <1>1, <1>2, DistinctAssumption DEF ScanInv, Empty, DistinctAssumption
    <2>2. \A t \in Slots : (t >= i' => tmp'[t] = Empty) /\ tmp'[t].addr \notin list'
      BY <1>1, <1>2 DEF ScanInv
    <2>3. PendingSlots \subseteq Slots
      BY DEF PendingSlots
    <2>4. \A t \in PendingSlots' : t \in PendingSlots /\ tmp'[t] = tmp[t]
      BY <1>2, <1>3, <2>3
    <2> QED BY <1>1, <2>1, <2>2, <2>4 DEF ScanInv
  <1>7. CleanInv'
    BY <1>1 DEF CleanInv
  <1>8. AddInv'
    BY <1>1 DEF AddInv
  <1> QED BY <1>4, <1>5, <1>6, <1>7, <1>8

\* A visit that opens: the handle is new to the table and to tmp.
LEMMA TableVisitOpens ==
  ASSUME IInv, NEW a \in Addrs, NEW h \in Handles, VisitOpens(a, h)
  PROVE  TableInv'
  <1> USE SlotBounds, DistinctAssumption
      DEF DistinctAssumption, IInv, TypeOK, PollerTypes, TableInv, VisitOpens, Visit
  <1>1. UNCHANGED <<devices, poll, closer>> /\ poll = "scan" /\ i \in Slots
    OBVIOUS
  <1>2. \A t \in Slots : tmp'[t] = IF t = i THEN [addr |-> a, handle |-> h] ELSE tmp[t]
    OBVIOUS
  <1>3. \A g \in Handles : g # h => state'[g] = state[g] /\ target'[g] = target[g]
    OBVIOUS
  <1>4. state'[h] = "open" /\ target'[h] = a
    OBVIOUS
  <1>5. closer # "closed"
    BY <1>1 DEF ClosingInv
  <1>6. \A s \in Slots : devices[s].handle # h
    BY <1>1, <1>5 DEF TableHandlesLive, Live
  <1>7. \A t \in PendingSlots : t \in Slots /\ tmp[t].handle \in Handles /\ tmp[t].handle # h
    BY DEF PendingSlots, ScanInv, Live, Entries
  <1>8. \A t \in PendingSlots' : t \in Slots /\ (t = i \/ t \in PendingSlots)
    BY <1>1, <1>2 DEF PendingSlots
  <1>9. OneSlotEach'
    BY <1>1 DEF OneSlotEach
  <1>10. TableHandlesLive'
    BY <1>1, <1>3, <1>6 DEF TableHandlesLive, Live, Entries
  <1>11. ScanInv'
    <2>1. \A t, u \in Slots :
            t # u /\ tmp'[t].addr # NoAddr => tmp'[t].addr # tmp'[u].addr
      BY <1>1, <1>2 DEF ScanInv, Empty
    <2>2. \A t \in Slots : (t >= i' => tmp'[t] = Empty) /\ tmp'[t].addr \notin list'
      BY <1>1, <1>2 DEF ScanInv
    <2>3. \A t, u \in PendingSlots' : t # u => tmp'[t].handle # tmp'[u].handle
      BY <1>2, <1>7, <1>8 DEF ScanInv
    <2>4. ASSUME NEW t \in PendingSlots'
          PROVE  /\ tmp'[t].addr # NoAddr
                 /\ state'[tmp'[t].handle] = "open"
                 /\ target'[tmp'[t].handle] = tmp'[t].addr
                 /\ \A s \in Slots :
                        /\ devices'[s].addr # tmp'[t].addr
                        /\ devices'[s].handle # tmp'[t].handle
      <3>1. CASE t = i
        <4>1. tmp'[t].addr = a /\ tmp'[t].handle = h
          BY <1>1, <1>2, <3>1
        <4> QED BY <1>1, <1>4, <1>6, <4>1 DEF Contains
      <3>2. CASE t # i
        <4>1. t \in PendingSlots /\ tmp'[t] = tmp[t]
          BY <1>2, <1>8, <3>2
        <4> QED BY <1>1, <1>3, <1>7, <4>1 DEF ScanInv
      <3> QED BY <3>1, <3>2
    <2> QED BY <1>1, <2>1, <2>2, <2>3, <2>4 DEF ScanInv
  <1>12. CleanInv'
    BY <1>1 DEF CleanInv
  <1>13. AddInv'
    BY <1>1, <1>3, <1>6 DEF AddInv, Entries
  <1> QED BY <1>9, <1>10, <1>11, <1>12, <1>13

\* listTryRemove closes the handle of slot i, which is in no other slot and not in
\* tmp.
LEMMA TableCloses ==
  ASSUME IInv, CleanCloses
  PROVE  TableInv'
  <1> USE SlotBounds DEF IInv, TypeOK, PollerTypes, TableInv
  <1>1. UNCHANGED <<devices, tmp, i, closer>> /\ poll = "clean" /\ poll' = "remove"
    BY DEF CleanCloses
  <1>2. i \in Slots /\ devices[i].addr # NoAddr /\ ~Contains(tmp, devices[i].addr)
    BY DEF CleanCloses
  <1>3. closer # "closed"
    BY <1>1 DEF ClosingInv
  <1>4. devices[i].handle \in Handles
    BY <1>2, <1>3 DEF TableHandlesLive, Entries
  <1>5. state'[devices[i].handle] = "closed"
    BY <1>4, DistinctAssumption DEF CleanCloses, DistinctAssumption
  <1>6. \A g \in Handles :
            g # devices[i].handle => state'[g] = state[g] /\ target'[g] = target[g]
    BY DEF CleanCloses
  <1>7. \A t \in PendingSlots' : t \in PendingSlots
    BY <1>1 DEF PendingSlots
  <1>8. OneSlotEach'
    BY <1>1 DEF OneSlotEach
  <1>9. TableHandlesLive'
    <2>1. ASSUME NEW s \in Slots, devices[s].addr # NoAddr, s # i
          PROVE  devices[s].handle \in Live' /\ target'[devices[s].handle] = devices[s].addr
      <3>1. devices[s].handle # NULL /\ devices[s].handle # devices[i].handle
        BY <1>2, <1>3, <2>1 DEF OneSlotEach, TableHandlesLive
      <3> QED BY <1>1, <1>3, <1>6, <2>1, <3>1 DEF TableHandlesLive, Live
    <2> QED BY <1>1, <2>1 DEF TableHandlesLive
  <1>10. ScanInv'
    <2>1. \A t \in PendingSlots :
            t \in Slots /\ tmp[t].handle \in Handles /\ tmp[t].handle # devices[i].handle
      BY <1>2 DEF PendingSlots, ScanInv, Entries
    <2> QED BY <1>1, <1>6, <1>7, <2>1 DEF ScanInv
  <1>11. CleanInv'
    BY <1>1, <1>2, <1>5 DEF CleanInv, Live, Contains
  <1>12. AddInv'
    BY <1>1, <1>5, <1>6 DEF AddInv, Entries
  <1> QED BY <1>8, <1>9, <1>10, <1>11, <1>12

\* listTryRemove clears the slot whose handle it closed: no other slot has its
\* address.
LEMMA ClearsOwnSlot ==
  ASSUME IInv, RemoveClears
  PROVE  i \in Slots /\ devices' = [devices EXCEPT ![i] = Empty]
  <1> USE DEF IInv, TypeOK, PollerTypes, TableInv
  <1>1. i \in Slots /\ devices[i].addr # NoAddr
    BY DEF RemoveClears, CleanInv
  <1>2. PICK s \in Slots :
            /\ IsFirst(s, {t \in Slots : devices[t].addr = devices[i].addr})
            /\ devices' = [devices EXCEPT ![s] = Empty]
    BY DEF RemoveClears
  <1>3. s = i
    BY <1>1, <1>2 DEF IsFirst, OneSlotEach
  <1> QED BY <1>1, <1>2, <1>3

\* Clearing a slot keeps the table in order.
LEMMA TableClears ==
  ASSUME IInv, RemoveClears
  PROVE  TableInv'
  <1> USE SlotBounds DEF IInv, TypeOK, PollerTypes, TableInv
  <1>1. UNCHANGED <<tmp, state, target, closer>> /\ poll = "clear" /\ poll' = "clean"
    BY DEF RemoveClears
  <1>2. i \in Slots /\ i' = i + 1 /\ devices[i].addr # NoAddr
    BY DEF RemoveClears, CleanInv
  <1>3. closer # "closed"
    BY <1>1 DEF ClosingInv
  <1>4. devices' = [devices EXCEPT ![i] = Empty]
    BY ClearsOwnSlot
  <1>5. \A s \in Slots : devices'[s] = IF s = i THEN Empty ELSE devices[s]
    BY <1>2, <1>4
  <1>6. \A t \in PendingSlots' : t \in PendingSlots
    BY <1>1 DEF PendingSlots
  <1>7. OneSlotEach'
    BY <1>5 DEF OneSlotEach, Empty
  <1>8. TableHandlesLive'
    BY <1>1, <1>3, <1>5 DEF TableHandlesLive, Empty, Live
  <1>9. ScanInv'
    <2>1. \A t \in PendingSlots : tmp[t].addr # NoAddr /\ tmp[t].handle # NULL
      BY DEF ScanInv, PendingSlots
    <2> QED BY <1>1, <1>5, <1>6, <2>1 DEF ScanInv, Empty
  <1>10. CleanInv'
    <2>1. \A s \in Slots : s < i' => s < i \/ s = i
      BY <1>2
    <2> QED BY <1>1, <1>5, <2>1 DEF CleanInv, Contains, Empty
  <1>11. AddInv'
    BY <1>1, <1>5 DEF AddInv, Empty
  <1> QED BY <1>7, <1>8, <1>9, <1>10, <1>11

\* listTryAdd leaves an entry of tmp alone.
LEMMA TableSkips ==
  ASSUME IInv, AddSkips
  PROVE  TableInv'
  <1> USE SlotBounds DEF IInv, TypeOK, PollerTypes, TableInv
  <1>1. UNCHANGED <<devices, tmp, poll, state, target, closer>> /\ poll = "add"
    BY DEF AddSkips
  <1>2. \A t \in PendingSlots' : t \in PendingSlots
    BY <1>1 DEF PendingSlots, AddSkips
  <1>3. OneSlotEach'
    BY <1>1 DEF OneSlotEach
  <1>4. TableHandlesLive'
    BY <1>1 DEF TableHandlesLive, Live
  <1>5. ScanInv'
    BY <1>1, <1>2 DEF ScanInv
  <1>6. CleanInv'
    BY <1>1 DEF CleanInv, Contains
  <1>7. AddInv'
    BY <1>1 DEF AddInv
  <1> QED BY <1>3, <1>4, <1>5, <1>6, <1>7

\* listTryAdd fills a free slot with an entry that shares neither its address nor
\* its handle with another slot.
LEMMA TableWrites ==
  ASSUME IInv, AddWrites
  PROVE  TableInv'
  <1> USE SlotBounds DEF IInv, TypeOK, PollerTypes, TableInv
  <1>1. UNCHANGED <<tmp, i, state, target, closer>> /\ poll = "write" /\ poll' = "claim"
    BY DEF AddWrites
  <1>2. PICK s \in Slots : devices' = [devices EXCEPT ![s] = tmp[i]] /\ devices[s].handle = NULL
    BY DEF AddWrites, IsFirst, FreeSlots
  <1>3. \A t \in Slots : devices'[t] = IF t = s THEN tmp[i] ELSE devices[t]
    BY <1>2
  <1>4. closer # "closed"
    BY <1>1 DEF ClosingInv
  <1>5. /\ i \in Slots /\ i \in PendingSlots
        /\ tmp[i].handle \in Handles /\ state[tmp[i].handle] = "open"
    <2>1. i \in Slots /\ i \in PendingSlots /\ tmp[i].handle \in Handles
      BY <1>1 DEF PendingSlots, AddInv, Entries
    <2> QED BY <2>1 DEF ScanInv
  <1>6. \A t \in PendingSlots' : t \in PendingSlots /\ t # i
    BY <1>1 DEF PendingSlots
  <1>7. OneSlotEach'
    BY <1>3, <1>5 DEF OneSlotEach, ScanInv
  <1>8. TableHandlesLive'
    BY <1>1, <1>3, <1>4, <1>5 DEF TableHandlesLive, ScanInv, Live, PendingSlots
  <1>9. ScanInv'
    <2>1. \A t \in PendingSlots : t \in Slots
      BY DEF PendingSlots
    <2>2. ASSUME NEW t \in PendingSlots'
          PROVE  \A u \in Slots :
                    /\ devices'[u].addr # tmp[t].addr
                    /\ devices'[u].handle # tmp[t].handle
      <3>1. tmp[i].addr # tmp[t].addr /\ tmp[i].handle # tmp[t].handle
        BY <1>5, <1>6, <2>1, <2>2 DEF ScanInv
      <3> QED BY <1>3, <1>6, <2>2, <3>1 DEF ScanInv
    <2> QED BY <1>1, <1>6, <2>1, <2>2 DEF ScanInv
  <1>10. CleanInv'
    BY <1>1, <1>3, <1>5 DEF CleanInv, Contains
  <1>11. AddInv'
    BY <1>1, <1>2, <1>3, <1>5 DEF AddInv
  <1> QED BY <1>7, <1>8, <1>9, <1>10, <1>11

\* claimHandle: the handle goes on being live, whatever the result.
LEMMA TableClaims ==
  ASSUME IInv, AddClaims
  PROVE  TableInv'
  <1> USE SlotBounds DEF IInv, TypeOK, PollerTypes, TableInv
  <1>1. UNCHANGED <<devices, tmp, target, closer>> /\ poll = "claim" /\ poll' = "add"
    BY DEF AddClaims
  <1>2. i \in Slots /\ i' = i + 1 /\ tmp[i].handle \in Handles
    BY DEF AddClaims, AddInv, Entries
  <1>3. PICK result \in {"claimed", "refused"} : state' = [state EXCEPT ![tmp[i].handle] = result]
    BY DEF AddClaims
  <1>4. \A g \in Handles : state'[g] = IF g = tmp[i].handle THEN result ELSE state[g]
    BY <1>3
  <1>5. PICK s \in Slots : devices[s] = tmp[i]
    BY <1>1 DEF AddInv
  <1>6. \A t \in PendingSlots' : t \in PendingSlots
    BY <1>1, <1>2 DEF PendingSlots
  <1>7. \A t \in PendingSlots :
            t \in Slots /\ tmp[t].handle \in Handles /\ tmp[t].handle # tmp[i].handle
    BY <1>5 DEF PendingSlots, ScanInv, Entries
  <1>8. OneSlotEach'
    BY <1>1 DEF OneSlotEach
  <1>9. TableHandlesLive'
    BY <1>1, <1>4 DEF TableHandlesLive, Live
  <1>10. ScanInv'
    BY <1>1, <1>4, <1>6, <1>7 DEF ScanInv
  <1>11. CleanInv'
    BY <1>1 DEF CleanInv, Contains
  <1>12. AddInv'
    BY <1>1, <1>4 DEF AddInv, Entries
  <1> QED BY <1>8, <1>9, <1>10, <1>11, <1>12

\* closeDevices: only the handles go, and their slots forget them.
LEMMA TableCloseAll ==
  ASSUME IInv, CloseAll
  PROVE  TableInv'
  <1> USE DEF IInv, TypeOK, PollerTypes, TableInv
  <1>1. UNCHANGED <<tmp, poll, i, list>> /\ poll = "ended" /\ closer' = "closed"
    BY DEF CloseAll
  <1>2. \A s \in Slots : devices'[s].handle = NULL /\ devices'[s].addr = devices[s].addr
    BY DEF CloseAll, Entries
  <1>3. \A t \in PendingSlots' : t \in PendingSlots /\ FALSE
    BY <1>1 DEF PendingSlots
  <1> QED BY <1>1, <1>2, <1>3
          DEF OneSlotEach, TableHandlesLive, ScanInv, CleanInv, AddInv

\* Every step keeps the table in order.
LEMMA TableStep == IInv /\ [Next]_vars => TableInv'
  <1> SUFFICES ASSUME IInv, [Next]_vars PROVE TableInv'
    OBVIOUS
  <1>1. CASE UNCHANGED pollVars /\ UNCHANGED closer
    BY <1>1 DEF IInv, TableInv, pollVars, OneSlotEach, TableHandlesLive, ScanInv, CleanInv,
                AddInv, Contains, Live, PendingSlots
  <1>2. CASE CloserStep
    <2>1. CASE StopPolling
      <3>1. TableHandlesLive'
        BY <2>1 DEF StopPolling, IInv, TableInv, pollVars, TableHandlesLive, Live
      <3> QED BY <2>1, <3>1 DEF StopPolling, IInv, TableInv, pollVars, OneSlotEach, ScanInv,
                  CleanInv, AddInv, Contains, Live, PendingSlots
    <2> QED BY <1>2, <2>1, TableCloseAll DEF CloserStep
  <1>3. CASE PollerStep
    BY <1>3, TableQuiet, TableScanStarts, TableVisit, TableVisitOpens, TableCloses, TableClears,
       TableSkips, TableWrites, TableClaims DEF PollerStep, Scan, Clean, Update
  <1>4. CASE Environment \/ (\E c \in Clients : ClientStep(c)) \/ UNCHANGED vars
    BY <1>1, <1>4, OthersStep
  <1> QED BY <1>2, <1>3, <1>4 DEF Next

-----------------------------------------------------------------------------
(* No handle leaks.                                                        *)

\* The table always has room for a controller that was just opened: listClean
\* leaves only controllers of tmp in the table, each in one slot, and tmp has as
\* many entries as the table.
LEMMA RoomForOpened ==
  ASSUME IInv, poll = "add", i \in Slots, tmp[i].handle # NULL
  PROVE  Addable
  <1> USE SlotBounds DEF IInv, TypeOK, PollerTypes, TableInv
  <1>1. i \in PendingSlots
    BY DEF PendingSlots
  <1>2. \A s \in Slots : devices[s].addr # tmp[i].addr
    BY <1>1 DEF ScanInv
  <1>3. FreeSlots # {}
    <2> SUFFICES ASSUME FreeSlots = {} PROVE FALSE
      OBVIOUS
    <2>1. \A s \in Slots : devices[s].addr # NoAddr
      BY DEF FreeSlots, TableHandlesLive, ClosingInv
    <2>2. \A s \in Slots : \E t \in Slots : tmp[t].addr = devices[s].addr
      BY <2>1 DEF CleanInv, Contains
    <2> DEFINE f == [s \in Slots |-> CHOOSE t \in Slots : tmp[t].addr = devices[s].addr]
    <2>3. \A s \in Slots : f[s] \in Slots /\ tmp[f[s]].addr = devices[s].addr
      BY <2>2
    <2>4. f \in [Slots -> Slots \ {i}]
      BY <1>2, <2>3
    <2>5. IsFiniteSet(Slots) /\ Cardinality(Slots) = MaxDevs
      BY FS_Interval, MaxDevsAssumption DEF Slots, MaxDevsAssumption
    <2> HIDE DEF f
    <2>6. IsFiniteSet(Slots \ {i}) /\ Cardinality(Slots \ {i}) < Cardinality(Slots)
      <3>1. IsFiniteSet(Slots \ {i}) /\ Cardinality(Slots \ {i}) = Cardinality(Slots) - 1
        BY ONLY <2>5, FS_RemoveElement, i \in Slots
      <3> QED BY ONLY <2>5, <3>1, MaxDevsAssumption DEF MaxDevsAssumption
    <2>7. PICK s, t \in Slots : s # t /\ f[s] = f[t]
      BY ONLY <2>4, <2>5, <2>6, FS_PigeonHole
    <2> QED BY <2>1, <2>3, <2>7 DEF OneSlotEach
  <1> QED BY <1>2, <1>3 DEF Addable, Contains

\* No step makes a live handle unreachable.
LEMMA LeakStep == IInv /\ [Next]_vars => NoHandleLeak'
  <1> SUFFICES ASSUME IInv, [Next]_vars PROVE NoHandleLeak'
    OBVIOUS
  <1> USE SlotBounds, DistinctAssumption
      DEF DistinctAssumption, IInv, TypeOK, PollerTypes, NoHandleLeak
  <1>1. CASE UNCHANGED pollVars
    BY <1>1 DEF pollVars, Live, Pending, PendingSlots
  <1>2. CASE TestRunning \/ Wake \/ GetDeviceList \/ GetDeviceListFails
    <2>1. UNCHANGED <<devices, state>> /\ poll # "crashed"
      BY <1>2 DEF TestRunning, Wake, GetDeviceList, GetDeviceListFails
    <2>2. Pending = {}
      BY <1>2 DEF TestRunning, Wake, GetDeviceList, GetDeviceListFails, Pending,
                  PendingSlots, TableInv, ScanInv, Empty
    <2> QED BY <2>1, <2>2 DEF Live
  <1>3. CASE GetDescriptorFails \/ ScanDone \/ CleanKeeps \/ RemoveLocks \/ CleanDone \/ AddLocks
    <2>1. UNCHANGED <<devices, state, tmp>> /\ PendingSlots' = PendingSlots /\ poll # "crashed"
      BY <1>3 DEF GetDescriptorFails, ScanDone, CleanKeeps, RemoveLocks, CleanDone, AddLocks,
                  PendingSlots
    <2> QED BY <2>1 DEF Live, Pending
  <1>4. ASSUME NEW a \in Addrs, VisitKnown(a) \/ VisitOpenFails(a) PROVE NoHandleLeak'
    <2>1. UNCHANGED <<devices, state>> /\ poll = "scan" /\ poll' = "scan"
      BY <1>4 DEF VisitKnown, VisitOpenFails, Visit
    <2>2. \A t \in PendingSlots : t \in PendingSlots' /\ tmp'[t] = tmp[t]
      BY <1>4 DEF VisitKnown, VisitOpenFails, Visit, PendingSlots, TableInv, ScanInv, Empty
    <2> QED BY <2>1, <2>2 DEF Live, Pending
  <1>5. ASSUME NEW a \in Addrs, NEW h \in Handles, VisitOpens(a, h) PROVE NoHandleLeak'
    <2>1. UNCHANGED devices /\ poll = "scan" /\ poll' = "scan" /\ i \in Slots
      BY <1>5 DEF VisitOpens, Visit
    <2>2. \A t \in PendingSlots : t \in PendingSlots' /\ tmp'[t] = tmp[t]
      BY <1>5 DEF VisitOpens, Visit, PendingSlots, TableInv, ScanInv, Empty
    <2>3. i \in PendingSlots' /\ tmp'[i].handle = h
      BY <1>5, <2>1 DEF VisitOpens, Visit, PendingSlots
    <2>4. Live' \subseteq Live \cup {h}
      BY <1>5 DEF VisitOpens, Visit, Live
    <2>5. Pending \subseteq Pending' /\ h \in Pending'
      BY <2>2, <2>3 DEF Pending
    <2> QED BY <2>1, <2>4, <2>5
  <1>6. CASE CleanCloses
    <2>1. UNCHANGED <<devices, tmp>> /\ PendingSlots' = PendingSlots /\ poll # "crashed"
      BY <1>6 DEF CleanCloses, PendingSlots
    <2>2. Live' \subseteq Live
      BY <1>6 DEF CleanCloses, Live
    <2> QED BY <2>1, <2>2 DEF Pending
  <1>7. CASE RemoveClears
    <2>1. UNCHANGED <<tmp, state>> /\ PendingSlots' = PendingSlots /\ poll # "crashed"
      BY <1>7 DEF RemoveClears, PendingSlots
    <2>2. devices' = [devices EXCEPT ![i] = Empty] /\ devices[i].handle \notin Live
      BY <1>7, ClearsOwnSlot DEF RemoveClears, TableInv, CleanInv
    <2> QED BY <2>1, <2>2 DEF Live, Pending
  <1>8. CASE AddSkips
    <2>1. UNCHANGED <<devices, tmp, state>> /\ poll = "add" /\ poll' = "add" /\ i \in Slots
      BY <1>8 DEF AddSkips
    <2>2. tmp[i].handle = NULL
      BY <1>8, <2>1, RoomForOpened DEF AddSkips
    <2>3. \A t \in PendingSlots : t \in Slots /\ t \in Nat /\ t >= i /\ t # i
      BY <2>1, <2>2 DEF PendingSlots
    <2>4. i' = i + 1 /\ i \in Nat
      BY <1>8, <2>1 DEF AddSkips
    <2>5. \A t \in PendingSlots : t >= i'
      BY <2>3, <2>4
    <2>6. \A t \in PendingSlots : t \in PendingSlots'
      BY <2>1, <2>3, <2>5 DEF PendingSlots
    <2> QED BY <2>1, <2>6 DEF Live, Pending
  <1>9. CASE AddWrites
    <2>1. UNCHANGED <<tmp, state, i>> /\ poll = "write" /\ poll' = "claim" /\ i \in Slots
      BY <1>9 DEF AddWrites
    <2>2. PICK s \in Slots : devices[s].handle = NULL /\ devices' = [devices EXCEPT ![s] = tmp[i]]
      BY <1>9 DEF AddWrites, IsFirst, FreeSlots
    <2>3. \A t \in PendingSlots : t \in Slots /\ t \in Nat /\ t >= i /\ tmp[t].handle # NULL
      BY <2>1 DEF PendingSlots
    <2>4. \A t \in PendingSlots : t = i \/ t > i'
      BY <2>1, <2>3
    <2>5. \A t \in PendingSlots : t = i \/ t \in PendingSlots'
      BY <2>1, <2>3, <2>4 DEF PendingSlots
    <2>6. \A u \in Slots : devices[u].handle # NULL => devices'[u] = devices[u]
      BY <2>2
    <2>7. devices'[s] = tmp[i]
      BY <2>2
    <2> DEFINE Held == {devices[u].handle : u \in Slots}
    <2>8. \A h \in Pending : h \in Held' \/ h \in Pending'
      BY <2>1, <2>5, <2>7 DEF Pending
    <2>9. \A h \in Held : h # NULL => h \in Held'
      BY <2>6
    <2>10. Live' = Live /\ poll # "crashed" /\ \A h \in Live : h # NULL
      BY <2>1 DEF Live
    <2> QED BY <2>8, <2>9, <2>10
  <1>10. CASE AddClaims
    <2>1. UNCHANGED <<devices, tmp>> /\ poll # "crashed"
      BY <1>10 DEF AddClaims
    <2>2. PendingSlots' = PendingSlots
      BY <1>10 DEF AddClaims, PendingSlots
    <2>3. tmp[i].handle \in Live
      BY <1>10 DEF AddClaims, TableInv, AddInv, TableHandlesLive, ClosingInv, Live, Entries
    <2>4. Live' \subseteq Live
      BY <1>10, <2>3 DEF AddClaims, Live
    <2> QED BY <2>1, <2>2, <2>4 DEF Pending
  <1>11. CASE AddDone
    <2>1. UNCHANGED <<devices, state>> /\ Pending = {} /\ poll # "crashed"
      BY <1>11 DEF AddDone, Pending, PendingSlots
    <2> QED BY <2>1 DEF Live
  <1>12. CASE CloseAll
    <2>1. poll = "ended" /\ Pending = {}
      BY <1>12 DEF CloseAll, Pending, PendingSlots
    <2>2. Live' = {}
      BY <1>12, <2>1 DEF CloseAll, Live
    <2> QED BY <2>2
  <1>13. CASE CloserStep
    BY <1>1, <1>12, <1>13 DEF CloserStep, StopPolling
  <1>14. CASE PollerStep
    BY <1>2, <1>3, <1>4, <1>5, <1>6, <1>7, <1>8, <1>9, <1>10, <1>11, <1>14
       DEF PollerStep, Scan, Clean, Update
  <1>15. CASE Environment \/ (\E c \in Clients : ClientStep(c)) \/ UNCHANGED vars
    BY <1>1, <1>15, OthersStep
  <1> QED BY <1>13, <1>14, <1>15 DEF Next

-----------------------------------------------------------------------------
(* What the threads hold, and why a controller is missing from tmp.        *)

\* A step of a client keeps HeldInv: a look-up starts with no handle held.
LEMMA HeldStep == TypeOK /\ HeldInv /\ [Next]_vars => HeldInv'
  <1> SUFFICES ASSUME TypeOK, HeldInv, [Next]_vars PROVE HeldInv'
    OBVIOUS
  <1> USE DEF HeldInv
  <1>1. CASE UNCHANGED clientVars
    BY <1>1 DEF clientVars
  <1>2. ASSUME NEW c \in Clients, ClientStep(c) PROVE HeldInv'
    <2> USE DEF TypeOK, ClientTypes
    <2>1. ASSUME NEW id \in 0 .. MaxDevs, Call(c, id) PROVE HeldInv'
      BY <2>1 DEF Call
    <2>2. CASE LookupLocks(c) \/ LookupReads(c)
      BY <2>2 DEF LookupLocks, LookupReads
    <2>3. CASE Use(c) \/ TransferEnds(c) \/ ClientEnds(c)
      BY <2>3 DEF Use, TransferEnds, ClientEnds
    <2> QED BY <1>2, <2>1, <2>2, <2>3 DEF ClientStep
  <1>3. CASE PollerStep
    BY <1>1, <1>3, PollerFrame DEF clientVars
  <1>4. CASE Environment \/ CloserStep \/ UNCHANGED vars
    BY <1>1, <1>4 DEF Environment, Plug, Unplug, CloserStep, StopPolling, CloseAll, vars
  <1> QED BY <1>2, <1>3, <1>4 DEF Next

\* When tmp is full and a controller of the list is left over, the scan saw more
\* controllers than tmp has entries.
LEMMA FullScan ==
  ASSUME IInv, poll = "scan", i = MaxDevs, NEW a \in list
  PROVE  Cardinality(seen) > MaxDevs
  <1> USE SlotBounds DEF IInv, TypeOK, PollerTypes, TableInv
  <1>1. \A t \in Slots : tmp[t].addr \in seen \ {a}
    BY DEF CauseInv, ScanInv
  <1>2. IsFiniteSet(seen) /\ a \in seen
    BY AddrsAssumption, FS_Subset DEF AddrsAssumption, CauseInv
  <1>3. IsFiniteSet(Slots) /\ Cardinality(Slots) = MaxDevs
    BY FS_Interval, MaxDevsAssumption DEF Slots, MaxDevsAssumption
  <1>4. IsFiniteSet(seen \ {a}) /\ Cardinality(seen \ {a}) = Cardinality(seen) - 1
    BY ONLY <1>2, FS_RemoveElement
  <1>5. Cardinality(seen) \in Nat
    BY <1>2, FS_CardinalityType
  <1> DEFINE f == [t \in Slots |-> tmp[t].addr]
  <1>6. f \in [Slots -> seen \ {a}]
    BY <1>1
  <1>7. \A t, u \in Slots : t # u => f[t] # f[u]
    <2>1. \A t \in Slots : tmp[t].addr # NoAddr
      BY <1>1, DistinctAssumption DEF DistinctAssumption
    <2> QED BY <2>1 DEF ScanInv
  <1> HIDE DEF f
  <1>8. ~(Cardinality(seen \ {a}) < Cardinality(Slots))
    BY ONLY <1>3, <1>4, <1>6, <1>7, FS_PigeonHole
  <1>9. MaxDevs \in Nat
    BY MaxDevsAssumption DEF MaxDevsAssumption
  <1> QED BY ONLY <1>3, <1>4, <1>5, <1>8, <1>9

\* What a controller is missing from tmp for does not change after the scan.
LEMMA CauseStep == IInv /\ [Next]_vars => CauseInv'
  <1> SUFFICES ASSUME IInv, [Next]_vars PROVE CauseInv'
    OBVIOUS
  <1> USE SlotBounds DEF IInv, TypeOK, PollerTypes, CauseInv
  <1>1. CASE UNCHANGED pollVars
    BY <1>1 DEF pollVars, Contains
  <1>2. CASE GetDeviceList \/ GetDeviceListFails \/ GetDescriptorFails
    BY <1>2 DEF GetDeviceList, GetDeviceListFails, GetDescriptorFails
  <1>3. ASSUME NEW a \in Addrs, NEW h \in Handles \cup {NULL}, Visit(a, h)
        PROVE  CauseInv'
    <2>1. UNCHANGED <<poll, seen>> /\ poll = "scan" /\ i \in Slots /\ i' = i + 1
      BY <1>3 DEF Visit
    <2>2. \A t \in Slots : tmp'[t] = IF t = i THEN [addr |-> a, handle |-> h] ELSE tmp[t]
      BY <1>3 DEF Visit
    <2>3. tmp[i].addr = NoAddr /\ \A b \in seen : b # NoAddr
      BY <2>1, DistinctAssumption DEF TableInv, ScanInv, Empty, DistinctAssumption
    <2>4. \A b \in seen : b \in list' \/ \E t \in Slots : tmp'[t].addr = b
      <3> SUFFICES ASSUME NEW b \in seen, b \notin list'
                   PROVE  \E t \in Slots : tmp'[t].addr = b
        OBVIOUS
      <3>1. CASE b = a
        BY <2>1, <2>2, <3>1
      <3>2. CASE b # a
        <4>1. PICK t \in Slots : tmp[t].addr = b
          BY <1>3, <2>1, <3>2 DEF Visit, Contains
        <4> QED BY <2>2, <2>3, <4>1
      <3> QED BY <3>1, <3>2
    <2>5. \A t \in Slots : t < i' => tmp'[t].addr \in seen
      BY <1>3, <2>1, <2>2 DEF Visit
    <2>6. list' \subseteq seen
      BY <1>3, <2>1 DEF Visit
    <2> QED BY <2>1, <2>4, <2>5, <2>6 DEF Contains
  <1>4. CASE ScanDone
    <2>1. UNCHANGED <<tmp, seen, cut>> /\ poll = "scan" /\ poll' = "clean"
      BY <1>4 DEF ScanDone
    <2>2. Cardinality(seen) > MaxDevs \/ \A a \in seen : Contains(tmp, a)
      BY <1>4, <2>1, FullScan DEF ScanDone
    <2> QED BY <2>1, <2>2 DEF Contains
  <1>5. CASE CleanKeeps \/ CleanCloses \/ RemoveLocks
    <2>1. UNCHANGED <<devices, tmp, seen, cut>>
      BY <1>5 DEF CleanKeeps, CleanCloses, RemoveLocks
    <2> QED BY <1>5, <2>1 DEF CleanKeeps, CleanCloses, RemoveLocks, Contains
  <1>6. CASE RemoveClears
    BY <1>6 DEF RemoveClears, Contains
  <1>7. CASE TestRunning \/ CleanDone \/ Update \/ Wake
    BY <1>7 DEF TestRunning, CleanDone, Update, AddSkips, AddLocks, AddWrites, AddClaims,
                AddDone, Wake
  <1>8. CASE PollerStep
    <2>1. ASSUME NEW a \in Addrs,
                 VisitKnown(a) \/ VisitOpenFails(a) \/ \E h \in Handles : VisitOpens(a, h)
          PROVE  CauseInv'
      BY <1>3, <2>1 DEF VisitKnown, VisitOpenFails, VisitOpens
    <2> QED BY <1>2, <1>4, <1>5, <1>6, <1>7, <1>8, <2>1 DEF PollerStep, Scan, Clean
  <1>9. CASE CloserStep
    <2>1. CASE StopPolling
      BY <1>1, <2>1 DEF StopPolling
    <2>2. CASE CloseAll
      BY <2>2 DEF CloseAll
    <2> QED BY <1>9, <2>1, <2>2 DEF CloserStep
  <1>10. CASE Environment \/ (\E c \in Clients : ClientStep(c)) \/ UNCHANGED vars
    BY <1>1, <1>10, OthersStep
  <1> QED BY <1>8, <1>9, <1>10 DEF Next

-----------------------------------------------------------------------------
(* The theorems.                                                           *)

\* IInv is an inductive invariant of Devices.
THEOREM Invariance == Spec => []IInv
  <1>1. Init => IInv
    <2> SUFFICES ASSUME Init PROVE IInv
      OBVIOUS
    <2>1. NoHandleLeak
      BY DEF Init, NoHandleLeak, Live
    <2>2. MutexInv /\ ClosingInv
      BY DistinctAssumption DEF Init, MutexInv, ClosingInv, DistinctAssumption
    <2>3. HeldInv /\ CauseInv
      BY DEF Init, HeldInv, CauseInv
    <2> QED BY <2>1, <2>2, <2>3, TypeInit, TableInit DEF IInv
  <1>2. IInv /\ [Next]_vars => IInv'
    <2> SUFFICES ASSUME IInv, [Next]_vars PROVE IInv'
      OBVIOUS
    <2>1. TypeOK' /\ MutexInv' /\ ClosingInv'
      BY TypeStep, MutexStep, ClosingStep DEF IInv
    <2>2. HeldInv'
      BY HeldStep DEF IInv
    <2> QED BY <2>1, <2>2, TableStep, LeakStep, CauseStep DEF IInv
  <1> QED BY <1>1, <1>2, PTL DEF Spec

\* A controller has at most one id and a handle is in at most one slot.
THEOREM UniqueSlots == Spec => []OneSlotEach
  <1>1. IInv => OneSlotEach
    BY DEF IInv, TableInv
  <1> QED BY <1>1, Invariance, PTL

\* Every slot that names a controller holds a live handle opened for it, but for
\* the slot that is being cleared.
THEOREM LiveSlots == Spec => []TableHandlesLive
  <1>1. IInv => TableHandlesLive
    BY DEF IInv, TableInv
  <1> QED BY <1>1, Invariance, PTL

\* No handle leaks, with any number of controllers on the bus.
THEOREM NoLeak == Spec => []NoHandleLeak
  <1>1. IInv => NoHandleLeak
    BY DEF IInv
  <1> QED BY <1>1, Invariance, PTL

\* A thread that can take the mutex finds only handles whose claim was tried.
THEOREM Claimed == Spec => []ClaimedBeforeUse
  <1>1. IInv => ClaimedBeforeUse
    BY DEF IInv, TableInv, AddInv, MutexInv, ClaimedBeforeUse
  <1> QED BY <1>1, Invariance, PTL

\* closeDevices leaves no handle open.
THEOREM ClosedAtExit == Spec => []AllClosedAtExit
  <1>1. IInv => AllClosedAtExit
    <2> SUFFICES ASSUME IInv, closer = "closed" PROVE Live = {}
      BY DEF AllClosedAtExit
    <2>1. poll = "ended" /\ \A s \in Slots : devices[s].handle = NULL
      BY DEF IInv, ClosingInv
    <2>2. Pending = {}
      BY <2>1 DEF Pending, PendingSlots
    <2>3. \A h \in Live : h # NULL
      BY DistinctAssumption DEF Live, DistinctAssumption
    <2> QED BY <2>1, <2>2, <2>3 DEF IInv, NoHandleLeak
  <1> QED BY <1>1, Invariance, PTL

-----------------------------------------------------------------------------
(* What a step does to the slots.                                          *)

\* listTryAdd puts tmp[i] in a slot that names nobody.
LEMMA WritesFreeSlot ==
  ASSUME IInv, AddWrites
  PROVE  \E s \in Slots : devices[s] = Empty /\ devices' = [devices EXCEPT ![s] = tmp[i]]
  <1> USE DEF IInv, TypeOK, PollerTypes, TableInv
  <1>1. PICK s \in Slots : devices[s].handle = NULL /\ devices' = [devices EXCEPT ![s] = tmp[i]]
    BY DEF AddWrites, IsFirst, FreeSlots
  <1>2. devices[s].addr = NoAddr
    BY <1>1 DEF AddWrites, TableHandlesLive, ClosingInv
  <1>3. devices[s] = Empty
    BY <1>1, <1>2 DEF Entries, Empty
  <1> QED BY <1>1, <1>3

\* Three steps change the table: listTryRemove empties the slot i, listTryAdd
\* fills a slot that names nobody, closeDevices takes the handles out.
LEMMA SlotSteps ==
  ASSUME IInv, [Next]_vars
  PROVE  \/ UNCHANGED devices
         \/ RemoveClears /\ devices' = [devices EXCEPT ![i] = Empty]
         \/ AddWrites /\ \E s \in Slots : /\ devices[s] = Empty
                                          /\ devices' = [devices EXCEPT ![s] = tmp[i]]
         \/ CloseAll /\ \A s \in Slots : devices'[s].addr = devices[s].addr
  <1> USE SlotBounds DEF IInv, TypeOK, PollerTypes, TableInv
  <1>1. CASE RemoveClears
    BY <1>1, ClearsOwnSlot
  <1>2. CASE AddWrites
    BY <1>2, WritesFreeSlot
  <1>3. CASE CloseAll
    BY <1>3 DEF CloseAll, Entries
  <1>4. CASE PollerStep /\ ~RemoveClears /\ ~AddWrites
    BY <1>4 DEF PollerStep, TestRunning, Scan, Clean, Update, Wake, GetDeviceList,
                GetDeviceListFails, GetDescriptorFails, ScanDone, VisitKnown, VisitOpens,
                VisitOpenFails, Visit, CleanKeeps, CleanCloses, RemoveLocks, CleanDone,
                AddSkips, AddLocks, AddClaims, AddDone
  <1>5. CASE StopPolling
    BY <1>5 DEF StopPolling, pollVars
  <1>6. CASE Environment \/ (\E c \in Clients : ClientStep(c)) \/ UNCHANGED vars
    BY <1>6, OthersStep DEF pollVars
  <1> QED BY <1>1, <1>2, <1>3, <1>4, <1>5, <1>6 DEF Next, CloserStep

\* A slot never passes from one controller to another in one step.
THEOREM EmptyBetween == Spec => SlotsEmptyBetween
  <1>1. ASSUME IInv, [Next]_vars, NEW s \in Slots,
               devices[s].addr # NoAddr, devices'[s].addr # NoAddr
        PROVE  devices'[s].addr = devices[s].addr
    <2>1. devices \in [Slots -> Entries]
      BY <1>1 DEF IInv, TypeOK, PollerTypes
    <2> QED BY <1>1, <2>1, SlotSteps DEF Empty
  <1>2. IInv /\ [Next]_vars =>
            [\A s \in Slots :
                devices[s].addr # NoAddr /\ devices'[s].addr # NoAddr
                    => devices'[s].addr = devices[s].addr]_vars
    BY <1>1
  <1> QED BY <1>2, Invariance, PTL DEF Spec, SlotsEmptyBetween

\* A controller loses its id only when the last scan did not see it, was cut
\* short, or saw more controllers than there are slots.
THEOREM DroppedOnlyForCause == Spec => DroppedForCause
  <1>1. ASSUME IInv, [Next]_vars, NEW s \in Slots,
               devices[s].addr # NoAddr, devices'[s].addr = NoAddr
        PROVE  devices[s].addr \notin seen \/ cut \/ Cardinality(seen) > MaxDevs
    <2>1. devices \in [Slots -> Entries]
      BY <1>1 DEF IInv, TypeOK, PollerTypes
    <2>2. RemoveClears /\ s = i
      BY <1>1, <2>1, SlotSteps DEF Empty
    <2> QED BY <1>1, <2>2 DEF RemoveClears, IInv, CauseInv
  <1>2. IInv /\ [Next]_vars =>
            [\A s \in Slots :
                devices[s].addr # NoAddr /\ devices'[s].addr = NoAddr
                    => \/ devices[s].addr \notin seen
                       \/ cut
                       \/ Cardinality(seen) > MaxDevs]_vars
    BY <1>1
  <1> QED BY <1>2, Invariance, PTL DEF Spec, DroppedForCause

-----------------------------------------------------------------------------
(* The refinement: each step is a step of the table of ids or a stutter.   *)

\* The table of ids, and the constants of it, under the refinement mapping.
LEMMA MappedTable ==
  /\ Table!Ids = Slots
  /\ Table!Unbound = Empty
  /\ \A s \in Slots :
        Published[s] = IF devices[s].handle # NULL /\ state[devices[s].handle] # "open"
                       THEN devices[s] ELSE Empty
  BY DEF Table!Ids, Table!Unbound, Slots, Empty, Published

\* At first no id is bound and nobody holds a handle.
LEMMA MappedInit == Init => Table!TableInit
  <1> SUFFICES ASSUME Init PROVE Table!TableInit
    OBVIOUS
  <1>1. Published = [s \in Slots |-> Empty]
    BY DEF Init, Published, Empty
  <1> QED BY <1>1, MappedTable DEF Init, Table!TableInit

\* A step that changes neither devices, nor a handle in it, nor what is published
\* of it, leaves the table of ids as it is.
LEMMA PublishedFrame ==
  ASSUME UNCHANGED devices,
         \A s \in Slots : devices[s].handle # NULL =>
            (state'[devices[s].handle] # "open" <=> state[devices[s].handle] # "open")
  PROVE  Published' = Published
  BY DEF Published

\* listTryRemove unbinds the id whose slot it clears.
LEMMA ClearUnbinds ==
  ASSUME IInv, RemoveClears
  PROVE  Table!Unbind(i) /\ i \in Slots
  <1> USE DEF IInv, TypeOK, PollerTypes, TableInv
  <1>1. i \in Slots /\ UNCHANGED <<state, closer, ch>> /\ closer # "closed"
    BY SlotBounds DEF RemoveClears, ClosingInv, clientVars
  <1>2. /\ devices[i].addr # NoAddr
        /\ devices[i].handle # NULL
        /\ state[devices[i].handle] # "open"
    BY <1>1 DEF RemoveClears, CleanInv, TableHandlesLive, Live, Entries
  <1>3. Published[i] # Empty
    BY <1>1, <1>2, MappedTable DEF Empty
  <1>4. Published' = [Published EXCEPT ![i] = Empty]
    BY <1>1, ClearsOwnSlot DEF Published, Empty
  <1> QED BY <1>1, <1>3, <1>4, MappedTable DEF Table!Unbind

\* Filling a slot publishes nothing: the handle has not been claimed.
LEMMA WriteHides ==
  ASSUME IInv, AddWrites, NEW s \in Slots, devices[s] = Empty,
         devices' = [devices EXCEPT ![s] = tmp[i]]
  PROVE  Published' = Published
  <1> USE DEF IInv, TypeOK, PollerTypes, TableInv
  <1>1. i \in PendingSlots /\ UNCHANGED state
    BY SlotBounds DEF AddWrites, PendingSlots, AddInv
  <1>2. state[tmp[i].handle] = "open"
    BY <1>1 DEF ScanInv
  <1> QED BY <1>1, <1>2 DEF Published, Empty

\* claimHandle binds a free id to a controller and a handle no other id has.
LEMMA ClaimBinds ==
  ASSUME IInv, AddClaims
  PROVE  \E s \in Slots, a \in Addrs, h \in Handles : Table!Bind(s, a, h)
  <1> USE DEF IInv, TypeOK, PollerTypes, TableInv
  <1>1. UNCHANGED <<devices, closer, ch>> /\ closer # "closed" /\ poll = "claim" /\ i \in Slots
    BY DEF AddClaims, ClosingInv, clientVars
  <1>2. PICK s \in Slots : devices[s] = tmp[i]
    BY <1>1 DEF AddInv
  <1> DEFINE a == tmp[i].addr
             h == tmp[i].handle
  <1>3. h \in Handles /\ a \in Addrs /\ devices[s] = [addr |-> a, handle |-> h]
    <2>1. h \in Handles
      BY <1>1 DEF AddInv, Entries
    <2>2. a \in Addrs
      BY <1>1, <1>2, <2>1, DistinctAssumption DEF TableHandlesLive, Entries, DistinctAssumption
    <2> QED BY <1>1, <1>2, <2>1, <2>2 DEF Entries
  <1>4. PICK result \in {"claimed", "refused"} : state' = [state EXCEPT ![h] = result]
    BY DEF AddClaims
  <1>5. state[h] = "open" /\ \A g \in Handles : state'[g] = IF g = h THEN result ELSE state[g]
    BY <1>1, <1>3, <1>4 DEF AddInv
  <1>6. Published[s] = Empty
    BY <1>3, <1>5, MappedTable
  <1>7. \A t \in Slots : Published[t].addr # a /\ Published[t].handle # h
    BY <1>3, <1>6, MappedTable, DistinctAssumption
       DEF OneSlotEach, Empty, DistinctAssumption
  <1>8. Published' = [Published EXCEPT ![s] = [addr |-> a, handle |-> h]]
    <2>1. \A t \in Slots :
            t # s => devices[t].handle \in Handles \cup {NULL} /\ devices[t].handle # h
      BY <1>3, DistinctAssumption DEF OneSlotEach, Entries, DistinctAssumption
    <2>2. \A t \in Slots :
            Published'[t] = IF t = s THEN [addr |-> a, handle |-> h] ELSE Published[t]
      BY <1>1, <1>3, <1>5, <2>1, DistinctAssumption DEF Published, DistinctAssumption
    <2> QED BY <2>2 DEF Published
  <1>9. Table!Bind(s, a, h)
    BY <1>1, <1>6, <1>7, <1>8, MappedTable DEF Table!Bind
  <1> QED BY <1>3, <1>9

\* The other steps of the poller do not show.
LEMMA PollerHidden ==
  ASSUME IInv, PollerStep, ~RemoveClears, ~AddClaims
  PROVE  UNCHANGED <<Published, ch, closer>>
  <1> USE DEF IInv, TypeOK, PollerTypes, TableInv
  <1>1. UNCHANGED <<ch, closer>> /\ [Next]_vars
    BY PollerFrame DEF Next
  <1>2. CASE AddWrites
    <2>1. PICK s \in Slots : devices[s] = Empty /\ devices' = [devices EXCEPT ![s] = tmp[i]]
      BY <1>2, WritesFreeSlot
    <2> QED BY <1>1, <1>2, <2>1, WriteHides
  <1>3. CASE CleanCloses
    <2>1. UNCHANGED devices /\ i \in Slots /\ closer # "closed"
      BY <1>3, SlotBounds DEF CleanCloses, ClosingInv
    <2>2. devices[i].handle # NULL => state[devices[i].handle] # "open"
      BY <1>3, <2>1 DEF CleanCloses, AddInv
    <2>3. \A s \in Slots : devices[s].handle # NULL =>
            (state'[devices[s].handle] # "open" <=> state[devices[s].handle] # "open")
      BY <1>3, <2>1, <2>2 DEF CleanCloses, Entries
    <2> QED BY <1>1, <2>1, <2>3, PublishedFrame
  <1>4. ASSUME NEW a \in Addrs, NEW h \in Handles, VisitOpens(a, h)
        PROVE  UNCHANGED <<Published, ch, closer>>
    <2>1. UNCHANGED devices /\ poll = "scan" /\ h \notin Live /\ closer # "closed"
      BY <1>4 DEF VisitOpens, Visit, ClosingInv
    <2>2. \A s \in Slots : devices[s].handle # NULL => devices[s].handle # h
      BY <2>1 DEF TableHandlesLive
    <2>3. \A s \in Slots : devices[s].handle # NULL =>
            state'[devices[s].handle] = state[devices[s].handle]
      BY <1>4, <2>2 DEF VisitOpens, Entries
    <2> QED BY <1>1, <2>1, <2>3, PublishedFrame
  <1>5. CASE /\ ~AddWrites
             /\ ~CleanCloses
             /\ ~ \E a \in Addrs, h \in Handles : VisitOpens(a, h)
    <2>1. UNCHANGED <<devices, state>>
      BY <1>5 DEF PollerStep, TestRunning, Scan, Clean, Update, Wake, GetDeviceList,
                  GetDeviceListFails, GetDescriptorFails, ScanDone, VisitKnown,
                  VisitOpenFails, Visit, CleanKeeps, RemoveLocks, CleanDone,
                  AddSkips, AddLocks, AddDone
    <2> QED BY <1>1, <2>1 DEF Published
  <1> QED BY <1>2, <1>3, <1>4, <1>5

\* A look-up reads one id of the table of ids; a client that gives its handle up
\* releases it; what else it does does not show.
LEMMA ClientMaps ==
  ASSUME IInv, NEW c \in Clients, ClientStep(c)
  PROVE  \/ Table!Release(c)
         \/ \E s \in Slots : Table!Lookup(c, s)
         \/ UNCHANGED <<Published, ch, closer>>
  <1> USE DEF IInv, TypeOK, ClientTypes
  <1>1. UNCHANGED <<Published, closer>>
    BY OthersStep DEF pollVars, Published
  <1>2. ASSUME NEW id \in 0 .. MaxDevs, Call(c, id)
        PROVE  Table!Release(c) \/ UNCHANGED ch
    BY <1>1, <1>2 DEF Call, Table!Release
  <1>3. CASE LookupLocks(c) \/ Use(c) \/ ClientEnds(c)
    BY <1>1, <1>3 DEF LookupLocks, Use, ClientEnds
  <1>4. CASE TransferEnds(c)
    BY <1>1, <1>4 DEF TransferEnds, Table!Release
  <1>5. CASE LookupReads(c)
    <2>1. ch[c] = NULL /\ closer # "closed" /\ mutex # Poller /\ cslot[c] \in Slots
      BY <1>5, DistinctAssumption
         DEF LookupReads, HeldInv, ClosingInv, MutexInv, DistinctAssumption
    <2>2. Published[cslot[c]].handle = devices[cslot[c]].handle
      BY <2>1, MappedTable DEF TableInv, AddInv, MutexInv, Empty
    <2>3. Table!Lookup(c, cslot[c])
      BY <1>1, <1>5, <2>1, <2>2 DEF LookupReads, Table!Lookup
    <2> QED BY <2>1, <2>3
  <1> QED BY <1>1, <1>2, <1>3, <1>4, <1>5 DEF ClientStep

\* closeDevices shuts the table of ids, when no thread holds a handle.
LEMMA CloseShuts ==
  ASSUME IInv, CloseAll
  PROVE  Table!Shut
  <1>1. closer = "join" /\ closer' = "closed" /\ UNCHANGED ch
    BY DEF CloseAll, clientVars
  <1>2. \A c \in Clients : ch[c] = NULL
    BY <1>1 DEF IInv, ClosingInv, HeldInv
  <1>3. \A s \in Slots : devices'[s].handle = NULL
    BY DEF CloseAll, IInv, TypeOK, PollerTypes, Entries
  <1>4. Published' = [s \in Slots |-> Empty]
    BY <1>3 DEF Published
  <1> QED BY <1>1, <1>2, <1>4, MappedTable DEF Table!Shut

\* Every step of Devices is a step of the table of ids or does not show there.
LEMMA MappedStep == IInv /\ [Next]_vars => [Table!TableNext]_(Table!tableVars)
  <1> SUFFICES ASSUME IInv, [Next]_vars
               PROVE  Table!TableNext \/ UNCHANGED <<Published, ch, closer # "closed">>
    BY DEF Table!tableVars
  <1>1. CASE RemoveClears
    BY <1>1, ClearUnbinds, MappedTable DEF Table!TableNext
  <1>2. CASE AddClaims
    BY <1>2, ClaimBinds, MappedTable DEF Table!TableNext
  <1>3. CASE PollerStep /\ ~RemoveClears /\ ~AddClaims
    BY <1>3, PollerHidden
  <1>4. ASSUME NEW c \in Clients, ClientStep(c)
        PROVE  Table!TableNext \/ UNCHANGED <<Published, ch, closer>>
    BY <1>4, ClientMaps, MappedTable DEF Table!TableNext
  <1>5. CASE CloserStep
    <2>1. CASE StopPolling
      BY <2>1 DEF StopPolling, pollVars, clientVars, Published
    <2> QED BY <1>5, <2>1, CloseShuts DEF CloserStep, Table!TableNext
  <1>6. CASE Environment \/ UNCHANGED vars
    BY <1>6 DEF Environment, Plug, Unplug, vars, pollVars, clientVars, Published
  <1> QED BY <1>1, <1>2, <1>3, <1>4, <1>5, <1>6 DEF Next

\* Devices implements the table of ids: what a thread reads under the mutex is a
\* state of a table in which claimed controllers appear and disappear at once.
THEOREM TableImplemented == Spec => ImplementsTable
  <1>1. Init => Table!TableInit
    BY MappedInit
  <1>2. IInv /\ [Next]_vars => [Table!TableNext]_(Table!tableVars)
    BY MappedStep
  <1> QED BY <1>1, <1>2, Invariance, PTL DEF Spec, ImplementsTable, Table!TableSpec
=============================================================================
