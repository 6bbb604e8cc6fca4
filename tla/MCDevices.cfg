\* Two slots, three controllers (one more than fits), and two threads that look
\* ids up while the poller changes the table.
CONSTANTS
    MaxDevs = 2
    Addrs = {a1, a2, a3}
    Handles = {h1, h2, h3}
    Clients = {c1, c2}
    NULL = NULL
    NoAddr = NoAddr
    Poller = Poller
    Nobody = Nobody
SYMMETRY Symmetric
SPECIFICATION Spec
INVARIANTS
    TypeOK
    OneSlotEach
    TableHandlesLive
    NoHandleLeak
    ClaimedBeforeUse
    AllClosedAtExit
    IInv
PROPERTIES
    SlotsEmptyBetween
    DroppedForCause
    ImplementsTable
CHECK_DEADLOCK FALSE
