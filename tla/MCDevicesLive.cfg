\* Liveness of look-ups and of closeDevices: two threads compete with the poller
\* for the mutex.
CONSTANTS
    MaxDevs = 1
    Addrs = {a1, a2}
    Handles = {h1, h2}
    Clients = {c1, c2}
    NULL = NULL
    NoAddr = NoAddr
    Poller = Poller
    Nobody = Nobody
SPECIFICATION FairSpec
PROPERTIES
    CloseTerminates
    LookupReturns
CHECK_DEADLOCK FALSE
