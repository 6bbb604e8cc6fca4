\* The smallest table: one slot, one controller and one thread are enough for a
\* transfer to run through a handle that was closed under it.
CONSTANTS
    MaxDevs = 1
    Addrs = {a1}
    Handles = {h1, h2}
    Clients = {c1}
    NULL = NULL
    NoAddr = NoAddr
    Poller = Poller
    Nobody = Nobody
SPECIFICATION Spec
INVARIANTS
    NoTransferOnClosed
CHECK_DEADLOCK FALSE
