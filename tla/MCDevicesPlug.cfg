\* Liveness of hot-plugging: three controllers and two slots, so that the table
\* is full and overfull too; no look-ups and no symmetry.
CONSTANTS
    MaxDevs = 2
    Addrs = {a1, a2, a3}
    Handles = {h1, h2, h3}
    Clients = {}
    NULL = NULL
    NoAddr = NoAddr
    Poller = Poller
    Nobody = Nobody
SPECIFICATION FairSpec
PROPERTIES
    TableFollowsTheBus
CHECK_DEADLOCK FALSE
