\* One slot, one message, two objects of each kind, and two processes, of which one
\* reads only.
CONSTANTS
    D = D
    Readers = {p1, p2}
    Senders = {p2}
    Shms = {o1, o2}
    Sems = {s1, s2}
    Queues = {q1, q2}
    NoObj = NoObj
    MaxDevs = 1
    MaxMessages = 1
    Reports = {r1}
    Blank = Blank
    Garbage = Garbage
    Cmds = {m1}
    NoCmd = NoCmd
    Ends = {"INT", "EARLY", "TERM"}
SYMMETRY Symmetric
SPECIFICATION HistorySpec
CONSTRAINT OneAfterAbrupt
INVARIANTS
    TypeOK
    SemaphoreAccounts
    NoTornRead
    CrashesForCause
    
    NamesAreTheDaemons
    ExitLeavesNothing
CHECK_DEADLOCK FALSE
