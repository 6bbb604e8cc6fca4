\* SIGINT, and nobody who sends a command.
CONSTANTS
    D = D
    Readers = {}
    Senders = {}
    Shms = {o1}
    Sems = {s1}
    Queues = {q1}
    NoObj = NoObj
    MaxDevs = 1
    MaxMessages = 1
    Reports = {r1, r2}
    Blank = Blank
    Garbage = Garbage
    Cmds = {m1}
    NoCmd = NoCmd
    Ends = {"INT"}
SPECIFICATION FairSpec
PROPERTIES
    ShutdownCompletes
CHECK_DEADLOCK FALSE
