\* The daemon stopped and started again by the init script.
CONSTANTS
    D = D
    Readers = {p1}
    Senders = {}
    Shms = {o1}
    Sems = {s1}
    Queues = {q1}
    NoObj = NoObj
    MaxDevs = 1
    MaxMessages = 1
    Reports = {r1}
    Blank = Blank
    Garbage = Garbage
    Cmds = {m1}
    NoCmd = NoCmd
    Ends = {"TERM"}
SPECIFICATION Spec
INVARIANTS
    NeverCrashes
CHECK_DEADLOCK FALSE
