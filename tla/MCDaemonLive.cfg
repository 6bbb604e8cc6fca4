\* Progress of the threads and of a CGI process that reads or sends, however the
\* daemon ends.
CONSTANTS
    D = D
    Readers = {p1}
    Senders = {p1}
    Shms = {o1}
    Sems = {s1}
    Queues = {q1}
    NoObj = NoObj
    MaxDevs = 2
    MaxMessages = 1
    Reports = {}
    Blank = Blank
    Garbage = Garbage
    Cmds = {m1}
    NoCmd = NoCmd
    Ends = {"INT", "EARLY", "TERM"}
SPECIFICATION FairSpec
PROPERTIES
    
    SlotsRefreshed
    ReaderReturns
    SenderReturns
CHECK_DEADLOCK FALSE
