\* The exercises in which somebody waits for somebody else.
CONSTANTS
    c1 = c1
    c2 = c2
    c3 = c3
    p1 = p1
    p2 = p2
    P = P
    Scenes = {"single", "pair", "in order", "sequence", "two programs", "echo"}
    MaxData <- Numbers
    Consumers = {c1, c2}
    Size = 2
    Producers = {p1, p2}
    Takers = {c1}
    SizeOf <- Two
    BaPlaces <- FourPlaces
    Early = {1, 2}
    MaxRuns = 2
    Letters = 3
    PollsA = 3
    PollsB = 2
    Ids = {0, 1}
    Clients = {c1, c2, c3}
    Jobs <- Three
    Arrivals <- Times
    Services = {0, 1, 4, 5}
    MaxClock = 18
    Callers = {c1, c2}
    Buffer = 2
    Strings <- Texts
    Whole = {c2}
    MaxLines = 3
    MaxPresses = 3
SPECIFICATION FairSpec
PROPERTIES
    BuffersGoOn
    EverybodyGoesOn
CHECK_DEADLOCK FALSE
