\* Polling of three tables; two commands to two ids of a table of which one
\* controller comes and goes; every query of the two sets; reports, each after every other.
CONSTANTS
    NULL = NULL
    NoAddr = NoAddr
    Listener = cmd
    a1 = a1
    h1 = h1
    h2 = h2
    Tables = 3
    Versions = 2
    MaxDevs = 2
    MaxMessages = 2
    Addrs = {a1}
    Handles = {h1, h2}
    MaxClicks = 2
    FewHandles = {h1}
    Queries <- SomeQueries
    Rounds <- SomeRounds
SPECIFICATION FairSpec
INVARIANTS
    CommandsArrive
    ShowsTheReport
    CommandsInOrder
PROPERTIES
    AnswersInPlace
    PollsGoRound
    ClicksLand
CHECK_DEADLOCK FALSE
