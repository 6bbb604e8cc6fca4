--------------------------------- MODULE Web ---------------------------------
(***************************************************************************)
(* The web side, as five scenes that share a run: the polling of the page, *)
(* its commands, its commands to a queue of one place, the text of a       *)
(* command, and what the page shows of a report. The scene is chosen at    *)
(* the start; the last two have no steps, only a subject.                  *)
(***************************************************************************)
EXTENDS Integers, Sequences

CONSTANTS
    NULL, NoAddr, Listener,
    Tables, Versions,           \* polling: its tables, and bound: the versions of buttons
    MaxDevs, MaxMessages,       \* commands: ids, and places in the queue,
    Addrs, Handles, MaxClicks,  \* controllers, and bound: clicks
    FewHandles,                 \* the handles when the queue has one place
    Queries,                    \* the subjects of "text", [id, cmd, val]
    Rounds                      \* and of "report": [in, last], a report, or none, and
                                \* the report of the round before

\* There is a table; a number is one; a report has bytes.
ASSUME WebAssumption ==
    /\ Tables \in Nat \ {0} /\ Versions \in Nat
    /\ MaxDevs \in Nat \ {0} /\ MaxMessages \in Nat
    /\ \A round \in Rounds : round.in # <<>> => round.in \in [0..13 -> 0..255]

VARIABLES scene, subject,
          parsed, idx, polls, shown, slots, clicks, calls, queue, taken,
          table, held, serving

pageVars == <<parsed, idx, polls, shown, slots, clicks, calls, queue, taken, table, held, serving>>
vars == <<scene, subject, pageVars>>

Polling == INSTANCE XbcPageProperties WITH
    MaxDevs <- Tables, MaxMessages <- 1, Addrs <- {}, Handles <- {}, MaxClicks <- 0,
    MaxRounds <- Versions

Commands == INSTANCE XbcPageProperties WITH MaxRounds <- 0

Crowded == INSTANCE XbcPageProperties WITH
    MaxMessages <- 1, Handles <- FewHandles, MaxRounds <- 0

Text == INSTANCE CommandText WITH MaxDevs <- 4

Report == INSTANCE ButtonReport

-----------------------------------------------------------------------------
None == <<>>

Init ==
    \/ scene = "polling" /\ subject = None /\ Polling!Init
    \/ scene = "commands" /\ subject = None /\ Commands!InitUnanswered
    \/ scene = "crowded" /\ subject = None /\ Crowded!InitUnanswered
    \/ scene = "text" /\ subject \in Queries /\ Commands!InitUnanswered
    \/ scene = "report" /\ subject \in Rounds /\ Commands!InitUnanswered

Next ==
    /\ \/ scene = "polling" /\ Polling!Next
       \/ scene = "commands" /\ Commands!Next
       \/ scene = "crowded" /\ Crowded!Next
    /\ UNCHANGED <<scene, subject>>

Spec == Init /\ [][Next]_vars

FairSpec ==
    /\ Spec
    /\ scene = "polling" => Polling!Fairness
    /\ scene = "crowded" => Crowded!Fairness

-----------------------------------------------------------------------------
(* The properties of the scenes; each says of its own scenes what the      *)
(* module of that scene says.                                              *)

\* What the text of a command means survives its way from the page to the
\* controller (CommandText).
CommandsArrive ==
    scene = "text" =>
        /\ Text!PageCommandArrives(subject)
        /\ Text!LongerValueSurvives(subject)
        /\ Text!AnswersTheAsked(subject)

\* The cells of the page show the report that was read (ButtonReport).
ShowsTheReport ==
    scene = "report" =>
        LET before == Report!Decoded(subject.last) IN
        Report!ShowsReport(subject.in, before) /\ Report!ShowsAvailability(subject.in, before)

\* Every table of the page shows its own controller, though the handler of an
\* answer does not look at what was asked, and none goes back to an older answer.
AnswersInPlace ==
    /\ [](scene = "polling" => Polling!TypeOK /\ Polling!AnswersInPlace)
    /\ [][scene = "polling" => Polling!NotOlder]_vars

\* The page goes on polling for as long as its answers are good.
PollsGoRound == scene = "polling" => Polling!PollsGoRound

\* Commands are taken in the order in which the user saw them answered, and reach
\* the controller that was meant unless its id has changed hands.
CommandsInOrder ==
    scene = "commands" =>
        Commands!TypeOK /\ Commands!AnsweredFirst /\ Commands!MisdirectedOnlyIfRebound

\* Every click is a command that is taken in the end.
ClicksLand == scene = "crowded" => Crowded!ClicksLand
=============================================================================
