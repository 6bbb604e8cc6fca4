---------------------------- MODULE DemoController ----------------------------
(***************************************************************************)
(* The demonstration of a controller: four steps (LEDs, rumble, buttons,   *)
(* sticks), each of which goes on until BACK is seen, and then waits until *)
(* all buttons are released. A controller sends a report when something    *)
(* has changed since its last one; otherwise the transfer times out and    *)
(* leaves what was on the stack. All results of transfers are ignored.     *)
(*                                                                         *)
(* A definition whose comment starts with "Fault:" is not part of the      *)
(* model: it is the definition after it with a bug.                        *)
(***************************************************************************)
EXTENDS Integers

CONSTANT MaxPresses     \* bound: how often the user presses BACK

VARIABLES
    held, reported,     \* what the user holds now, and did at the last report
    led, rumble,        \* of the controller
    buttons,            \* what the program thinks is held
    step, at,           \* the step, 1..4, and where the program is, in it or before
    to_quit,
    presses,            \* of BACK
    misled, failed      \* whether a time-out was taken for a report, and a command lost

userVars == <<held, presses>>
vars == <<held, reported, led, rumble, buttons, step, at, to_quit, presses, misled, failed>>

\* "Y" stands for the four that light a LED, "STICK" for the left stick.
Controls == {"BACK", "Y", "STICK"}

\* A controller that somebody may have used before.
Init ==
    /\ held = {} /\ reported = {} /\ buttons = {}
    /\ led \in BOOLEAN /\ failed = FALSE
    /\ rumble = FALSE
    /\ step = 1 /\ at = "open"
    /\ to_quit = FALSE
    /\ presses = 0 /\ misled = FALSE

\* The user.
Moves ==
    /\ \E b \in Controls :
        \/ b \notin held /\ held' = held \cup {b}
           /\ presses' = (IF b = "BACK" THEN presses + 1 ELSE presses) /\ presses' <= MaxPresses
        \/ b \in held /\ held' = held \ {b} /\ UNCHANGED presses
    /\ UNCHANGED <<reported, led, rumble, buttons, step, at, to_quit, misled, failed>>

\* getControllerInput.
GetsInput ==
    \/ held # reported /\ buttons' = held /\ reported' = held /\ UNCHANGED misled
    \/ buttons' \in SUBSET Controls /\ misled' = TRUE /\ UNCHANGED reported

\* A command reaches the controller or is lost.
Sends(variable, value) ==
    \/ variable' = value /\ UNCHANGED failed
    \/ UNCHANGED variable /\ failed' = TRUE

\* initUSB, printAllDevices and getAndClaimHandle, of which each call that fails ends
\* the program.
Opens ==
    /\ \/ at = "open" /\ at' \in {"claim", "exit"}
       \/ at = "claim" /\ at' \in {"clear", "exit"}
    /\ UNCHANGED <<userVars, reported, led, rumble, buttons, step, to_quit, misled, failed>>

\* demoController before its first step.
Clears ==
    /\ at = "clear" /\ at' = "input"
    /\ Sends(led, FALSE)
    /\ UNCHANGED <<userVars, reported, rumble, buttons, step, to_quit, misled>>

\* closeUSB, after the last step.
Closes ==
    /\ step > 4 /\ at = "input" /\ at' = "exit"
    /\ UNCHANGED <<userVars, reported, led, rumble, buttons, step, to_quit, misled, failed>>

\* The loop of a step.
Inputs ==
    /\ step <= 4 /\ at = "input" /\ GetsInput
    /\ at' = "act"
    /\ UNCHANGED <<userVars, led, rumble, step, to_quit, failed>>

Acts ==
    /\ step <= 4 /\ at = "act"
    /\ to_quit' = ("BACK" \in buttons)
    /\ at' = IF step = 2 /\ to_quit' THEN "stop"
             ELSE IF to_quit' \/ step = 3 THEN "release" ELSE "input"
    /\ IF step = 1
       THEN Sends(led, "Y" \in buttons) /\ UNCHANGED rumble
       ELSE IF step = 2 THEN Sends(rumble, "STICK" \in buttons) /\ UNCHANGED led
       ELSE UNCHANGED <<led, rumble, failed>>
    /\ UNCHANGED <<userVars, reported, buttons, step, misled>>

\* The end of demoRumble.
Stops ==
    /\ at = "stop" /\ at' = "release"
    /\ Sends(rumble, FALSE)
    /\ UNCHANGED <<userVars, reported, led, buttons, step, to_quit, misled>>

\* Fault: only BACK is waited for, which a last look at the buttons does not show.
ReleasesOnce ==
    /\ at = "release"
    /\ IF to_quit THEN step' = step + 1 /\ to_quit' = FALSE ELSE UNCHANGED <<step, to_quit>>
    /\ at' = "input"
    /\ UNCHANGED <<userVars, reported, led, rumble, buttons, misled, failed>>

\* waitForRelease, and the step after.
Releases ==
    /\ at = "release"
    /\ \/ /\ buttons \subseteq {"STICK"}
          /\ IF to_quit THEN step' = step + 1 /\ to_quit' = FALSE ELSE UNCHANGED <<step, to_quit>>
          /\ at' = "input"
          /\ UNCHANGED <<reported, buttons, misled>>
       \/ /\ ~(buttons \subseteq {"STICK"}) /\ GetsInput
          /\ UNCHANGED <<step, at, to_quit>>
    /\ UNCHANGED <<userVars, led, rumble, failed>>

Next == Moves \/ Opens \/ Clears \/ Closes \/ Inputs \/ Acts \/ Stops \/ Releases

-----------------------------------------------------------------------------
\* "Press back to go to the next step": a press of BACK ends one step at most, however
\* long it is held and whatever else is pressed meanwhile, as long as no time-out is
\* taken for a report.
OnePressOneStep == ~misled => step - 1 <= presses

\* The rumble is off once its step is left, unless a command was lost: whoever waits for
\* the release of BACK does not rumble on, nor a demonstration that has ended. (A LED
\* that is lit with BACK stays lit.)
QuietAfterwards == ~failed /\ (step > 2 \/ (step = 2 /\ at = "release")) => ~rumble
=============================================================================
