---------------------------- MODULE CommandText ----------------------------
(***************************************************************************)
(* A command on its way from the address bar to the controller: a query    *)
(* text, read by the CGI process (xbcweb/main.c), written into a message,  *)
(* read by the daemon (commands.c, xbcdaemon/main.c).                      *)
(*                                                                         *)
(* A text is "<id>,<cmd>,<val>". Its number fields are sequences of        *)
(* characters: 0..9 are the digits, Minus and Space are the two others     *)
(* (Space is the "%20" of a browser). Its cmd field is one of Names.       *)
(* Nothing here has a state: who runs when is in XbcPage and Daemon.       *)
(*                                                                         *)
(* A definition whose comment starts with "Fault:" is not part of the      *)
(* model: it is the definition after it with a bug.                        *)
(***************************************************************************)
EXTENDS Integers, Sequences, SequencesExt

CONSTANT MaxDevs        \* MAX_DEVS of common.h

Minus == 10
Space == 11
Names == {"btns", "led", "rumble"}

-----------------------------------------------------------------------------
(* Numbers in C.                                                           *)

\* uint8_t and int16_t
Byte(n) == n % 256

Short(n) == ((n + 32768) % 65536) - 32768

\* atoi: a sign, then the digits up to the first other character.
Value(text) ==
    LET signed == text # <<>> /\ Head(text) = Minus
        body == IF signed THEN Tail(text) ELSE text
        end == SelectInSeq(body, LAMBDA c : c \notin 0..9)
        digits == IF end = 0 THEN body ELSE SubSeq(body, 1, end - 1)
        n == FoldLeft(LAMBDA sum, c : 10 * sum + c, 0, digits)
    IN IF signed THEN -n ELSE n

\* sprintf of %d, for the numbers of a command.
Decimal(n) ==
    LET abs == IF n < 0 THEN -n ELSE n
        width == CHOOSE w \in 1..5 : abs < 10^w /\ (w > 1 => abs >= 10^(w - 1))
        digits == [k \in 1..width |-> (abs \div 10^(width - k)) % 10]
    IN IF n < 0 THEN <<Minus>> \o digits ELSE digits

-----------------------------------------------------------------------------
(* The conversions.                                                        *)

\* Fault: the % is dropped, the two characters after it stay.
KeepsCode(field) ==
    FlattenSeq([k \in DOMAIN field |-> IF field[k] = Space THEN <<2, 0>> ELSE <<field[k]>>])

\* removeSpaces, of one field.
Spaceless(field) == SelectSeq(field, LAMBDA c : c # Space)

\* What the buffer that held the id holds when the value has been copied over it:
\* it is ended one place too far, so that one character of the id can stay.
Scratch(id, val) ==
    IF Len(id) > Len(val) THEN Append(val, id[Len(val) + 1]) ELSE val

\* retreiveCommand
Retrieved(text) ==
    [id |-> Byte(Value(text.id)),
     cmd |-> text.cmd,
     val |-> Short(Value(Scratch(text.id, text.val)))]

\* makeCommand
Made(c) == [id |-> Decimal(c.id), cmd |-> c.cmd, val |-> Decimal(c.val)]

-----------------------------------------------------------------------------
(* The way of a query.                                                     *)

\* main: removeSpaces and retreiveCommand.
Asked(query) == Retrieved([query EXCEPT !.id = Spaceless(@), !.val = Spaceless(@)])

\* main prints the buttons of a controller, if it can have any,
Answers(c) == c.cmd = "btns" /\ c.id < MaxDevs

\* and sends the other commands, for the daemon to get.
Taken(c) == Retrieved(Made(c))

\* setControllerLeds, setControllerRumble: the bytes that vary.
Report(c) == IF c.cmd = "led" THEN <<Byte(c.val)>>
             ELSE <<Byte(c.val \div 256), Byte(c.val)>>

\* commandListenerThread: getDeviceHandle has no controller for an id past the
\* table.
Acts(c) == c.id < MaxDevs

-----------------------------------------------------------------------------
(* What a query means: its fields, one by one.                             *)

Stripped(field) == SelectSeq(field, LAMBDA c : c \in 0..9 \cup {Minus})

Meant(query) ==
    [id |-> Value(Stripped(query.id)), cmd |-> query.cmd, val |-> Value(Stripped(query.val))]

\* A query for an id of one digit, with a value that an int16_t can hold, as every
\* query of xbc.html is, does what its fields say, spaces or not: its id's buttons
\* are printed, or its id's controller is sent the value's bytes.
PageCommandArrives(query) ==
    LET meant == Meant(query)
        asked == Asked(query)
        taken == Taken(asked) IN
    Len(Stripped(query.id)) = 1 /\ Stripped(query.val) # <<>> /\ meant.val = Short(meant.val)
    => IF query.cmd = "btns"
       THEN asked.id = meant.id /\ (Answers(asked) <=> meant.id < MaxDevs)
       ELSE /\ taken = meant
            /\ Acts(taken) <=> meant.id < MaxDevs
            /\ Report(taken) = Report(meant)

\* The two conversions are at odds only for an id with more digits than the value:
\* any other command that is sent is the one that is taken.
LongerValueSurvives(query) ==
    LET asked == Asked(query) IN
    Len(Made(asked).id) <= Len(Made(asked).val) => Taken(asked) = asked

\* Only the buttons of a controller that the table can hold are printed, those of
\* the id that was asked for as long as it is below 256.
AnswersTheAsked(query) ==
    LET asked == Asked(query) IN
    Answers(asked) => asked.id < MaxDevs /\ (Meant(query).id < 256 => asked.id = Meant(query).id)
=============================================================================
