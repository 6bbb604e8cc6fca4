---------------------------- MODULE ButtonReport ----------------------------
(***************************************************************************)
(* What becomes of one report of a controller: decoded into a button       *)
(* struct (getControllerInput), printed as a line of numbers by the CGI    *)
(* process (printButton), and shown in the cells of the page               *)
(* (updateControllerElements of xbc.html). The struct is the button        *)
(* thread's btns[id], which keeps what a round does not write.             *)
(*                                                                         *)
(* A report is the function in[0..13] of its bytes, or NoReport when       *)
(* there is no controller. Nothing here has a state.                       *)
(*                                                                         *)
(* A definition whose comment starts with "Fault:" is not part of the      *)
(* model: it is the definition after it with a bug.                        *)
(***************************************************************************)
EXTENDS Integers, Sequences

NoReport == <<>>

\* The byte each field is decoded from: the bits of bytes 2 and 3, and the first byte of
\* a number.
Low == [D_UP |-> 0, D_DN |-> 1, D_LEFT |-> 2, D_RIGHT |-> 3,
        START |-> 4, BACK |-> 5, LS_PRESS |-> 6, RS_PRESS |-> 7]
High == [LB |-> 0, RB |-> 1, LOGO |-> 2, SPARE |-> 3, A |-> 4, B |-> 5, X |-> 6, Y |-> 7]
Triggers == [Left_trigger |-> 4, Right_trigger |-> 5]
Sticks == [Left_stick_X |-> 6, Left_stick_Y |-> 8, Right_stick_X |-> 10, Right_stick_Y |-> 12]

Fields == {"avail"} \cup DOMAIN Low \cup DOMAIN High \cup DOMAIN Triggers \cup DOMAIN Sticks

-----------------------------------------------------------------------------
\* Bit k of a byte, as bool.
Bit(byte, k) == (byte \div 2^k) % 2

Int16(low, high) == IF high < 128 THEN 256 * high + low ELSE 256 * high + low - 65536

\* getControllerInput with a handle.
Decoded(in) ==
    [f \in Fields |->
        CASE f = "avail" -> 1
          [] f \in DOMAIN Low -> Bit(in[2], Low[f])
          [] f \in DOMAIN High -> Bit(in[3], High[f])
          [] f \in DOMAIN Triggers -> in[Triggers[f]]
          [] OTHER -> Int16(in[Sticks[f]], in[Sticks[f] + 1])]

\* getControllerInput; before is what the struct had from the last round. A
\* transfer that fails leaves any bytes in the buffer, which are decoded too.
Polled(in, before) == IF in = NoReport THEN [before EXCEPT !["avail"] = 0] ELSE Decoded(in)

\* printButton: the order of the fields in an answer.
Printed == <<"avail", "D_UP", "D_DN", "D_LEFT", "D_RIGHT", "START", "BACK", "LS_PRESS", "RS_PRESS",
             "LB", "RB", "LOGO", "SPARE", "A", "B", "X", "Y", "Left_trigger", "Right_trigger",
             "Left_stick_X", "Left_stick_Y", "Right_stick_X", "Right_stick_Y">>

\* Fault: the unused button is not printed.
LineOfUsed(btn) ==
    LET used == SelectSeq(Printed, LAMBDA f : f # "SPARE") \o <<"SPARE">>
    IN [k \in DOMAIN used |-> btn[used[k]]]

Line(btn) == [k \in DOMAIN Printed |-> btn[Printed[k]]]

\* The constants of xbc.html: where it looks for a field.
Column == [AVAIL |-> 0, D_UP |-> 1, D_DN |-> 2, D_LEFT |-> 3, D_RIGHT |-> 4,
           START |-> 5, BACK |-> 6, LS_PRESS |-> 7, RS_PRESS |-> 8, LB |-> 9,
           RB |-> 10, LOGO |-> 11, SPARE |-> 12, A |-> 13, B |-> 14, X |-> 15,
           Y |-> 16, LEFT_TRIGGER |-> 17, RIGHT_TRIGGER |-> 18, LEFT_STICK_X |-> 19,
           LEFT_STICK_Y |-> 20, RIGHT_STICK_X |-> 21, RIGHT_STICK_Y |-> 22]

Cells == DOMAIN Column
ValueCells == {"LEFT_TRIGGER", "RIGHT_TRIGGER", "LEFT_STICK_X", "LEFT_STICK_Y",
               "RIGHT_STICK_X", "RIGHT_STICK_Y"}

\* updateBoolElem and updateValue
Shown(numbers) ==
    [c \in Cells |->
        LET n == numbers[Column[c] + 1] IN
        IF c \in ValueCells THEN n ELSE IF n = 1 THEN "lime" ELSE "#ccc"]

\* What the page shows of a round.
Page(in, before) == Shown(Line(Polled(in, before)))

-----------------------------------------------------------------------------
(* Which cell a bit of the report is for, said once, end to end.           *)

BitCell == [D_UP |-> <<2, 0>>, D_DN |-> <<2, 1>>, D_LEFT |-> <<2, 2>>, D_RIGHT |-> <<2, 3>>,
            START |-> <<2, 4>>, BACK |-> <<2, 5>>, LS_PRESS |-> <<2, 6>>,
            RS_PRESS |-> <<2, 7>>, LB |-> <<3, 0>>, RB |-> <<3, 1>>, LOGO |-> <<3, 2>>,
            SPARE |-> <<3, 3>>, A |-> <<3, 4>>, B |-> <<3, 5>>, X |-> <<3, 6>>, Y |-> <<3, 7>>]

StickCell == [LEFT_STICK_X |-> 6, LEFT_STICK_Y |-> 8, RIGHT_STICK_X |-> 10,
              RIGHT_STICK_Y |-> 12]

\* Whether a signed number of 16 bits is that of two bytes.
IsOf(n, low, high) == -32768 <= n /\ n <= 32767 /\ (n - (low + 256 * high)) % 65536 = 0

\* Three tables that nothing holds together (the masks of getControllerInput, the
\* argument list of printButton, the constants of the page) agree: a cell is lime
\* exactly when its own bit is set in the report, and the value cells show their
\* own bytes, little-endian and signed, whatever the struct had before.
ShowsReport(in, before) ==
    LET cells == Page(in, before) IN
    in # NoReport =>
        /\ \A c \in DOMAIN BitCell :
            (cells[c] = "lime") <=> Bit(in[BitCell[c][1]], BitCell[c][2]) = 1
        /\ cells["LEFT_TRIGGER"] = in[4] /\ cells["RIGHT_TRIGGER"] = in[5]
        /\ \A c \in DOMAIN StickCell : IsOf(cells[c], in[StickCell[c]], in[StickCell[c] + 1])

\* A controller is shown as available in exactly the rounds that found one; in the
\* others the page goes on showing what the last one had pressed.
ShowsAvailability(in, before) ==
    /\ (Page(in, before)["AVAIL"] = "lime") <=> (in # NoReport)
    /\ in = NoReport =>
        \A c \in Cells \ {"AVAIL"} : Page(in, before)[c] = Shown(Line(before))[c]
=============================================================================
