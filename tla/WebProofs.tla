------------------------------ MODULE WebProofs ------------------------------
(***************************************************************************)
(* Proofs about the web side, for any number of tables, ids, controllers   *)
(* and clicks, and for every report there can be.                          *)
(***************************************************************************)
EXTENDS Web, TLAPS

-----------------------------------------------------------------------------
(* A report, from its bytes to the cells of the page.                      *)

\* The order in which the fields are printed.
LEMMA PrintedFields ==
  /\ DOMAIN Report!Printed = 1..23 /\ Report!Printed[1] = "avail"
  /\ \A k \in 2..23 : Report!Printed[k] # "avail"
  BY DEF Report!Printed

\* What a cell shows: the field printed in its column.
LEMMA CellShows ==
  ASSUME NEW in, NEW before, NEW c \in Report!Cells, Report!Column[c] + 1 \in 1..23
  PROVE  Report!Page(in, before)[c] =
            LET n == Report!Polled(in, before)[Report!Printed[Report!Column[c] + 1]] IN
            IF c \in Report!ValueCells THEN n ELSE IF n = 1 THEN "lime" ELSE "#ccc"
  <1>1. Report!Column[c] + 1 \in DOMAIN Report!Printed
    BY PrintedFields
  <1> QED BY <1>1 DEF Report!Page, Report!Shown, Report!Line

\* What is decoded.
LEMMA DecodedFields ==
  ASSUME NEW in
  PROVE  /\ Report!Decoded(in)["avail"] = 1
         /\ \A f \in DOMAIN Report!Low : Report!Decoded(in)[f] = Report!Bit(in[2], Report!Low[f])
         /\ \A f \in DOMAIN Report!High : Report!Decoded(in)[f] = Report!Bit(in[3], Report!High[f])
         /\ \A f \in DOMAIN Report!Triggers : Report!Decoded(in)[f] = in[Report!Triggers[f]]
         /\ \A f \in DOMAIN Report!Sticks :
                Report!Decoded(in)[f] = Report!Int16(in[Report!Sticks[f]], in[Report!Sticks[f] + 1])
  <1>1. /\ DOMAIN Report!Low = {"D_UP", "D_DN", "D_LEFT", "D_RIGHT", "START", "BACK",
                                 "LS_PRESS", "RS_PRESS"}
        /\ DOMAIN Report!High = {"LB", "RB", "LOGO", "SPARE", "A", "B", "X", "Y"}
        /\ DOMAIN Report!Triggers = {"Left_trigger", "Right_trigger"}
        /\ DOMAIN Report!Sticks = {"Left_stick_X", "Left_stick_Y", "Right_stick_X", "Right_stick_Y"}
    BY DEF Report!Low, Report!High, Report!Triggers,
            Report!Sticks
  <1> QED BY <1>1 DEF Report!Decoded, Report!Fields

\* The tables agree on the bits,
LEMMA BitTables ==
  \A c \in DOMAIN Report!BitCell :
    /\ c \in Report!Cells \ Report!ValueCells
    /\ Report!Column[c] + 1 \in 2..23 /\ Report!Printed[Report!Column[c] + 1] = c
    /\ \/ c \in DOMAIN Report!Low /\ Report!BitCell[c] = <<2, Report!Low[c]>>
       \/ c \in DOMAIN Report!High /\ Report!BitCell[c] = <<3, Report!High[c]>>
  <1> DEFINE B == {"D_UP", "D_DN", "D_LEFT", "D_RIGHT", "START", "BACK", "LS_PRESS", "RS_PRESS"}
             C == {"LB", "RB", "LOGO", "SPARE", "A", "B", "X", "Y"}
  <1>1. DOMAIN Report!BitCell = B \cup C
    BY DEF Report!BitCell
  <1>2. ASSUME NEW c \in B \cup C
        PROVE  c \in Report!Cells \ Report!ValueCells
    BY DEF Report!Cells, Report!Column, Report!ValueCells
  <1>3. ASSUME NEW c \in B \cup C
        PROVE  Report!Column[c] + 1 \in 2..23 /\ Report!Printed[Report!Column[c] + 1] = c
    BY DEF Report!Column, Report!Printed
  <1>4. ASSUME NEW c \in B
        PROVE  c \in DOMAIN Report!Low /\ Report!BitCell[c] = <<2, Report!Low[c]>>
    BY DEF Report!Low, Report!BitCell
  <1>5. ASSUME NEW c \in C
        PROVE  c \in DOMAIN Report!High /\ Report!BitCell[c] = <<3, Report!High[c]>>
    BY DEF Report!High, Report!BitCell
  <1> QED BY <1>1, <1>2, <1>3, <1>4, <1>5

\* and on the sticks.
LEMMA StickTables ==
  \A c \in DOMAIN Report!StickCell :
    /\ c \in Report!Cells /\ c \in Report!ValueCells /\ Report!Column[c] + 1 \in 2..23
    /\ Report!Printed[Report!Column[c] + 1] \in DOMAIN Report!Sticks
    /\ Report!Sticks[Report!Printed[Report!Column[c] + 1]] = Report!StickCell[c]
    /\ Report!StickCell[c] \in 4..12
  BY DEF Report!StickCell, Report!Cells, Report!Column, Report!ValueCells, Report!Printed,
         Report!Sticks

\* A number of two bytes.
LEMMA TwoBytes ==
  ASSUME NEW low, NEW high, low \in 0..255, high \in 0..255
  PROVE  Report!IsOf(Report!Int16(low, high), low, high)
  <1> DEFINE n == low + 256 * high
             v == Report!Int16(low, high)
  <1>1. low \in Int /\ high \in Int /\ 0 <= low /\ low <= 255 /\ 0 <= high /\ high <= 255
    OBVIOUS
  <1>2. n \in Int /\ 0 <= n /\ n <= 65535
    BY <1>1
  <1>3. (high < 128 => n < 32768) /\ (high >= 128 => n >= 32768)
    BY <1>1
  <1>4. v = IF high < 128 THEN n ELSE n - 65536
    BY <1>1 DEF Report!Int16
  <1>5. -32768 <= v /\ v <= 32767 /\ (v - n) % 65536 = 0
    <2> HIDE DEF n, v
    <2>1. CASE high < 128
      <3>1. v = n /\ n < 32768
        BY <1>3, <1>4, <2>1
      <3>2. v - n = 0 /\ -32768 <= v /\ v <= 32767
        BY <1>2, <3>1
      <3> QED BY <3>2
    <2>2. CASE high >= 128
      <3>1. v = n - 65536 /\ n >= 32768
        BY <1>1, <1>3, <1>4, <2>2
      <3>2. v - n = -65536 /\ -32768 <= v /\ v <= 32767
        BY <1>2, <3>1
      <3> QED BY <3>2
    <2> QED BY <1>1, <2>1, <2>2
  <1> QED BY <1>5 DEF Report!IsOf

\* The cells of a report.
LEMMA ReportShows ==
  ASSUME NEW in \in [0..13 -> 0..255], in # Report!NoReport, NEW before
  PROVE  Report!ShowsReport(in, before)
  <1>1. Report!Polled(in, before) = Report!Decoded(in)
    BY DEF Report!Polled
  <1>2. ASSUME NEW c \in DOMAIN Report!BitCell
        PROVE  (Report!Page(in, before)[c] = "lime") <=>
                    Report!Bit(in[Report!BitCell[c][1]], Report!BitCell[c][2]) = 1
    <2> DEFINE k == Report!Column[c] + 1
    <2>1. c \in Report!Cells /\ c \notin Report!ValueCells /\ k \in 1..23 /\ Report!Printed[k] = c
      BY BitTables
    <2>2. Report!Decoded(in)[c] = Report!Bit(in[Report!BitCell[c][1]], Report!BitCell[c][2])
      <3>1. CASE c \in DOMAIN Report!Low /\ Report!BitCell[c] = <<2, Report!Low[c]>>
        <4>1. Report!Decoded(in)[c] = Report!Bit(in[2], Report!Low[c])
          BY <3>1, DecodedFields
        <4>2. Report!BitCell[c][1] = 2 /\ Report!BitCell[c][2] = Report!Low[c]
          BY <3>1
        <4> QED BY <4>1, <4>2
      <3>2. CASE c \in DOMAIN Report!High /\ Report!BitCell[c] = <<3, Report!High[c]>>
        <4>1. Report!Decoded(in)[c] = Report!Bit(in[3], Report!High[c])
          BY <3>2, DecodedFields
        <4>2. Report!BitCell[c][1] = 3 /\ Report!BitCell[c][2] = Report!High[c]
          BY <3>2
        <4> QED BY <4>1, <4>2
      <3> QED BY <3>1, <3>2, BitTables
    <2>3. Report!Page(in, before)[c] = IF Report!Decoded(in)[c] = 1 THEN "lime" ELSE "#ccc"
      <3>1. Report!Page(in, before)[c] =
                LET n == Report!Polled(in, before)[Report!Printed[k]] IN
                IF n = 1 THEN "lime" ELSE "#ccc"
        BY <2>1, CellShows, SMTT(30)
      <3> QED BY <1>1, <2>1, <3>1
    <2> QED BY <2>2, <2>3
  <1>3. Report!Page(in, before)["LEFT_TRIGGER"] = in[4]
            /\ Report!Page(in, before)["RIGHT_TRIGGER"] = in[5]
    <2>1. /\ {"LEFT_TRIGGER", "RIGHT_TRIGGER"} \subseteq Report!Cells
          /\ {"LEFT_TRIGGER", "RIGHT_TRIGGER"} \subseteq Report!ValueCells
          /\ Report!Column["LEFT_TRIGGER"] = 17 /\ Report!Column["RIGHT_TRIGGER"] = 18
      BY DEF Report!Cells, Report!Column, Report!ValueCells
    <2>2. Report!Printed[18] = "Left_trigger" /\ Report!Printed[19] = "Right_trigger"
      BY DEF Report!Printed
    <2>3. /\ {"Left_trigger", "Right_trigger"} \subseteq DOMAIN Report!Triggers
          /\ Report!Triggers["Left_trigger"] = 4 /\ Report!Triggers["Right_trigger"] = 5
      BY DEF Report!Triggers
    <2>4. Report!Decoded(in)["Left_trigger"] = in[4] /\ Report!Decoded(in)["Right_trigger"] = in[5]
      <3>1. \A f \in DOMAIN Report!Triggers : Report!Decoded(in)[f] = in[Report!Triggers[f]]
        BY DecodedFields
      <3> QED BY <2>3, <3>1
    <2>5. /\ Report!Page(in, before)["LEFT_TRIGGER"] = Report!Decoded(in)["Left_trigger"]
          /\ Report!Page(in, before)["RIGHT_TRIGGER"] = Report!Decoded(in)["Right_trigger"]
      <3>1. /\ Report!Column["LEFT_TRIGGER"] + 1 = 18 /\ Report!Column["RIGHT_TRIGGER"] + 1 = 19
            /\ 18 \in 1..23 /\ 19 \in 1..23
        BY <2>1
      <3>2. /\ Report!Page(in, before)["LEFT_TRIGGER"]
                    = Report!Polled(in, before)[Report!Printed[Report!Column["LEFT_TRIGGER"] + 1]]
            /\ Report!Page(in, before)["RIGHT_TRIGGER"]
                    = Report!Polled(in, before)[Report!Printed[Report!Column["RIGHT_TRIGGER"] + 1]]
        BY <2>1, <3>1, CellShows, SMTT(30)
      <3> QED BY <1>1, <2>2, <3>1, <3>2
    <2> QED BY <2>4, <2>5
  <1>4. ASSUME NEW c \in DOMAIN Report!StickCell
        PROVE  Report!IsOf(Report!Page(in, before)[c],
                           in[Report!StickCell[c]], in[Report!StickCell[c] + 1])
    <2> DEFINE k == Report!Column[c] + 1
               n == Report!StickCell[c]
    <2>1. c \in Report!Cells /\ c \in Report!ValueCells /\ k \in 1..23
      BY StickTables
    <2>2. Report!Page(in, before)[c] = Report!Decoded(in)[Report!Printed[k]]
      <3>1. Report!Page(in, before)[c] = Report!Polled(in, before)[Report!Printed[k]]
        BY <2>1, CellShows
      <3> QED BY <1>1, <3>1
    <2>3. /\ Report!Printed[k] \in DOMAIN Report!Sticks
          /\ Report!Sticks[Report!Printed[k]] = n /\ n \in 4..12
      BY StickTables
    <2>4. Report!Decoded(in)[Report!Printed[k]] = Report!Int16(in[n], in[n + 1])
      <3> DEFINE f == Report!Printed[k]
      <3>1. f \in DOMAIN Report!Sticks /\ Report!Sticks[f] = n
        BY <2>3
      <3> HIDE DEF f, n
      <3> QED BY <3>1, DecodedFields DEF f
    <2>5. in[n] \in 0..255 /\ in[n + 1] \in 0..255
      BY <2>3
    <2>6. Report!IsOf(Report!Int16(in[n], in[n + 1]), in[n], in[n + 1])
      BY <2>5, TwoBytes
    <2> QED BY <2>2, <2>4, <2>6
  <1> QED BY <1>2, <1>3, <1>4 DEF Report!ShowsReport

\* The cell of a controller that is there, or not.
LEMMA AvailabilityShows ==
  ASSUME NEW in, NEW last
  PROVE  Report!ShowsAvailability(in, Report!Decoded(last))
  <1> DEFINE before == Report!Decoded(last)
  <1>1. "AVAIL" \in Report!Cells /\ "AVAIL" \notin Report!ValueCells /\ Report!Column["AVAIL"] = 0
    BY DEF Report!Cells, Report!Column, Report!ValueCells
  <1>2. \A c \in Report!Cells \ {"AVAIL"} : Report!Column[c] + 1 \in 2..23
    BY DEF Report!Cells, Report!Column
  <1>3. "avail" \in DOMAIN before
    BY DEF Report!Decoded, Report!Fields
  <1>4. Report!Polled(in, before)["avail"] = IF in = Report!NoReport THEN 0 ELSE 1
    BY <1>3, DecodedFields DEF Report!Polled
  <1>5. (Report!Page(in, before)["AVAIL"] = "lime") <=> (in # Report!NoReport)
    <2> HIDE DEF before
    <2>1. Report!Page(in, before)["AVAIL"] =
            IF Report!Polled(in, before)["avail"] = 1 THEN "lime" ELSE "#ccc"
      BY <1>1, CellShows, PrintedFields
    <2> QED BY <1>4, <2>1
  <1>6. ASSUME in = Report!NoReport, NEW c \in Report!Cells \ {"AVAIL"}
        PROVE  Report!Page(in, before)[c] = Report!Shown(Report!Line(before))[c]
    <2> DEFINE k == Report!Column[c] + 1
    <2>1. k \in 2..23 /\ k \in DOMAIN Report!Printed /\ Report!Printed[k] # "avail"
      BY <1>2, PrintedFields
    <2>2. Report!Line(before)[k] = before[Report!Printed[k]]
      BY <2>1 DEF Report!Line
    <2>3. Report!Line(Report!Polled(in, before))[k] = Report!Polled(in, before)[Report!Printed[k]]
      BY <2>1 DEF Report!Line
    <2>4. Report!Polled(in, before) = [before EXCEPT !["avail"] = 0]
      BY <1>6 DEF Report!Polled
    <2>5. Report!Polled(in, before)[Report!Printed[k]] = before[Report!Printed[k]]
      <3>1. Report!Printed[k] \in DOMAIN before \/ Report!Printed[k] \notin DOMAIN before
        OBVIOUS
      <3>2. Report!Printed[k] \in Report!Fields
        BY <2>1 DEF Report!Printed, Report!Fields, Report!Low, Report!High, Report!Triggers,
            Report!Sticks
      <3>3. DOMAIN before = Report!Fields
        BY DEF Report!Decoded
      <3> HIDE DEF before
      <3> QED BY <2>1, <2>4, <3>2, <3>3
    <2> QED BY <2>2, <2>3, <2>5 DEF Report!Page, Report!Shown
  <1> QED BY <1>5, <1>6 DEF Report!ShowsAvailability

-----------------------------------------------------------------------------
(* The page. What is proved in XbcPageProofs is true of the scenes that are   *)
(* instances of it.                                                           *)

PollingProof == INSTANCE XbcPageProofs WITH
    MaxDevs <- Tables, MaxMessages <- 1, Addrs <- {}, Handles <- {}, MaxClicks <- 0,
    MaxRounds <- Versions

CommandsProof == INSTANCE XbcPageProofs WITH MaxRounds <- 0

\* What Polling is for XbcPageProofs it is here.
LEMMA PollingAgrees ==
  /\ Polling!Init \/ Polling!InitUnanswered => PollingProof!Init \/ PollingProof!InitUnanswered
  /\ [Polling!Next]_pageVars => [PollingProof!Next]_(PollingProof!vars)
  /\ PollingProof!TypeOK => Polling!TypeOK
  /\ PollingProof!AnswersInPlace => Polling!AnswersInPlace
  /\ PollingProof!NotOlder => Polling!NotOlder
  <1>1. Polling!Init \/ Polling!InitUnanswered => PollingProof!Init \/ PollingProof!InitUnanswered
    BY DEF
         Polling!Init, PollingProof!Init, Polling!InitUnanswered, PollingProof!InitUnanswered,
         Polling!InitWith, PollingProof!InitWith, Polling!Ids, PollingProof!Ids, Polling!Unread,
         PollingProof!Unread, Polling!NotShown, PollingProof!NotShown, Polling!Table!TableInit,
         PollingProof!Table!TableInit, Polling!Table!Ids, PollingProof!Table!Ids,
         Polling!Table!Unbound, PollingProof!Table!Unbound
  <1>2. Polling!Next => PollingProof!Next
    BY DEF
         Polling!Next, PollingProof!Next, Polling!Parses, PollingProof!Parses, Polling!Publishes,
         PollingProof!Publishes, Polling!Reads, PollingProof!Reads, Polling!Answers,
         PollingProof!Answers, Polling!Fails, PollingProof!Fails, Polling!Clicks,
         PollingProof!Clicks, Polling!Sends, PollingProof!Sends, Polling!Replies,
         PollingProof!Replies, Polling!Takes, PollingProof!Takes, Polling!Returns,
         PollingProof!Returns, Polling!Rebinds, PollingProof!Rebinds, Polling!Ids,
         PollingProof!Ids, Polling!Unread, PollingProof!Unread, Polling!Table!Lookup,
         PollingProof!Table!Lookup, Polling!Table!Release, PollingProof!Table!Release,
         Polling!Table!Bind, PollingProof!Table!Bind, Polling!Table!Unbind,
         PollingProof!Table!Unbind, Polling!Table!Ids, PollingProof!Table!Ids,
         Polling!Table!Unbound, PollingProof!Table!Unbound, Polling!pollVars,
         PollingProof!pollVars, Polling!commandVars, PollingProof!commandVars, Polling!tableVars,
         PollingProof!tableVars, Polling!vars, PollingProof!vars
  <1>3. UNCHANGED pageVars => UNCHANGED PollingProof!vars
    BY DEF pageVars, PollingProof!pollVars, PollingProof!commandVars, PollingProof!tableVars,
           PollingProof!vars
  <1>4. PollingProof!TypeOK => Polling!TypeOK
    BY DEF
         Polling!TypeOK, PollingProof!TypeOK, Polling!PollTypeOK, PollingProof!PollTypeOK,
         Polling!CommandTypeOK, PollingProof!CommandTypeOK, Polling!Ids, PollingProof!Ids,
         Polling!Unread, PollingProof!Unread, Polling!Bindings, PollingProof!Bindings
  <1>5. /\ PollingProof!AnswersInPlace => Polling!AnswersInPlace
        /\ PollingProof!NotOlder => Polling!NotOlder
    BY DEF
         Polling!AnswersInPlace, PollingProof!AnswersInPlace, Polling!NotOlder,
         PollingProof!NotOlder, Polling!Ids, PollingProof!Ids, Polling!NotShown,
         PollingProof!NotShown
  <1> QED BY <1>1, <1>2, <1>3, <1>4, <1>5

\* What Commands is for XbcPageProofs it is here.
LEMMA CommandsAgrees ==
  /\ Commands!Init \/ Commands!InitUnanswered => CommandsProof!Init \/ CommandsProof!InitUnanswered
  /\ [Commands!Next]_pageVars => [CommandsProof!Next]_(CommandsProof!vars)
  /\ CommandsProof!TypeOK => Commands!TypeOK
  /\ CommandsProof!AnsweredFirst => Commands!AnsweredFirst
  /\ CommandsProof!MisdirectedOnlyIfRebound => Commands!MisdirectedOnlyIfRebound
  <1>1. Commands!Init \/ Commands!InitUnanswered => CommandsProof!Init
            \/ CommandsProof!InitUnanswered
    BY DEF
         Commands!Init, CommandsProof!Init, Commands!InitUnanswered,
         CommandsProof!InitUnanswered, Commands!InitWith, CommandsProof!InitWith, Commands!Ids,
         CommandsProof!Ids, Commands!Unread, CommandsProof!Unread, Commands!NotShown,
         CommandsProof!NotShown, Commands!Table!TableInit, CommandsProof!Table!TableInit,
         Commands!Table!Ids, CommandsProof!Table!Ids, Commands!Table!Unbound,
         CommandsProof!Table!Unbound
  <1>2. Commands!Next => CommandsProof!Next
    BY DEF
         Commands!Next, CommandsProof!Next, Commands!Parses, CommandsProof!Parses,
         Commands!Publishes, CommandsProof!Publishes, Commands!Reads, CommandsProof!Reads,
         Commands!Answers, CommandsProof!Answers, Commands!Fails, CommandsProof!Fails,
         Commands!Clicks, CommandsProof!Clicks, Commands!Sends, CommandsProof!Sends,
         Commands!Replies, CommandsProof!Replies, Commands!Takes, CommandsProof!Takes,
         Commands!Returns, CommandsProof!Returns, Commands!Rebinds, CommandsProof!Rebinds,
         Commands!Ids, CommandsProof!Ids, Commands!Unread, CommandsProof!Unread,
         Commands!Table!Lookup, CommandsProof!Table!Lookup, Commands!Table!Release,
         CommandsProof!Table!Release, Commands!Table!Bind, CommandsProof!Table!Bind,
         Commands!Table!Unbind, CommandsProof!Table!Unbind, Commands!Table!Ids,
         CommandsProof!Table!Ids, Commands!Table!Unbound, CommandsProof!Table!Unbound,
         Commands!pollVars, CommandsProof!pollVars, Commands!commandVars,
         CommandsProof!commandVars, Commands!tableVars, CommandsProof!tableVars, Commands!vars,
         CommandsProof!vars
  <1>3. UNCHANGED pageVars => UNCHANGED CommandsProof!vars
    BY DEF pageVars, CommandsProof!pollVars, CommandsProof!commandVars, CommandsProof!tableVars,
           CommandsProof!vars
  <1>4. CommandsProof!TypeOK => Commands!TypeOK
    BY DEF
         Commands!TypeOK, CommandsProof!TypeOK, Commands!PollTypeOK, CommandsProof!PollTypeOK,
         Commands!CommandTypeOK, CommandsProof!CommandTypeOK, Commands!Ids, CommandsProof!Ids,
         Commands!Unread, CommandsProof!Unread, Commands!Bindings, CommandsProof!Bindings
  <1>5. /\ CommandsProof!AnsweredFirst => Commands!AnsweredFirst
        /\ CommandsProof!MisdirectedOnlyIfRebound => Commands!MisdirectedOnlyIfRebound
    BY DEF
         Commands!AnsweredFirst, CommandsProof!AnsweredFirst, Commands!MisdirectedOnlyIfRebound,
         CommandsProof!MisdirectedOnlyIfRebound
  <1> QED BY <1>1, <1>2, <1>3, <1>4, <1>5

\* In its scene the page behaves as the specification of the page says.
LEMMA Behaves ==
  /\ Spec => PollingProof!Spec \/ [](~ (scene = "polling"))
  /\ Spec => CommandsProof!Spec \/ [](~ (scene = "commands"))
  <1>1. /\ Init /\ scene = "polling" => PollingProof!Init \/ PollingProof!InitUnanswered
        /\ Init /\ scene = "commands" => CommandsProof!Init \/ CommandsProof!InitUnanswered
    BY PollingAgrees, CommandsAgrees DEF Init
  <1>2. [Next]_vars =>
          /\ scene = "polling" => (scene = "polling")' /\ [PollingProof!Next]_(PollingProof!vars)
          /\ scene = "commands" => (scene = "commands")'
                 /\ [CommandsProof!Next]_(CommandsProof!vars)
          /\ ~ (scene = "polling") => (~ (scene = "polling"))'
          /\ ~ (scene = "commands") => (~ (scene = "commands"))'
    BY PollingAgrees, CommandsAgrees DEF Next, vars
  <1> QED BY <1>1, <1>2, PTL DEF Spec, PollingProof!Spec, CommandsProof!Spec

\* Every table of the page shows its own controller, and never an older answer than it
\* has shown, for any number of controllers and rounds.
THEOREM PageInPlace == Spec => AnswersInPlace
  <1>1. PollingProof!Spec =>
            /\ [](PollingProof!TypeOK /\ PollingProof!AnswersInPlace)
            /\ [][PollingProof!NotOlder]_(PollingProof!vars)
    <2>1. PollingProof!IInv => PollingProof!TypeOK /\ PollingProof!AnswersInPlace
      BY DEF PollingProof!IInv
    <2>2. Tables \in Nat \ {0} /\ Versions \in Nat /\ 1 \in Nat
      BY WebAssumption
    <2> QED BY <2>1, <2>2, PollingProof!Invariance, PollingProof!NeverOlder, PTL
  <1>2. \/ PollingProof!TypeOK /\ PollingProof!AnswersInPlace
        \/ ~ (scene = "polling")
        => (scene = "polling" => Polling!TypeOK /\ Polling!AnswersInPlace)
    BY PollingAgrees
  <1>3. [Next]_vars /\ [PollingProof!NotOlder]_(PollingProof!vars) =>
            [scene = "polling" => Polling!NotOlder]_vars
    <2>1. Next /\ UNCHANGED PollingProof!vars => UNCHANGED vars
      BY DEF Next, vars, pageVars, PollingProof!vars, PollingProof!pollVars,
             PollingProof!commandVars, PollingProof!tableVars
    <2> QED BY <2>1, PollingAgrees
  <1>4. ~ (scene = "polling") => [scene = "polling" => Polling!NotOlder]_vars
    OBVIOUS
  <1> QED BY <1>1, <1>2, <1>3, <1>4, Behaves, PTL DEF Spec, AnswersInPlace

\* Commands are taken in the order in which the user saw them answered, and reach the
\* controller that was meant unless its id has changed hands, for any number of clicks
\* and any queue.
THEOREM PageKeepsOrder == Spec => []CommandsInOrder
  <1>1. CommandsProof!Spec =>
            [](/\ CommandsProof!TypeOK /\ CommandsProof!AnsweredFirst
               /\ CommandsProof!MisdirectedOnlyIfRebound)
    <2>1. CommandsProof!IInv =>
            /\ CommandsProof!TypeOK /\ CommandsProof!AnsweredFirst
            /\ CommandsProof!MisdirectedOnlyIfRebound
      BY DEF CommandsProof!IInv, CommandsProof!OrderInv
    <2>2. MaxDevs \in Nat \ {0} /\ 0 \in Nat /\ MaxMessages \in Nat
      BY WebAssumption
    <2> QED BY <2>1, <2>2, CommandsProof!Invariance, PTL
  <1>2. \/ /\ CommandsProof!TypeOK /\ CommandsProof!AnsweredFirst
           /\ CommandsProof!MisdirectedOnlyIfRebound
        \/ ~ (scene = "commands")
        => CommandsInOrder
    BY CommandsAgrees DEF CommandsInOrder
  <1> QED BY <1>1, <1>2, Behaves, PTL

\* The cells of the page show every report there can be, after every other.
THEOREM PageShowsReports == Spec => []ShowsTheReport
  <1> DEFINE Fits == scene = "report" => subject \in Rounds
  <1>1. Init => Fits
    BY DEF Init
  <1>2. Fits /\ [Next]_vars => Fits'
    BY DEF Next, vars
  <1>3. Fits => ShowsTheReport
    <2> SUFFICES ASSUME subject \in Rounds
                 PROVE  /\ Report!ShowsReport(subject.in, Report!Decoded(subject.last))
                        /\ Report!ShowsAvailability(subject.in, Report!Decoded(subject.last))
      BY DEF ShowsTheReport
    <2>1. CASE subject.in = Report!NoReport
      BY <2>1, AvailabilityShows DEF Report!ShowsReport
    <2>2. CASE subject.in # Report!NoReport
      <3>1. subject.in \in [0..13 -> 0..255]
        BY <2>2, WebAssumption DEF Report!NoReport
      <3> QED BY <2>2, <3>1, ReportShows, AvailabilityShows
    <2> QED BY <2>1, <2>2
  <1> QED BY <1>1, <1>2, <1>3, PTL DEF Spec

=============================================================================
