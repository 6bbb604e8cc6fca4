-------------------------------- MODULE MCWeb --------------------------------
(* The web side for TLC: every query and every report of a set of them.    *)
EXTENDS Web

CONSTANTS a1, h1, h2

\* Ids of one and of more digits, with leading zeros and spaces, around MAX_DEVS
\* and around 256.
IdTexts == UNION {[1..n -> {0, 3, 4, Text!Space}] : n \in 1..3} \cup {<<2, 5, 5>>, <<2, 5, 6>>}

\* The values of xbc.html, the ends of an int16_t, a negative one, an empty one.
ValTexts == {<<>>, <<0>>, <<6>>, <<1, 0, 0, 0>>, <<Text!Space, 9>>, <<1, Text!Space>>,
             <<Text!Minus, 1>>, <<0, 1, 7>>, <<3, 2, 7, 6, 7>>, <<3, 2, 7, 6, 8>>,
             <<Text!Minus, 3, 2, 7, 6, 8>>}

SomeQueries == [id : IdTexts, cmd : Text!Names, val : ValTexts]

Idle == [n \in 0..13 |-> IF n = 1 THEN 20 ELSE 0]

\* Every button alone, some together, and the ends of triggers and sticks.
Inputs ==
    {[Idle EXCEPT ![n] = 2^k] : n \in {2, 3}, k \in 0..7}
        \cup {[Idle EXCEPT ![2] = 255, ![3] = 240], [Idle EXCEPT ![2] = 9, ![3] = 255]}
        \cup {[Idle EXCEPT ![n] = v] : n \in 4..5, v \in {1, 128, 255}}
        \cup {[Idle EXCEPT ![n] = lo, ![n + 1] = hi] :
                n \in {6, 8, 10, 12}, lo \in {0, 255}, hi \in {0, 1, 127, 128, 255}}

\* Each after every other, and none after each.
SomeRounds == [in : Inputs \cup {Report!NoReport}, last : {Idle} \cup Inputs]
=============================================================================
