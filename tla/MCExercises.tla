---------------------------- MODULE MCExercises ----------------------------
(* The exercises for TLC.                                                  *)
EXTENDS Exercises

CONSTANTS c1, c2, c3, p1, p2

\* What each scene with a buffer of two places produces.
Numbers == [single |-> 5, pair |-> 3, several |-> 1, once |-> 3, twice |-> 1]
Two == [p \in {p1, p2} |-> 2]
FourPlaces == 0..3

Three == 1..3
Times == 0..2

\* Strings within and beyond the buffer of two bytes: where they end in the text. The
\* bytes of one client come in any pieces.
Texts == {<<2>>, <<3>>, <<1, 3>>}
=============================================================================
