--------------------------- MODULE MCOpus100Demo ----------------------------
(* Two pairs, two attempts, archives of two pieces and three runs.         *)
EXTENDS Opus100Demo

CONSTANTS none, de, hi

TwoPairs == <<de, hi>>
=============================================================================
