------------------------- MODULE MCVerifiedStreams --------------------------
(* VerifiedStreams for TLC: two games with a, and b whom somebody may add. *)
EXTENDS VerifiedStreams

CONSTANTS a, b

(* The server dials a for the second game. *)
TwoGamesOfA  == {<<a, 1>>, <<a, 2>>}
DialledGames == {<<a, 2>>}
=============================================================================
