----------------------------- MODULE MCDiceRoll -----------------------------
(* DiceRoll for TLC: the cfgs give its constants their values. *)
EXTENDS DiceRoll
=============================================================================
