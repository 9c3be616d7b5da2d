------------------------- MODULE MCFactorFightGame --------------------------
(* FactorFightGame for TLC: the cfgs give its constants their values. *)
EXTENDS FactorFightGame
=============================================================================
