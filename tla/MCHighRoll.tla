----------------------------- MODULE MCHighRoll -----------------------------
(* HighRoll for TLC: the cfg gives its constants their values. *)
EXTENDS HighRoll
=============================================================================
