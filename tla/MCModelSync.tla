----------------------------- MODULE MCModelSync -----------------------------
(***************************************************************************)
(* ModelSync for TLC.  Rows that are sorted in need three values to differ. *)
(***************************************************************************)
EXTENDS ModelSync

MCVal == 1..2
MCSortVal == 1..3
MCRows == <<2>>
=============================================================================
