---------------------------- MODULE MCProcessLoop ----------------------------
(***************************************************************************)
(* ProcessLoop for TLC: two goroutines that use the lock, or none.          *)
(***************************************************************************)
EXTENDS ProcessLoop

CONSTANTS p, q

MCLockers == {p, q}
=============================================================================
