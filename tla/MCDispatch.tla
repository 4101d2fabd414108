----------------------------- MODULE MCDispatch -----------------------------
(***************************************************************************)
(* Dispatch for TLC: an object of the backend, one that QML creates, a call. *)
(***************************************************************************)
EXTENDS Dispatch

CONSTANTS o, inst, c

MCObj == {o, inst}
MCInstances == {inst}
MCCalls == {c}
=============================================================================
