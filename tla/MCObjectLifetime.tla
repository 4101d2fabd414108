--------------------------- MODULE MCObjectLifetime ---------------------------
(***************************************************************************)
(* A small instance: root and one other object a, which root may hold, and *)
(* which may hold itself; root's signals, parameters and results mention a. *)
(* In some runs a is an instance that QML creates.                          *)
(***************************************************************************)
EXTENDS ObjectLifetime

CONSTANTS root, a, R, T

MCObject   == {root, a}
MCInstance == {a}
MCType     == {R, T}
MCTypeOf   == [o \in MCObject |-> IF o = root THEN R ELSE T]
MCShapes   == [o \in MCObject |-> {{}, {a}}]
MCSignals  == [o \in MCObject |-> IF o = root THEN {{a}} ELSE {}]
MCMethods  == [o \in MCObject |-> IF o = root THEN {{}, {a}} ELSE {}]
MCResults  == [o \in MCObject |-> IF o = root THEN {{}, {a}} ELSE {{}}]
=============================================================================
