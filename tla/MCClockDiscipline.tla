-------------------------- MODULE MCClockDiscipline --------------------------
(* Instances of ClockDiscipline for TLC. *)
EXTENDS ClockDiscipline
SomeErrors == {-4, 0, 1, 4}
==============================================================================
