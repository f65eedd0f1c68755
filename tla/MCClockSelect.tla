---------------------------- MODULE MCClockSelect ----------------------------
(* Instances of ClockSelect for TLC. *)
EXTENDS ClockSelect
SomeOffsets == {0, 3, 6}
==============================================================================
