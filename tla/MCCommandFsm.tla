------------------------------ MODULE MCCommandFsm ------------------------------
(* Timestamps of four digits to base 4; offsets within and beyond the reach *)
(* of the comparator, which is -1..2.                                       *)
EXTENDS CommandFsm

SomeOffsets == {-1, 2, 9}
NearOffsets == Near
===============================================================================
