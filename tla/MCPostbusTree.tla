----------------------------- MODULE MCPostbusTree -----------------------------
(* Finite instances of PostbusTree.                                             *)
EXTENDS PostbusTree

SomeSources == {0, 2}
SomeIoSources == {2}
SomeTargets == {1, 2}
SomeLengths == {1, 2, 3}
===============================================================================
