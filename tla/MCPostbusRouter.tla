---------------------------- MODULE MCPostbusRouter ----------------------------
(* A finite instance of PostbusRouter, with packets of several words.           *)
EXTENDS PostbusRouter

SomeSources == {0, 1, 3}
SomeTargets == {0, 2}
SomeIoSources == {0, 1}
MultiWord == {2, 3}
===============================================================================
