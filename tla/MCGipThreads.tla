------------------------------ MODULE MCGipThreads ------------------------------
(* Finite instances of GipThreads: which of the eight threads are in use.        *)
EXTENDS GipThreads

FiveThreads == {0, 2, 3, 5, 6}  \* a pair competing on each of the two upper levels
OneEach == {0, 1, 5}            \* one of each level
Medium == {2}
None == {}
===============================================================================
