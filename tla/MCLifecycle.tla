------------------------------ MODULE MCLifecycle ------------------------------
(* Two operators' calls at a time, and two resets.                         *)
EXTENDS AccountLifecycle, TLC

CONSTANTS t1, t2

TwoTasks == {t1, t2}
Interchangeable == Permutations(TwoTasks)
===============================================================================
