------------------------------ MODULE TimerMC ------------------------------
(* A short timer event that repeats, one that does not, and a long one.      *)
EXTENDS Timer

CONSTANTS e1, e2, e3
Intervals == [e \in Events |-> CASE e = e1 -> 1 [] e = e2 -> 2 [] OTHER -> 4]
=============================================================================
