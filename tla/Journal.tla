------------------------------ MODULE Journal ------------------------------
(***************************************************************************)
(* What the logger promises the threads that log: the lines are kept in    *)
(* the order they were logged, none left out, and what has been kept stays *)
(* kept, however often the process dies.  How much of what was logged is   *)
(* kept at any moment is left open: the rest dies with the process.  Once  *)
(* a lock has been broken (`undefined') lines may be left out, until the   *)
(* process is started again.                                               *)
(***************************************************************************)
EXTENDS Naturals

VARIABLES
  starts,   \* how often the process has been started
  logged,   \* how many lines it has logged since
  kept,     \* the lines that outlive it, by the start and their number
  undefined

vars == <<starts, logged, kept, undefined>>

Init ==
  /\ starts = 1
  /\ logged = 0
  /\ kept = {}
  /\ undefined = FALSE

Log ==
  /\ logged' = logged + 1
  /\ UNCHANGED <<starts, kept, undefined>>

FirstLines(n) == {[run |-> starts, n |-> i] : i \in 1..n}

Keep(n) ==
  /\ kept' = kept \cup FirstLines(n)
  /\ UNCHANGED <<starts, logged, undefined>>

KeepSome ==
  /\ undefined
  /\ kept \subseteq kept'
  /\ kept' \subseteq kept \cup FirstLines(logged)
  /\ UNCHANGED <<starts, logged, undefined>>

Break ==
  /\ undefined' = TRUE
  /\ UNCHANGED <<starts, logged, kept>>

Die ==
  /\ starts' = starts + 1
  /\ logged' = 0
  /\ undefined' = FALSE
  /\ UNCHANGED kept

Next == Log \/ (\E n \in 1..logged : Keep(n)) \/ KeepSome \/ Break \/ Die

Spec == Init /\ [][Next]_vars
=============================================================================
