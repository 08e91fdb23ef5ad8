----------------------------- MODULE TaskQueue -----------------------------
(***************************************************************************)
(* What EventLoop::addTask promises the threads that call it: each task is *)
(* run once, and the tasks of one thread in the order it added them.  The  *)
(* promise is void once the queue's lock has been broken (`undefined'):    *)
(* the program then races on a std::queue.                                 *)
(***************************************************************************)
EXTENDS Naturals

CONSTANT Posters

VARIABLES
  posted,     \* how many tasks each thread has added
  ran,        \* the number, in its thread's order, of the last one run
  undefined

vars == <<posted, ran, undefined>>

Init ==
  /\ posted = [p \in Posters |-> 0]
  /\ ran = [p \in Posters |-> 0]
  /\ undefined = FALSE

Post(p) ==
  /\ posted' = [posted EXCEPT ![p] = @ + 1]
  /\ UNCHANGED <<ran, undefined>>

Run(p) ==
  /\ ran[p] < posted[p]
  /\ ran' = [ran EXCEPT ![p] = @ + 1]
  /\ UNCHANGED <<posted, undefined>>

Break == undefined'

Next == (\E p \in Posters : Post(p) \/ Run(p)) \/ Break

Spec == Init /\ [][Next]_vars
=============================================================================
