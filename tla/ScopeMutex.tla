----------------------------- MODULE ScopeMutex -----------------------------
(***************************************************************************)
(* rocket/common/mutex.h: Mutex, a pthread mutex of the default type, and  *)
(* ScopeMutex, the scope guard every locked section of the program uses.   *)
(*                                                                         *)
(* unlock() leaves m_is_lock set and the destructor unlocks without        *)
(* looking at it, so a guard whose owner calls unlock() releases the mutex *)
(* twice: the second time it may be another thread's lock.                 *)
(*                                                                         *)
(* A guard g stands for the guard objects one thread builds, one after the *)
(* other, at one place of the program.                                     *)
(***************************************************************************)
CONSTANTS
  Guards,     \* the places that construct a guard on this mutex
  Explicit    \* those that call unlock() before the scope ends

VARIABLES
  scope,      \* where each guard is in its life
  m_is_lock,  \* ScopeMutex::m_is_lock of each guard
  locked,     \* the pthread mutex
  stolen      \* history: a destructor has released another guard's lock

vars == <<scope, m_is_lock, locked, stolen>>

\* "out" no guard exists; "waiting" its constructor is blocked in lock();
\* "held" lock() returned; "released" unlock() was called, the scope goes on.
Stages == {"out", "waiting", "held", "released"}

TypeOK ==
  /\ scope \in [Guards -> Stages]
  /\ m_is_lock \in [Guards -> BOOLEAN]
  /\ locked \in BOOLEAN
  /\ stolen \in BOOLEAN

Init ==
  /\ scope = [g \in Guards |-> "out"]
  /\ m_is_lock = [g \in Guards |-> FALSE]
  /\ locked = FALSE
  /\ stolen = FALSE

Held(g) == scope[g] = "held"

-----------------------------------------------------------------------------
\* A thread reaches the declaration of the guard.
Enter(g) ==
  /\ scope[g] = "out"
  /\ scope' = [scope EXCEPT ![g] = "waiting"]
  /\ UNCHANGED <<m_is_lock, locked, stolen>>

\* The constructor's lock() returns.
Construct(g) ==
  /\ scope[g] = "waiting"
  /\ ~locked
  /\ locked' = TRUE
  /\ m_is_lock' = [m_is_lock EXCEPT ![g] = TRUE]
  /\ scope' = [scope EXCEPT ![g] = "held"]
  /\ UNCHANGED stolen

\* The owner calls unlock() inside the scope.
Unlock(g) ==
  /\ g \in Explicit
  /\ scope[g] = "held"
  /\ locked' = IF m_is_lock[g] THEN FALSE ELSE locked
  /\ scope' = [scope EXCEPT ![g] = "released"]
  /\ UNCHANGED <<m_is_lock, stolen>>

\* The scope ends: the destructor unlocks, whatever m_is_lock says.
\* pthread_mutex_unlock on a free mutex of the default type changes nothing.
Destroy(g) ==
  /\ scope[g] = (IF g \in Explicit THEN "released" ELSE "held")
  /\ locked' = FALSE
  /\ m_is_lock' = [m_is_lock EXCEPT ![g] = FALSE]
  /\ scope' = [scope EXCEPT ![g] = "out"]
  /\ stolen' = (stolen \/ (~Held(g) /\ \E h \in Guards : Held(h)))

Next ==
  \E g \in Guards : Enter(g) \/ Construct(g) \/ Unlock(g) \/ Destroy(g)

\* Threads inside a section keep running, and a free mutex is handed to one
\* of its waiters; nothing says to which, a pthread mutex is not fair.
Fairness ==
  /\ WF_vars(\E g \in Guards : Construct(g))
  /\ \A g \in Guards : WF_vars(Unlock(g) \/ Destroy(g))

SafeSpec == Init /\ [][Next]_vars

Spec == SafeSpec /\ Fairness

-----------------------------------------------------------------------------
\* The flag spans the guard's whole life: unlock() does not clear it, which is
\* why neither unlock() nor the destructor can tell that the mutex was given
\* back.
FlagSpansScope ==
  \A g \in Guards : m_is_lock[g] <=> scope[g] \in {"held", "released"}

\* Only a guard that called unlock() is alive without holding the mutex.
ReleasedIsExplicit ==
  \A g \in Guards : scope[g] = "released" => g \in Explicit

ScopeInv == TypeOK /\ FlagSpansScope /\ ReleasedIsExplicit

\* No two threads are inside the locked section: what a lock is for, and what
\* guards that never call unlock() get (FdEventGroup::getFdEvent).
MutualExclusion == \A g, h \in Guards : Held(g) /\ Held(h) => g = h

\* Mixed use of the guard is exclusive, and a section in progress keeps the
\* mutex locked, as long as no destructor found another thread inside: the
\* double unlock is the only way ScopeMutex fails.
ExclusiveUntilStolen ==
  ~stolen => /\ MutualExclusion
             /\ \A g \in Guards : Held(g) => locked

\* Releasing twice never leaves the mutex locked with nobody inside: the
\* guard can let two threads in, it cannot lock everybody out.
LockedHasHolder == locked => \E g \in Guards : Held(g)

\* While threads wait for the mutex, some thread gets it, double unlocks or
\* not.
WaitersProgress ==
  (\E g \in Guards : scope[g] = "waiting") ~> (\E g \in Guards : Held(g))
=============================================================================
