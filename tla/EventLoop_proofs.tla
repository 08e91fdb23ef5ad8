--------------------------- MODULE EventLoop_proofs ---------------------------
(* Safety of EventLoop for any number of threads, descriptors and tasks.     *)
EXTENDS EventLoop, TLAPS

\* Types, program points and the tasks being pushed: what addTask and loop()
\* leave in each thread's hands.
THEOREM Typing == Spec => []LoopInv
  <1> USE LoopAssumption DEF Threads, LoopInv
  <1>1. Init => LoopInv
    <2> SUFFICES ASSUME Init PROVE LoopInv
      OBVIOUS
    <2>1. Handler(WakeFd) \in Tasks
      BY DEF Handler, Tasks
    <2>2. pc \in [Threads -> PosterPoints \cup LoopPoints]
      BY DEF Init, PosterPoints, LoopPoints
    <2>3. /\ arg \in [Threads -> Tasks]
          /\ m_pending_tasks \in Seq(Tasks)
          /\ tem_tasks \in Seq(Tasks)
      BY <2>1 DEF Init
    <2>4. /\ posted \in [Posters -> 0..MaxPosts]
          /\ ran \in [Posters -> 0..MaxPosts]
      BY DEF Init
    <2>5. TypeOK
      BY <2>2, <2>3, <2>4 DEF Init, TypeOK
    <2>6. ThreadsInv
      BY DEF Init, ThreadsInv, PosterPoints, LoopPoints
    <2> QED
      BY <2>5, <2>6
  <1>2. ASSUME LoopInv, [Next]_vars
        PROVE  LoopInv'
    <2> USE <1>2 DEF TypeOK, ThreadsInv, PosterPoints, LoopPoints,
               queueVars, epollVars, wakeVars, Goto
    <2>1. ASSUME NEW t \in Threads, PushLock(t) PROVE LoopInv'
      BY <2>1 DEF PushLock, Acquire
    <2>2. ASSUME NEW t \in Threads, Push(t) PROVE LoopInv'
      <3>1. arg[t] \in Tasks
        OBVIOUS
      <3>2. Register(arg[t], wanted) \subseteq Fds \cup {WakeFd}
        BY <3>1 DEF Register, Tasks
      <3>3. posted' \in [Posters -> 0..MaxPosts]
        BY <2>2, <3>1 DEF Push, Tasks
      <3>4. m_pending_tasks' \in Seq(Tasks)
        <4>1. \/ m_pending_tasks' = Append(m_pending_tasks, arg[t])
              \/ m_pending_tasks' = m_pending_tasks
          BY <2>2 DEF Push
        <4>2. m_pending_tasks \in Seq(Tasks)
          OBVIOUS
        <4> HIDE <1>2 DEF TypeOK, ThreadsInv
        <4> QED
          BY <3>1, <4>1, <4>2
      <3>5. arg' \in [Threads -> Tasks]
        <4>1. Handler(WakeFd) \in Tasks
          BY DEF Handler, Tasks
        <4> QED
          BY <2>2, <4>1 DEF Push
      <3>6. TypeOK'
        BY <2>2, <3>2, <3>3, <3>4, <3>5 DEF Push
      <3>7. ThreadsInv'
        BY <2>2 DEF Push
      <3> QED
        BY <3>6, <3>7
    <2>3. ASSUME NEW t \in Threads, PushUnlock(t) PROVE LoopInv'
      <3>1. TypeOK'
        BY <2>3 DEF PushUnlock, Unlock
      <3>2. ThreadsInv'
        BY <2>3 DEF PushUnlock, Unlock
      <3> QED
        BY <3>1, <3>2
    <2>4. ASSUME NEW t \in Threads, PushDestroy(t) PROVE LoopInv'
      <3>1. TypeOK'
        BY <2>4 DEF PushDestroy, Destroy
      <3>2. ThreadsInv'
        BY <2>4 DEF PushDestroy, Destroy
      <3> QED
        BY <3>1, <3>2
    <2>5. ASSUME NEW p \in Posters, PushWakeup(p) \/ StopWakeup(p) \/ CallStop(p)
          PROVE  LoopInv'
      <3>1. CASE PushWakeup(p)
        BY <3>1 DEF PushWakeup
      <3>2. CASE StopWakeup(p)
        BY <3>2 DEF StopWakeup
      <3>3. CASE CallStop(p)
        BY <3>3 DEF CallStop
      <3> QED
        BY <2>5, <3>1, <3>2, <3>3
    <2>6. ASSUME NEW p \in Posters, CallAddTask(p) PROVE LoopInv'
      BY <2>6 DEF CallAddTask, Tasks
    <2>7. CASE TestStop \/ SwapLock \/ SwapUnlock \/ RunDone \/ SwapDestroy
      <3>1. CASE TestStop
        BY <3>1 DEF TestStop
      <3>2. CASE SwapLock
        BY <3>2 DEF SwapLock, Acquire
      <3>3. CASE SwapUnlock
        BY <3>3 DEF SwapUnlock, Unlock
      <3>4. CASE RunDone
        BY <3>4 DEF RunDone
      <3>5. CASE SwapDestroy
        BY <3>5 DEF SwapDestroy, Destroy
      <3> QED
        BY <2>7, <3>1, <3>2, <3>3, <3>4, <3>5
    <2>8. CASE Swap
      BY <2>8 DEF Swap
    <2>9. CASE RunTask
      <3> DEFINE cb == Head(tem_tasks)
      <3>1. cb \in Tasks /\ Tail(tem_tasks) \in Seq(Tasks)
        BY <2>9 DEF RunTask
      <3>2. Register(cb, m_listen_fds) \subseteq Fds \cup {WakeFd}
        BY <3>1 DEF Register, Tasks
      <3>3. ran' \in [Posters -> 0..MaxPosts]
        BY <2>9, <3>1 DEF RunTask, Tasks
      <3>4. TypeOK'
        BY <2>9, <3>1, <3>2, <3>3 DEF RunTask
      <3>5. ThreadsInv'
        BY <2>9 DEF RunTask
      <3> QED
        BY <3>4, <3>5
    <2>10. CASE EpollReturns
      BY <2>10 DEF EpollReturns, Reportable
    <2>11. CASE EpollTimeout \/ DispatchDone
      <3>1. CASE EpollTimeout
        BY <3>1 DEF EpollTimeout
      <3>2. CASE DispatchDone
        BY <3>2 DEF DispatchDone
      <3> QED
        BY <2>11, <3>1, <3>2
    <2>12. CASE Dispatch
      BY <2>12 DEF Dispatch, Tasks, Handler
    <2>13. ASSUME NEW f \in Fds, Arrive(f) \/ HangUp(f) PROVE LoopInv'
      BY <2>13 DEF Arrive, HangUp
    <2>14. CASE UNCHANGED vars
      BY <2>14 DEF vars
    <2> QED
      BY <2>1, <2>2, <2>3, <2>4, <2>5, <2>6, <2>7, <2>8, <2>9, <2>10, <2>11,
         <2>12, <2>13, <2>14 DEF Next, LoopStep, PosterStep
  <1> QED
    BY <1>1, <1>2, PTL DEF Spec, SafeSpec

-----------------------------------------------------------------------------
\* The steps outside addTask and the swap do not touch the queue's history.
Quiet == UNCHANGED <<m_pending_tasks, tem_tasks, posted, ran>>

\* What every step does to the queue, for the proofs below.
LEMMA StepKinds ==
  ASSUME [Next]_vars
  PROVE  Quiet \/ (\E t \in Threads : Push(t)) \/ Swap \/ RunTask
  <1> USE DEF Quiet, queueVars, Threads
  <1>1. ASSUME NEW t \in Threads, PushLock(t) \/ PushUnlock(t) \/ PushDestroy(t)
        PROVE  Quiet
    BY <1>1 DEF PushLock, PushUnlock, PushDestroy, Acquire, Unlock, Destroy
  <1>2. ASSUME NEW p \in Posters,
               PushWakeup(p) \/ StopWakeup(p) \/ CallAddTask(p) \/ CallStop(p)
        PROVE  Quiet
    BY <1>2 DEF PushWakeup, StopWakeup, CallAddTask, CallStop
  <1>3. CASE TestStop \/ SwapLock \/ SwapUnlock \/ RunDone \/ SwapDestroy
    BY <1>3 DEF TestStop, SwapLock, SwapUnlock, RunDone, SwapDestroy, Acquire,
                Unlock, Destroy
  <1>4. CASE EpollReturns \/ EpollTimeout \/ Dispatch \/ DispatchDone
    BY <1>4 DEF EpollReturns, EpollTimeout, Dispatch, DispatchDone
  <1>5. ASSUME NEW f \in Fds, Arrive(f) \/ HangUp(f) PROVE Quiet
    BY <1>5 DEF Arrive, HangUp
  <1>6. CASE UNCHANGED vars
    BY <1>6 DEF vars
  <1> QED
    BY <1>1, <1>2, <1>3, <1>4, <1>5, <1>6 DEF Next, LoopStep, PosterStep

\* A stolen lock is remembered.
LEMMA StolenStays ==
  ASSUME [Next]_vars, stolen
  PROVE  stolen'
  <1> USE DEF Threads
  <1>1. ASSUME NEW t \in Threads, PushLock(t) \/ Push(t) \/ PushUnlock(t)
        PROVE  stolen'
    BY <1>1 DEF PushLock, Push, PushUnlock, Acquire, Unlock
  <1>2. ASSUME NEW t \in Threads, PushDestroy(t) PROVE stolen'
    BY <1>2 DEF PushDestroy, Destroy
  <1>3. ASSUME NEW p \in Posters,
               PushWakeup(p) \/ StopWakeup(p) \/ CallAddTask(p) \/ CallStop(p)
        PROVE  stolen'
    BY <1>3 DEF PushWakeup, StopWakeup, CallAddTask, CallStop
  <1>4. CASE TestStop \/ SwapLock \/ Swap \/ SwapUnlock \/ RunTask \/ RunDone
    BY <1>4 DEF TestStop, SwapLock, Swap, SwapUnlock, RunTask, RunDone, Acquire,
                Unlock
  <1>5. CASE SwapDestroy
    BY <1>5 DEF SwapDestroy, Destroy
  <1>6. CASE EpollReturns \/ EpollTimeout \/ Dispatch \/ DispatchDone
    BY <1>6 DEF EpollReturns, EpollTimeout, Dispatch, DispatchDone
  <1>7. ASSUME NEW f \in Fds, Arrive(f) \/ HangUp(f) PROVE stolen'
    BY <1>7 DEF Arrive, HangUp
  <1>8. CASE UNCHANGED vars
    BY <1>8 DEF vars
  <1> QED
    BY <1>1, <1>2, <1>3, <1>4, <1>5, <1>6, <1>7, <1>8
    DEF Next, LoopStep, PosterStep

\* Until a guard's destructor releases another thread's lock, addTask and
\* loop() are alone on the queue.
THEOREM ExclusiveQueue == Spec => []ExclusiveUntilStolen
  <1> USE DEF ExclusiveUntilStolen, QueueExclusive, InSection, Threads, Goto
  <1>1. Init => ExclusiveUntilStolen
    BY DEF Init
  <1>2. ASSUME TypeOK, ExclusiveUntilStolen, [Next]_vars
        PROVE  ExclusiveUntilStolen'
    <2>0. pc \in [Threads -> PosterPoints \cup LoopPoints]
      BY <1>2 DEF TypeOK
    <2>1. ASSUME NEW t \in Threads, PushLock(t) PROVE ExclusiveUntilStolen'
      BY <1>2, <2>0, <2>1 DEF PushLock, Acquire
    <2>2. ASSUME NEW t \in Threads, Push(t) PROVE ExclusiveUntilStolen'
      BY <1>2, <2>0, <2>2 DEF Push
    <2>3. ASSUME NEW t \in Threads, PushUnlock(t) PROVE ExclusiveUntilStolen'
      BY <1>2, <2>0, <2>3 DEF PushUnlock, Unlock
    <2>4. ASSUME NEW t \in Threads, PushDestroy(t) PROVE ExclusiveUntilStolen'
      BY <1>2, <2>0, <2>4 DEF PushDestroy, Destroy, Alone
    <2>5. ASSUME NEW p \in Posters, PushWakeup(p) PROVE ExclusiveUntilStolen'
      BY <1>2, <2>0, <2>5 DEF PushWakeup
    <2>6. ASSUME NEW p \in Posters, StopWakeup(p) PROVE ExclusiveUntilStolen'
      BY <1>2, <2>0, <2>6 DEF StopWakeup
    <2>7. ASSUME NEW p \in Posters, CallAddTask(p) PROVE ExclusiveUntilStolen'
      BY <1>2, <2>0, <2>7 DEF CallAddTask
    <2>8. ASSUME NEW p \in Posters, CallStop(p) PROVE ExclusiveUntilStolen'
      BY <1>2, <2>0, <2>8 DEF CallStop
    <2>9. CASE TestStop
      BY <1>2, <2>0, <2>9 DEF TestStop
    <2>10. CASE SwapLock
      BY <1>2, <2>0, <2>10 DEF SwapLock, Acquire
    <2>11. CASE Swap
      BY <1>2, <2>0, <2>11 DEF Swap
    <2>12. CASE SwapUnlock
      BY <1>2, <2>0, <2>12 DEF SwapUnlock, Unlock
    <2>13. CASE RunTask
      BY <1>2, <2>0, <2>13 DEF RunTask
    <2>14. CASE RunDone
      BY <1>2, <2>0, <2>14 DEF RunDone
    <2>15. CASE SwapDestroy
      BY <1>2, <2>0, <2>15 DEF SwapDestroy, Destroy, Alone
    <2>16. CASE EpollReturns \/ EpollTimeout
      BY <1>2, <2>0, <2>16 DEF EpollReturns, EpollTimeout
    <2>17. CASE Dispatch
      BY <1>2, <2>0, <2>17 DEF Dispatch
    <2>18. CASE DispatchDone
      BY <1>2, <2>0, <2>18 DEF DispatchDone
    <2>19. ASSUME NEW f \in Fds, Arrive(f) \/ HangUp(f)
           PROVE  ExclusiveUntilStolen'
      BY <1>2, <2>19 DEF Arrive, HangUp
    <2>20. CASE UNCHANGED vars
      BY <1>2, <2>20 DEF vars
    <2> QED
      BY <1>2, <2>1, <2>2, <2>3, <2>4, <2>5, <2>6, <2>7, <2>8, <2>9, <2>10,
         <2>11, <2>12, <2>13, <2>14, <2>15, <2>16, <2>17, <2>18, <2>19, <2>20
         DEF Next, LoopStep, PosterStep
  <1> QED
    BY <1>1, <1>2, Typing, PTL DEF Spec, SafeSpec, LoopInv

-----------------------------------------------------------------------------
(* The queue.                                                              *)

\* Taking the first task off two queues in a row takes it off the first one.
LEMMA ConcatHeadTail ==
  ASSUME NEW S, NEW s \in Seq(S), NEW u \in Seq(S), s # <<>>
  PROVE  /\ Head(s \o u) = Head(s)
         /\ Tail(s \o u) = Tail(s) \o u
         /\ s \o u # <<>>
  OBVIOUS

LEMMA ConcatAppend ==
  ASSUME NEW S, NEW s \in Seq(S), NEW u \in Seq(S), NEW e \in S
  PROVE  s \o Append(u, e) = Append(s \o u, e)
  OBVIOUS

\* The number of a queued task is a natural number.
LEMMA QueuedNumber ==
  ASSUME NEW q \in Seq(Tasks), NEW i \in 1..Len(q)
  PROVE  q[i].n \in Nat
  <1>1. q[i] \in Tasks
    OBVIOUS
  <1> QED
    BY <1>1, LoopAssumption DEF Tasks

\* Adding another thread's task does not disturb p's.
LEMMA AppendOther ==
  ASSUME NEW q \in Seq(Tasks), NEW e \in Tasks, NEW p, e.by # p,
         NEW from \in Nat, NEW to \in Nat, HoldsExactly(q, p, from, to)
  PROVE  HoldsExactly(Append(q, e), p, from, to)
  <1> DEFINE r == Append(q, e)
  <1>1. /\ Len(r) = Len(q) + 1
        /\ \A i \in 1..Len(q) : r[i] = q[i]
        /\ r[Len(q) + 1] = e
        /\ Len(q) \in Nat
    OBVIOUS
  <1> HIDE DEF r
  <1>2. \A i \in 1..Len(r) : r[i].by = p => i \in 1..Len(q) /\ r[i] = q[i]
    BY <1>1
  <1>3. \A n \in from + 1 .. to : \E i \in 1..Len(r) : r[i].by = p /\ r[i].n = n
    <2> TAKE n \in from + 1 .. to
    <2>1. PICK i \in 1..Len(q) : q[i].by = p /\ q[i].n = n
      BY DEF HoldsExactly
    <2> QED
      BY <1>1, <2>1
  <1> QED
    BY <1>2, <1>3 DEF HoldsExactly, r

\* Adding p's next task extends what the queue holds by one.
LEMMA AppendNext ==
  ASSUME NEW q \in Seq(Tasks), NEW e \in Tasks, NEW p, e.by = p,
         NEW from \in Nat, NEW to \in Nat, HoldsExactly(q, p, from, to),
         e.n = to + 1
  PROVE  HoldsExactly(Append(q, e), p, from, to + 1)
  <1> DEFINE r == Append(q, e)
  <1>1. /\ Len(r) = Len(q) + 1
        /\ \A i \in 1..Len(q) : r[i] = q[i]
        /\ r[Len(q) + 1] = e
        /\ Len(q) \in Nat
    OBVIOUS
  <1>2. \A i \in 1..Len(q) : q[i].n \in Nat
    BY QueuedNumber
  <1> HIDE DEF r
  <1>3. \A i \in 1..Len(r) : r[i].by = p => r[i].n \in from + 1 .. to + 1
    BY <1>1, <1>2 DEF HoldsExactly
  <1>4. \A i, j \in 1..Len(r) :
          i < j /\ r[i].by = p /\ r[j].by = p => r[i].n < r[j].n
    <2> SUFFICES ASSUME NEW i \in 1..Len(r), NEW j \in 1..Len(r),
                        i < j, r[i].by = p, r[j].by = p
                 PROVE  r[i].n < r[j].n
      OBVIOUS
    <2>1. i \in 1..Len(q) /\ r[i] = q[i]
      BY <1>1
    <2>2. q[i].n \in from + 1 .. to
      BY <2>1 DEF HoldsExactly
    <2>3. CASE j = Len(q) + 1
      BY <1>1, <2>1, <2>2, <2>3
    <2>4. CASE j # Len(q) + 1
      <3>1. j \in 1..Len(q) /\ r[j] = q[j]
        BY <1>1, <2>4
      <3> QED
        BY <2>1, <3>1 DEF HoldsExactly
    <2> QED
      BY <2>3, <2>4
  <1>5. \A n \in from + 1 .. to + 1 : \E i \in 1..Len(r) : r[i].by = p /\ r[i].n = n
    <2> TAKE n \in from + 1 .. to + 1
    <2>1. CASE n = to + 1
      BY <1>1, <2>1
    <2>2. CASE n # to + 1
      <3>1. n \in from + 1 .. to
        BY <2>2
      <3>2. \A k \in from + 1 .. to : \E i \in 1..Len(q) : q[i].by = p /\ q[i].n = k
        BY Zenon DEF HoldsExactly
      <3>3. PICK i \in 1..Len(q) : q[i].by = p /\ q[i].n = n
        BY <3>1, <3>2, Zenon
      <3> QED
        BY <1>1, <3>3
    <2> QED
      BY <2>1, <2>2
  <1>6. from <= to + 1
    BY DEF HoldsExactly
  <1> QED
    BY <1>3, <1>4, <1>5, <1>6 DEF HoldsExactly, r

\* The first task of the queue, if it is p's, is p's next one.
LEMMA TailOwn ==
  ASSUME NEW q \in Seq(Tasks), q # <<>>, NEW p, Head(q).by = p,
         NEW from \in Nat, NEW to \in Nat, HoldsExactly(q, p, from, to)
  PROVE  /\ Head(q).n = from + 1
         /\ HoldsExactly(Tail(q), p, from + 1, to)
  <1> DEFINE r == Tail(q)
  <1>1. /\ Len(q) = Len(r) + 1
        /\ \A i \in 1..Len(r) : r[i] = q[i + 1]
        /\ Len(r) \in Nat
        /\ Head(q) = q[1]
    OBVIOUS
  <1>2. \A i \in 1..Len(q) : q[i].n \in Nat
    BY QueuedNumber
  <1> HIDE DEF r
  <1>3. q[1].n \in from + 1 .. to
    BY <1>1 DEF HoldsExactly
  <1>4. q[1].n = from + 1
    <2>1. PICK i \in 1..Len(q) : q[i].by = p /\ q[i].n = from + 1
      BY <1>3 DEF HoldsExactly
    <2>2. i # 1 => q[1].n < q[i].n
      BY <1>1, <2>1 DEF HoldsExactly
    <2> QED
      BY <1>2, <1>3, <2>1, <2>2
  <1>5. \A i \in 1..Len(r) : r[i].by = p => r[i].n \in from + 2 .. to
    <2> SUFFICES ASSUME NEW i \in 1..Len(r), r[i].by = p
                 PROVE  r[i].n \in from + 2 .. to
      OBVIOUS
    <2>1. i + 1 \in 1..Len(q) /\ 1 \in 1..Len(q) /\ r[i] = q[i + 1] /\ 1 < i + 1
      BY <1>1
    <2>2. q[1].n < q[i + 1].n /\ q[i + 1].n \in from + 1 .. to
      BY <1>1, <2>1 DEF HoldsExactly
    <2> QED
      BY <1>4, <2>1, <2>2
  <1>6. \A i, j \in 1..Len(r) :
          i < j /\ r[i].by = p /\ r[j].by = p => r[i].n < r[j].n
    <2> SUFFICES ASSUME NEW i \in 1..Len(r), NEW j \in 1..Len(r),
                        i < j, r[i].by = p, r[j].by = p
                 PROVE  r[i].n < r[j].n
      OBVIOUS
    <2>1. /\ i + 1 \in 1..Len(q) /\ r[i] = q[i + 1]
          /\ j + 1 \in 1..Len(q) /\ r[j] = q[j + 1]
          /\ i + 1 < j + 1
      BY <1>1
    <2>2. q[i + 1].by = p /\ q[j + 1].by = p
      BY <2>1
    <2>3. \A k, l \in 1..Len(q) : k < l /\ q[k].by = p /\ q[l].by = p => q[k].n < q[l].n
      BY DEF HoldsExactly
    <2>4. q[i + 1].n < q[j + 1].n
      BY <2>1, <2>2, <2>3
    <2> QED
      BY <2>1, <2>4
  <1>7. \A n \in from + 2 .. to : \E i \in 1..Len(r) : r[i].by = p /\ r[i].n = n
    <2> TAKE n \in from + 2 .. to
    <2>1. PICK i \in 1..Len(q) : q[i].by = p /\ q[i].n = n
      BY DEF HoldsExactly
    <2>2. i # 1
      BY <1>4, <2>1
    <2>3. i - 1 \in 1..Len(r) /\ r[i - 1] = q[i]
      BY <1>1, <2>2
    <2> QED
      BY <2>1, <2>3
  <1>8. from + 1 + 1 = from + 2
    OBVIOUS
  <1>9. HoldsExactly(r, p, from + 1, to)
    BY <1>3, <1>5, <1>6, <1>7, <1>8 DEF HoldsExactly
  <1> QED
    BY <1>1, <1>3, <1>4, <1>9 DEF r

LEMMA TailOther ==
  ASSUME NEW q \in Seq(Tasks), q # <<>>, NEW p, Head(q).by # p,
         NEW from \in Nat, NEW to \in Nat, HoldsExactly(q, p, from, to)
  PROVE  HoldsExactly(Tail(q), p, from, to)
  <1> DEFINE r == Tail(q)
  <1>1. /\ Len(q) = Len(r) + 1
        /\ \A i \in 1..Len(r) : r[i] = q[i + 1]
        /\ Len(r) \in Nat
        /\ Head(q) = q[1]
    OBVIOUS
  <1> HIDE DEF r
  <1>2. \A i \in 1..Len(r) : r[i].by = p => r[i].n \in from + 1 .. to
    BY <1>1 DEF HoldsExactly
  <1>3. \A i, j \in 1..Len(r) :
          i < j /\ r[i].by = p /\ r[j].by = p => r[i].n < r[j].n
    <2> SUFFICES ASSUME NEW i \in 1..Len(r), NEW j \in 1..Len(r),
                        i < j, r[i].by = p, r[j].by = p
                 PROVE  r[i].n < r[j].n
      OBVIOUS
    <2>1. /\ i + 1 \in 1..Len(q) /\ r[i] = q[i + 1]
          /\ j + 1 \in 1..Len(q) /\ r[j] = q[j + 1]
          /\ i + 1 < j + 1
      BY <1>1
    <2>2. q[i + 1].by = p /\ q[j + 1].by = p
      BY <2>1
    <2>3. \A k, l \in 1..Len(q) : k < l /\ q[k].by = p /\ q[l].by = p => q[k].n < q[l].n
      BY DEF HoldsExactly
    <2>4. q[i + 1].n < q[j + 1].n
      BY <2>1, <2>2, <2>3
    <2> QED
      BY <2>1, <2>4
  <1>4. \A n \in from + 1 .. to : \E i \in 1..Len(r) : r[i].by = p /\ r[i].n = n
    <2> TAKE n \in from + 1 .. to
    <2>1. PICK i \in 1..Len(q) : q[i].by = p /\ q[i].n = n
      BY DEF HoldsExactly
    <2>2. i - 1 \in 1..Len(r) /\ r[i - 1] = q[i]
      BY <1>1, <2>1
    <2> QED
      BY <2>1, <2>2
  <1> QED
    BY <1>2, <1>3, <1>4 DEF HoldsExactly, r

\* Every task another thread adds is run at most once and in that thread's
\* order, and is in one of the two queues until then, for as long as no
\* destructor has stolen the lock.
THEOREM NoTaskLost == Spec => []TasksConserved
  <1> USE LoopAssumption DEF TasksConserved
  <1>1. Init => TasksConserved
    BY DEF Init, Queue, HoldsExactly
  <1>2. ASSUME TypeOK, ThreadsInv, ExclusiveUntilStolen, TasksConserved, [Next]_vars
        PROVE  TasksConserved'
    <2> SUFFICES ASSUME ~stolen', NEW p \in Posters
                 PROVE  HoldsExactly(Queue', p, ran'[p], posted'[p])
      OBVIOUS
    <2>1. ~stolen
      BY <1>2, StolenStays
    <2>2. /\ HoldsExactly(Queue, p, ran[p], posted[p])
          /\ ran[p] \in Nat /\ posted[p] \in Nat
      BY <1>2, <2>1 DEF TypeOK
    <2>3. /\ tem_tasks \in Seq(Tasks) /\ m_pending_tasks \in Seq(Tasks)
          /\ Queue \in Seq(Tasks)
      BY <1>2 DEF TypeOK, Queue
    <2>4. CASE Quiet
      BY <2>2, <2>4 DEF Quiet, Queue
    <2>5. ASSUME NEW t \in Threads, Push(t)
          PROVE  HoldsExactly(Queue', p, ran'[p], posted'[p])
      <3>1. arg[t] \in Tasks /\ arg[t].by = t /\ (t \in Posters => arg[t].n = posted[t] + 1)
        BY <1>2, <2>5 DEF TypeOK, ThreadsInv, Push, Goto
      <3>2. Alone(t)
        BY <1>2, <2>1, <2>5
        DEF Alone, ExclusiveUntilStolen, QueueExclusive, InSection, Push, Goto
      <3>3. m_pending_tasks' = Append(m_pending_tasks, arg[t])
        BY <2>5, <3>2 DEF Push
      <3>4. Queue' = Append(Queue, arg[t])
        BY <2>3, <2>5, <3>1, <3>3, ConcatAppend DEF Push, Queue
      <3>5. CASE p = t
        <4>1. ran'[p] = ran[p] /\ posted'[p] = posted[p] + 1
          BY <2>5, <3>5 DEF Push
        <4>2. HoldsExactly(Append(Queue, arg[t]), p, ran[p], posted[p] + 1)
          BY <2>2, <2>3, <3>1, <3>5, AppendNext
        <4> QED
          BY <3>4, <4>1, <4>2
      <3>6. CASE p # t
        <4>1. ran'[p] = ran[p] /\ posted'[p] = posted[p]
          BY <2>5, <3>6 DEF Push
        <4>2. HoldsExactly(Append(Queue, arg[t]), p, ran[p], posted[p])
          BY <2>2, <2>3, <3>1, <3>6, AppendOther
        <4> QED
          BY <3>4, <4>1, <4>2
      <3> QED
        BY <3>5, <3>6
    <2>6. CASE Swap
      <3>1. tem_tasks = <<>>
        BY <1>2, <2>6 DEF Swap, Goto, ThreadsInv
      <3>2. Queue' = Queue
        BY <2>3, <2>6, <3>1 DEF Swap, Queue
      <3> QED
        BY <2>2, <2>6, <3>2 DEF Swap
    <2>7. CASE RunTask
      <3> DEFINE cb == Head(tem_tasks)
      <3>1. /\ tem_tasks # <<>>
            /\ tem_tasks' = Tail(tem_tasks)
            /\ m_pending_tasks' = m_pending_tasks
            /\ posted' = posted
            /\ ran'[p] = IF p = cb.by THEN cb.n ELSE ran[p]
        BY <2>7 DEF RunTask
      <3>2. Queue # <<>> /\ Head(Queue) = cb /\ Queue' = Tail(Queue)
        BY <2>3, <3>1, ConcatHeadTail DEF Queue
      <3>3. CASE cb.by = p
        <4>1. /\ cb.n = ran[p] + 1
              /\ HoldsExactly(Tail(Queue), p, ran[p] + 1, posted[p])
          BY <2>2, <2>3, <3>2, <3>3, TailOwn
        <4> QED
          BY <3>1, <3>2, <3>3, <4>1
      <3>4. CASE cb.by # p
        <4>1. HoldsExactly(Tail(Queue), p, ran[p], posted[p])
          BY <2>2, <2>3, <3>2, <3>4, TailOther
        <4> QED
          BY <3>1, <3>2, <3>4, <4>1
      <3> QED
        BY <3>3, <3>4
    <2> QED
      BY <1>2, <2>4, <2>5, <2>6, <2>7, StepKinds
  <1> QED
    BY <1>1, <1>2, Typing, ExclusiveQueue, PTL DEF Spec, SafeSpec, LoopInv

\* The changes to f's registration still in q, then what the epoll has.
Changes(q, f) == {i \in 1..Len(q) : q[i].fd = f /\ q[i].op \in {"add", "del"}}

\* Running q on an epoll that has f iff has leaves it there iff wants.
Leads(q, f, has, wants) ==
  \/ Changes(q, f) = {} /\ (wants <=> has)
  \/ \E i \in Changes(q, f) : /\ \A j \in Changes(q, f) : j <= i
                              /\ wants <=> q[i].op = "add"

\* What adding a callback to the queue does to what it leads to.
LEMMA LeadsAppend ==
  ASSUME NEW q \in Seq(Tasks), NEW cb \in Tasks, NEW f, NEW has, NEW wanting,
         Leads(q, f, has, f \in wanting)
  PROVE  Leads(Append(q, cb), f, has, f \in Register(cb, wanting))
  <1> DEFINE r == Append(q, cb)
             new == cb.fd = f /\ cb.op \in {"add", "del"}
  <1>1. /\ Len(r) = Len(q) + 1
        /\ \A i \in 1..Len(q) : r[i] = q[i]
        /\ r[Len(q) + 1] = cb
        /\ Len(q) \in Nat
    OBVIOUS
  <1> HIDE DEF r
  <1>2. CASE new
    <2>1. Len(r) \in Changes(r, f) /\ \A j \in Changes(r, f) : j <= Len(r)
      BY <1>1, <1>2 DEF Changes
    <2>2. f \in Register(cb, wanting) <=> r[Len(r)].op = "add"
      BY <1>1, <1>2 DEF Register
    <2> QED
      BY <2>1, <2>2 DEF Leads, r
  <1>3. CASE ~new
    <2>1. Changes(r, f) = Changes(q, f)
      BY <1>1, <1>3 DEF Changes
    <2>2. f \in Register(cb, wanting) <=> f \in wanting
      BY <1>3 DEF Register
    <2>3. \A i \in Changes(q, f) : r[i] = q[i]
      BY <1>1 DEF Changes
    <2> QED
      BY <2>1, <2>2, <2>3 DEF Leads, r
  <1> QED
    BY <1>2, <1>3

\* Running the first callback of the queue does not change what it leads to.
LEMMA LeadsTail ==
  ASSUME NEW q \in Seq(Tasks), q # <<>>, NEW f, NEW fds, NEW wants,
         Leads(q, f, f \in fds, wants)
  PROVE  Leads(Tail(q), f, f \in Register(Head(q), fds), wants)
  <1> DEFINE r == Tail(q)
             cb == Head(q)
             had == f \in Register(cb, fds)
  <1>1. /\ Len(q) = Len(r) + 1
        /\ \A i \in 1..Len(r) : r[i] = q[i + 1]
        /\ Len(r) \in Nat
        /\ cb = q[1]
    OBVIOUS
  <1>2. cb.fd = f /\ cb.op = "add" => had
    BY DEF Register
  <1>3. cb.fd = f /\ cb.op = "del" => ~had
    BY DEF Register
  <1>4. cb.fd # f \/ cb.op \notin {"add", "del"} => (had <=> f \in fds)
    BY DEF Register
  <1> HIDE DEF r, cb, had
  <1>5. \A i \in 1..Len(r) : i \in Changes(r, f) <=> i + 1 \in Changes(q, f)
    BY <1>1 DEF Changes
  <1>6. \A i \in Changes(q, f) : i # 1 => i - 1 \in Changes(r, f) /\ r[i - 1] = q[i]
    BY <1>1 DEF Changes
  <1>7. CASE Changes(r, f) # {}
    <2>1. PICK k \in Changes(r, f) : TRUE
      BY <1>7
    <2>2. k + 1 \in Changes(q, f) /\ k \in 1..Len(r)
      BY <1>5, <2>1 DEF Changes
    <2>3. PICK i \in Changes(q, f) : /\ \A j \in Changes(q, f) : j <= i
                                     /\ wants <=> q[i].op = "add"
      BY <2>2 DEF Leads
    <2>4. i # 1 /\ i \in Nat
      BY <2>2, <2>3 DEF Changes
    <2>5. i - 1 \in Changes(r, f) /\ r[i - 1] = q[i]
      BY <1>6, <2>4
    <2>6. \A j \in Changes(r, f) : j <= i - 1
      <3> TAKE j \in Changes(r, f)
      <3>1. j \in 1..Len(r) /\ j + 1 \in Changes(q, f)
        BY <1>5 DEF Changes
      <3> QED
        BY <1>1, <2>3, <2>4, <3>1
    <2> QED
      BY <2>3, <2>5, <2>6 DEF Leads, r, had, cb
  <1>8. CASE Changes(r, f) = {}
    <2>1. wants <=> had
      <3>1. CASE Changes(q, f) = {}
        <4>1. cb.fd # f \/ cb.op \notin {"add", "del"}
          BY <1>1, <3>1 DEF Changes
        <4> QED
          BY <1>4, <3>1, <4>1 DEF Leads
      <3>2. CASE Changes(q, f) # {}
        <4>1. PICK i \in Changes(q, f) : wants <=> q[i].op = "add"
          BY <3>2 DEF Leads
        <4>2. i = 1
          BY <1>6, <1>8
        <4> QED
          BY <1>1, <1>2, <1>3, <4>1, <4>2 DEF Changes
      <3> QED
        BY <3>1, <3>2
    <2> QED
      BY <1>8, <2>1 DEF Leads, r, had, cb
  <1> QED
    BY <1>7, <1>8

\* An event in error is of a descriptor in error.
ErrorsHung == \A e \in events : e.err => e.fd \in hung

\* What a step does to the epoll, the descriptors in error and the calls'
\* wishes, beside the steps on the queue.
LEMMA RegistrationSteps ==
  ASSUME [Next]_vars
  PROVE  /\ \/ UNCHANGED <<wanted, m_listen_fds>>
            \/ Dispatch
            \/ \E t \in Threads : Push(t)
            \/ RunTask
         /\ hung \subseteq hung'
         /\ events' \subseteq events \/ EpollReturns
  <1> DEFINE
        P == /\ \/ UNCHANGED <<wanted, m_listen_fds>>
                \/ Dispatch
                \/ \E t \in Threads : Push(t)
                \/ RunTask
             /\ hung \subseteq hung'
             /\ events' \subseteq events \/ EpollReturns
  <1> USE DEF queueVars, epollVars, Threads
  <1>1. ASSUME NEW t \in Threads, PushLock(t) \/ PushUnlock(t) \/ PushDestroy(t)
        PROVE  P
    BY <1>1 DEF PushLock, PushUnlock, PushDestroy, Acquire, Unlock, Destroy
  <1>2. ASSUME NEW t \in Threads, Push(t) PROVE P
    BY <1>2 DEF Push
  <1>3. ASSUME NEW p \in Posters,
               PushWakeup(p) \/ StopWakeup(p) \/ CallAddTask(p) \/ CallStop(p)
        PROVE  P
    BY <1>3 DEF PushWakeup, StopWakeup, CallAddTask, CallStop
  <1>4. CASE TestStop \/ SwapLock \/ SwapUnlock \/ RunDone \/ SwapDestroy
    BY <1>4 DEF TestStop, SwapLock, SwapUnlock, RunDone, SwapDestroy, Acquire,
                Unlock, Destroy
  <1>5. CASE Swap \/ RunTask
    BY <1>5 DEF Swap, RunTask
  <1>6. CASE EpollReturns \/ EpollTimeout \/ DispatchDone
    BY <1>6 DEF EpollReturns, EpollTimeout, DispatchDone
  <1>7. CASE Dispatch
    BY <1>7 DEF Dispatch
  <1>8. ASSUME NEW f \in Fds, Arrive(f) \/ HangUp(f) PROVE P
    BY <1>8 DEF Arrive, HangUp
  <1>9. CASE UNCHANGED vars
    BY <1>9 DEF vars
  <1> QED
    BY <1>1, <1>2, <1>3, <1>4, <1>5, <1>6, <1>7, <1>8, <1>9
    DEF Next, LoopStep, PosterStep

\* Only a descriptor in error is removed from the epoll unasked.
LEMMA DispatchKeepsSound ==
  ASSUME ErrorsHung, Dispatch, NEW f, f \notin hung
  PROVE  f \in m_listen_fds' <=> f \in m_listen_fds
  BY DEF ErrorsHung, Dispatch

\* The property in terms of Leads.
LEMMA FollowsIsLeads ==
  RegistrationFollowsCalls <=>
    (~stolen => \A f \in Fds \ hung :
                  Leads(Queue, f, f \in m_listen_fds, f \in wanted))
  BY DEF RegistrationFollowsCalls, Leads, Changes

\* An add or a delete from another thread reaches the epoll in the order of
\* the calls: the registration that the queue leads to is the one the last
\* call asked for, whatever the loop has run of it.
THEOREM RegistrationsInOrder == Spec => []RegistrationFollowsCalls
  <1> USE LoopAssumption
  <1>1. Init => ErrorsHung /\ RegistrationFollowsCalls
    <2> SUFFICES ASSUME Init PROVE ErrorsHung /\ RegistrationFollowsCalls
      OBVIOUS
    <2>1. Queue = <<>>
      BY DEF Init, Queue
    <2>2. ASSUME NEW f \in Fds PROVE Leads(Queue, f, f \in m_listen_fds, f \in wanted)
      BY <2>1 DEF Init, Leads, Changes
    <2> QED
      BY <2>2, FollowsIsLeads DEF Init, ErrorsHung
  <1>2. ASSUME TypeOK, ThreadsInv, ExclusiveUntilStolen, ErrorsHung,
               RegistrationFollowsCalls, [Next]_vars
        PROVE  ErrorsHung' /\ RegistrationFollowsCalls'
    <2>1. ErrorsHung'
      <3>1. CASE events' \subseteq events
        BY <1>2, <3>1, RegistrationSteps DEF ErrorsHung
      <3>2. CASE EpollReturns
        BY <3>2 DEF ErrorsHung, EpollReturns, Reportable
      <3> QED
        BY <1>2, <3>1, <3>2, RegistrationSteps
    <2>2. ASSUME ~stolen', NEW f \in Fds \ hung'
          PROVE  Leads(Queue', f, f \in m_listen_fds', f \in wanted')
      <3>1. ~stolen /\ f \notin hung
        BY <1>2, <2>2, StolenStays, RegistrationSteps
      <3>2. Leads(Queue, f, f \in m_listen_fds, f \in wanted)
        BY <1>2, <2>2, <3>1, FollowsIsLeads
      <3>3. /\ tem_tasks \in Seq(Tasks) /\ m_pending_tasks \in Seq(Tasks)
            /\ Queue \in Seq(Tasks)
        BY <1>2 DEF TypeOK, Queue
      <3>4. ASSUME NEW t \in Threads, Push(t)
            PROVE  Leads(Queue', f, f \in m_listen_fds', f \in wanted')
        <4>1. arg[t] \in Tasks
          BY <1>2 DEF TypeOK
        <4>2. Alone(t)
          BY <1>2, <3>1, <3>4
          DEF Alone, ExclusiveUntilStolen, QueueExclusive, InSection, Push, Goto
        <4>3. /\ m_pending_tasks' = Append(m_pending_tasks, arg[t])
              /\ tem_tasks' = tem_tasks /\ m_listen_fds' = m_listen_fds
              /\ wanted' = Register(arg[t], wanted)
          BY <3>4, <4>2 DEF Push, epollVars
        <4>4. Queue' = Append(Queue, arg[t])
          BY <3>3, <4>1, <4>3, ConcatAppend DEF Queue
        <4> QED
          BY <3>2, <3>3, <4>1, <4>3, <4>4, LeadsAppend
      <3>5. CASE RunTask
        <4>1. /\ tem_tasks # <<>> /\ tem_tasks' = Tail(tem_tasks)
              /\ m_pending_tasks' = m_pending_tasks /\ wanted' = wanted
              /\ m_listen_fds' = Register(Head(tem_tasks), m_listen_fds)
          BY <3>5 DEF RunTask
        <4>2. Queue # <<>> /\ Head(Queue) = Head(tem_tasks) /\ Queue' = Tail(Queue)
          <5>1. tem_tasks # <<>>
            BY <4>1
          <5>2. Queue' = Tail(tem_tasks) \o m_pending_tasks
            BY <4>1 DEF Queue
          <5>3. /\ tem_tasks \o m_pending_tasks # <<>>
                /\ Head(tem_tasks \o m_pending_tasks) = Head(tem_tasks)
                /\ Tail(tem_tasks \o m_pending_tasks) = Tail(tem_tasks) \o m_pending_tasks
            BY <3>3, <5>1, ConcatHeadTail
          <5> QED
            BY <5>2, <5>3, Zenon DEF Queue
        <4>3. Leads(Tail(Queue), f, f \in Register(Head(Queue), m_listen_fds), f \in wanted)
          BY <3>2, <3>3, <4>2, LeadsTail
        <4> QED
          BY <4>1, <4>2, <4>3
      <3>6. CASE Swap
        <4>1. tem_tasks = <<>>
          BY <1>2, <3>6 DEF Swap, Goto, ThreadsInv
        <4>2. Queue' = Queue /\ wanted' = wanted /\ m_listen_fds' = m_listen_fds
          BY <3>3, <3>6, <4>1 DEF Swap, Queue, epollVars
        <4> QED
          BY <3>2, <4>2
      <3>7. CASE Quiet /\ UNCHANGED <<wanted, m_listen_fds>>
        BY <3>2, <3>7 DEF Quiet, Queue
      <3>8. CASE Quiet /\ Dispatch
        <4>1. f \in m_listen_fds' <=> f \in m_listen_fds
          BY <1>2, <3>1, <3>8, DispatchKeepsSound
        <4>2. wanted' = wanted /\ Queue' = Queue
          BY <3>8 DEF Dispatch, queueVars, Quiet, Queue
        <4> QED
          BY <3>2, <4>1, <4>2, Zenon DEF Leads
      <3> QED
        BY <1>2, <3>4, <3>5, <3>6, <3>7, <3>8, StepKinds, RegistrationSteps
    <2>3. (~stolen => \A f \in Fds \ hung :
             Leads(Queue, f, f \in m_listen_fds, f \in wanted))'
      BY <2>2
    <2>4. RegistrationFollowsCalls'
      BY <2>3, FollowsIsLeads, PTL
    <2> QED
      BY <2>1, <2>4
  <1> QED
    BY <1>1, <1>2, Typing, ExclusiveQueue, PTL DEF Spec, SafeSpec, LoopInv

\* What keeps the loop from sleeping on a task, or excuses it.
Covered == wakeup_fd \/ drained \/ AboutToWake

\* It lasts until the next swap: a poster that has queued its task writes the
\* eventfd, and reading the eventfd is noted.
LEMMA CoverStays ==
  ASSUME pc \in [Threads -> PosterPoints \cup LoopPoints], Covered, [Next]_vars,
         ~Swap
  PROVE  Covered'
  <1> USE LoopAssumption DEF Threads, Covered, AboutToWake, Goto, wakeVars
  <1>1. ASSUME NEW t \in Threads, PushLock(t) PROVE Covered'
    BY <1>1 DEF PushLock, Acquire
  <1>2. ASSUME NEW t \in Threads, Push(t) PROVE Covered'
    BY <1>2 DEF Push
  <1>3. ASSUME NEW t \in Threads, PushUnlock(t) PROVE Covered'
    BY <1>3 DEF PushUnlock, Unlock
  <1>4. ASSUME NEW t \in Threads, PushDestroy(t) PROVE Covered'
    BY <1>4 DEF PushDestroy, Destroy
  <1>5. ASSUME NEW p \in Posters, PushWakeup(p) \/ StopWakeup(p) PROVE Covered'
    BY <1>5 DEF PushWakeup, StopWakeup
  <1>6. ASSUME NEW p \in Posters, CallAddTask(p) PROVE Covered'
    BY <1>6 DEF CallAddTask
  <1>7. ASSUME NEW p \in Posters, CallStop(p) PROVE Covered'
    BY <1>7 DEF CallStop
  <1>8. CASE TestStop
    BY <1>8 DEF TestStop
  <1>9. CASE SwapLock
    BY <1>9 DEF SwapLock, Acquire
  <1>10. CASE SwapUnlock
    BY <1>10 DEF SwapUnlock, Unlock
  <1>11. CASE RunTask
    BY <1>11 DEF RunTask
  <1>12. CASE RunDone
    BY <1>12 DEF RunDone
  <1>13. CASE SwapDestroy
    BY <1>13 DEF SwapDestroy, Destroy
  <1>14. CASE EpollReturns
    BY <1>14 DEF EpollReturns
  <1>15. CASE EpollTimeout
    BY <1>15 DEF EpollTimeout
  <1>16. CASE Dispatch
    BY <1>16 DEF Dispatch
  <1>17. CASE DispatchDone
    BY <1>17 DEF DispatchDone
  <1>18. ASSUME NEW f \in Fds, Arrive(f) \/ HangUp(f) PROVE Covered'
    BY <1>18 DEF Arrive, HangUp
  <1>19. CASE UNCHANGED vars
    BY <1>19 DEF vars
  <1> QED
    BY <1>1, <1>2, <1>3, <1>4, <1>5, <1>6, <1>7, <1>8, <1>9, <1>10, <1>11,
       <1>12, <1>13, <1>14, <1>15, <1>16, <1>17, <1>18, <1>19
    DEF Next, LoopStep, PosterStep

\* The loop can only sleep on another thread's task after reading the eventfd
\* in the same iteration: addTask's wake-up is lost there and nowhere else.
THEOREM WakeupLostOnlyByDrain == Spec => []WakeupCoversTasks
  <1> USE LoopAssumption DEF Threads
  <1>1. Init => WakeupCoversTasks
    BY DEF Init, WakeupCoversTasks
  <1>2. ASSUME TypeOK, ThreadsInv, WakeupCoversTasks, [Next]_vars
        PROVE  WakeupCoversTasks'
    <2>0. /\ pc \in [Threads -> PosterPoints \cup LoopPoints]
          /\ m_pending_tasks \in Seq(Tasks)
      BY <1>2 DEF TypeOK
    <2> SUFFICES ASSUME ~stolen', NEW i \in 1..Len(m_pending_tasks'),
                        m_pending_tasks'[i].by \in Posters
                 PROVE  Covered'
      BY DEF WakeupCoversTasks, Covered
    <2>2. CASE Quiet /\ ~Swap
      <3>1. Covered
        BY <1>2, <2>2, StolenStays DEF WakeupCoversTasks, Quiet, Covered
      <3> QED
        BY <1>2, <2>0, <2>2, <3>1, CoverStays
    <2>3. ASSUME NEW t \in Threads, Push(t), ~Swap PROVE Covered'
      <3>1. CASE t \in Posters
        BY <2>0, <2>3, <3>1 DEF Push, Goto, Covered, AboutToWake
      <3>2. CASE t = Loop
        <4>1. arg[t].by = Loop /\ arg[t] \in Tasks
          BY <1>2, <2>3, <3>2 DEF ThreadsInv, TypeOK, Push, Goto
        <4>2. i \in 1..Len(m_pending_tasks) /\ m_pending_tasks[i] = m_pending_tasks'[i]
          BY <2>0, <2>3, <4>1 DEF Push
        <4>3. Covered
          BY <1>2, <4>2, StolenStays DEF WakeupCoversTasks, Covered
        <4> QED
          BY <1>2, <2>0, <2>3, <4>3, CoverStays
      <3> QED
        BY <3>1, <3>2
    <2>4. CASE Swap
      BY <2>4 DEF Swap
    <2>5. CASE RunTask /\ ~Swap
      <3>1. Covered
        BY <1>2, <2>5, StolenStays DEF WakeupCoversTasks, RunTask, Covered
      <3> QED
        BY <1>2, <2>0, <2>5, <3>1, CoverStays
    <2> QED
      BY <1>2, <2>2, <2>3, <2>4, <2>5, StepKinds
  <1> QED
    BY <1>1, <1>2, Typing, PTL DEF Spec, SafeSpec, LoopInv

\* addTask and loop() implement the task queue: each step of the loop and of
\* its callers adds one task, runs the right one, or is invisible, up to the
\* moment a destructor steals the lock.
THEOREM LoopIsTaskQueue == Spec => ImplementsTaskQueue
  <1> USE LoopAssumption
  <1>1. Init => QueueImpl!Init
    BY DEF Init, QueueImpl!Init
  <1>2. ASSUME TypeOK, TypeOK', ThreadsInv, TasksConserved, [Next]_vars
        PROVE  [QueueImpl!Next]_(QueueImpl!vars)
    <2>1. CASE stolen'
      BY <2>1 DEF QueueImpl!Next, QueueImpl!Break
    <2>2. CASE ~stolen'
      <3>0. /\ ~stolen /\ stolen' = stolen
            /\ posted \in [Posters -> 0..MaxPosts]
            /\ ran \in [Posters -> 0..MaxPosts]
            /\ tem_tasks \in Seq(Tasks) /\ m_pending_tasks \in Seq(Tasks)
        BY <1>2, <2>2, StolenStays DEF TypeOK
      <3>1. CASE Quiet
        BY <3>0, <3>1 DEF Quiet, QueueImpl!vars
      <3>2. ASSUME NEW t \in Threads, Push(t)
            PROVE  [QueueImpl!Next]_(QueueImpl!vars)
        <4>1. CASE t \in Posters
          <5>1. posted' = [posted EXCEPT ![t] = @ + 1] /\ ran' = ran
            BY <3>0, <3>2, <4>1 DEF Push
          <5> QED
            BY <3>0, <4>1, <5>1 DEF QueueImpl!Next, QueueImpl!Post
        <4>2. CASE t = Loop
          <5>1. posted' = posted /\ ran' = ran
            BY <3>0, <3>2, <4>2 DEF Push
          <5> QED
            BY <3>0, <5>1 DEF QueueImpl!vars
        <4> QED
          BY <4>1, <4>2 DEF Threads
      <3>3. CASE Swap
        BY <3>0, <3>3 DEF Swap, QueueImpl!vars
      <3>4. CASE RunTask
        <4> DEFINE cb == Head(tem_tasks)
        <4>1. /\ tem_tasks # <<>> /\ posted' = posted
              /\ ran' = [p \in Posters |-> IF p = cb.by THEN cb.n ELSE ran[p]]
          BY <3>4 DEF RunTask
        <4>2. /\ Queue \in Seq(Tasks) /\ Queue # <<>> /\ Head(Queue) = cb
              /\ cb \in Tasks
          BY <3>0, <4>1, ConcatHeadTail DEF Queue
        <4>3. CASE cb.by \in Posters
          <5>1. HoldsExactly(Queue, cb.by, ran[cb.by], posted[cb.by])
            <6>1. \A p \in Posters : HoldsExactly(Queue, p, ran[p], posted[p])
              BY <1>2, <3>0 DEF TasksConserved
            <6> HIDE DEF cb
            <6> QED
              BY <4>3, <6>1
          <5>2. /\ cb.n = ran[cb.by] + 1
                /\ HoldsExactly(Tail(Queue), cb.by, ran[cb.by] + 1, posted[cb.by])
            <6>1. ran[cb.by] \in Nat /\ posted[cb.by] \in Nat
              BY <3>0, <4>3
            <6> QED
              BY <4>2, <5>1, <6>1, TailOwn
          <5>3. ran[cb.by] < posted[cb.by]
            BY <3>0, <4>3, <5>2 DEF HoldsExactly
          <5>4. ran' = [ran EXCEPT ![cb.by] = @ + 1]
            <6>1. \A p \in Posters :
                    ran'[p] = IF p = cb.by THEN ran[cb.by] + 1 ELSE ran[p]
              BY <4>1, <5>2
            <6> HIDE DEF cb
            <6> QED
              BY <3>0, <4>1, <4>3, <6>1
          <5> QED
            BY <3>0, <4>1, <4>3, <5>3, <5>4 DEF QueueImpl!Next, QueueImpl!Run
        <4>4. CASE cb.by \notin Posters
          <5>1. ran' = ran
            BY <3>0, <4>1, <4>4
          <5> QED
            BY <3>0, <4>1, <5>1 DEF QueueImpl!vars
        <4> QED
          BY <4>3, <4>4
      <3> QED
        BY <1>2, <3>1, <3>2, <3>3, <3>4, StepKinds
    <2> QED
      BY <2>1, <2>2
  <1> QED
    BY <1>1, <1>2, Typing, NoTaskLost, PTL
    DEF Spec, SafeSpec, LoopInv, ImplementsTaskQueue, QueueImpl!Spec

\* The loop can only sleep through stop() after reading its wake-up in the
\* same iteration: the flag once set, the eventfd is readable, about to be
\* written, or was read after the loop last tested the flag.
THEOREM StopWakeupLostOnlyByDrain == Spec => []WakeupCoversStop
  <1> USE LoopAssumption DEF Threads, WakeupCoversStop, Goto, wakeVars
  <1>1. Init => WakeupCoversStop
    BY DEF Init
  <1>2. ASSUME TypeOK, WakeupCoversStop, [Next]_vars
        PROVE  WakeupCoversStop'
    <2>0. pc \in [Threads -> PosterPoints \cup LoopPoints]
      BY <1>2 DEF TypeOK
    <2>1. ASSUME NEW t \in Threads, PushLock(t) PROVE WakeupCoversStop'
      BY <1>2, <2>0, <2>1 DEF PushLock, Acquire
    <2>2. ASSUME NEW t \in Threads, Push(t) PROVE WakeupCoversStop'
      BY <1>2, <2>0, <2>2 DEF Push
    <2>3. ASSUME NEW t \in Threads, PushUnlock(t) PROVE WakeupCoversStop'
      BY <1>2, <2>0, <2>3 DEF PushUnlock, Unlock
    <2>4. ASSUME NEW t \in Threads, PushDestroy(t) PROVE WakeupCoversStop'
      BY <1>2, <2>0, <2>4 DEF PushDestroy, Destroy
    <2>5. ASSUME NEW p \in Posters, PushWakeup(p) \/ StopWakeup(p)
          PROVE  WakeupCoversStop'
      BY <1>2, <2>0, <2>5 DEF PushWakeup, StopWakeup
    <2>6. ASSUME NEW p \in Posters, CallAddTask(p) PROVE WakeupCoversStop'
      BY <1>2, <2>0, <2>6 DEF CallAddTask
    <2>7. ASSUME NEW p \in Posters, CallStop(p) PROVE WakeupCoversStop'
      BY <1>2, <2>0, <2>7 DEF CallStop
    <2>8. CASE TestStop
      BY <1>2, <2>0, <2>8 DEF TestStop
    <2>9. CASE SwapLock
      BY <1>2, <2>0, <2>9 DEF SwapLock, Acquire
    <2>10. CASE Swap
      BY <1>2, <2>0, <2>10 DEF Swap
    <2>11. CASE SwapUnlock
      BY <1>2, <2>0, <2>11 DEF SwapUnlock, Unlock
    <2>12. CASE RunTask
      BY <1>2, <2>0, <2>12 DEF RunTask
    <2>13. CASE RunDone
      BY <1>2, <2>0, <2>13 DEF RunDone
    <2>14. CASE EpollReturns
      BY <1>2, <2>0, <2>14 DEF EpollReturns
    <2>15. CASE EpollTimeout
      BY <1>2, <2>0, <2>15 DEF EpollTimeout
    <2>16. CASE Dispatch
      BY <1>2, <2>0, <2>16 DEF Dispatch
    <2>17. CASE DispatchDone
      BY <1>2, <2>0, <2>17 DEF DispatchDone
    <2>18. CASE SwapDestroy
      BY <1>2, <2>0, <2>18 DEF SwapDestroy, Destroy
    <2>19. ASSUME NEW f \in Fds, Arrive(f) \/ HangUp(f)
           PROVE  WakeupCoversStop'
      BY <1>2, <2>19 DEF Arrive, HangUp
    <2>20. CASE UNCHANGED vars
      BY <1>2, <2>20 DEF vars
    <2> QED
      BY <1>2, <2>1, <2>2, <2>3, <2>4, <2>5, <2>6, <2>7, <2>8, <2>9, <2>10,
         <2>11, <2>12, <2>13, <2>14, <2>15, <2>16, <2>17, <2>18, <2>19, <2>20
      DEF Next, LoopStep, PosterStep
  <1> QED
    BY <1>1, <1>2, Typing, PTL DEF Spec, SafeSpec, LoopInv

-----------------------------------------------------------------------------
(* The guards on the queue's mutex.                                        *)

\* Where the guard of a thread's addTask is when the thread is at x, and where
\* that of loop() is when the loop is at x.
CallStage(x) ==
  IF x = "push_lock" THEN "waiting"
  ELSE IF x \in {"push", "push_unlock"} THEN "held"
  ELSE IF x \in {"push_wakeup", "push_dtor"} THEN "released"
  ELSE "out"

LoopStage(x) ==
  IF x = "swap_lock" THEN "waiting"
  ELSE IF x \in {"swap", "swap_unlock"} THEN "held"
  ELSE IF x \in {"top", "ended"} THEN "out"
  ELSE "released"

StageAt(p, g) == IF g = LoopScope THEN LoopStage(p[Loop]) ELSE CallStage(p[g])

Flag(stage) == stage \in {"held", "released"}

LEMMA FlagValues ==
  /\ Flag("out") = FALSE /\ Flag("waiting") = FALSE
  /\ Flag("held") = TRUE /\ Flag("released") = TRUE
  BY DEF Flag

LEMMA StagesFollowPoints ==
  TypeOK => \A g \in Guards : Stage(g) = StageAt(pc, g)
  <1> SUFFICES ASSUME TypeOK, NEW g \in Guards PROVE Stage(g) = StageAt(pc, g)
    OBVIOUS
  <1>0. pc \in [Threads -> PosterPoints \cup LoopPoints]
    BY DEF TypeOK
  <1>1. CASE g = LoopScope
    BY <1>1, <1>0 DEF Stage, StageAt, LoopStage
  <1>2. CASE g # LoopScope
    <2>1. pc[g] \in PosterPoints \cup LoopPoints
      BY <1>0, <1>2 DEF Guards
    <2> QED
      BY <1>2, <2>1 DEF Stage, StageAt, CallStage, PosterPoints, LoopPoints
  <1> QED
    BY <1>1, <1>2

\* The state functions EventLoop gives to ScopeMutex.
Scope == [g \in Guards |-> StageAt(pc, g)]
Flags == [g \in Guards |-> Flag(StageAt(pc, g))]

MappedScope == [g \in Guards |-> Stage(g)]
MappedFlags == [g \in Guards |-> Stage(g) \in {"held", "released"}]

StagesMapped == MappedScope = Scope /\ MappedFlags = Flags

LEMMA MappedStages == TypeOK => StagesMapped
  BY StagesFollowPoints DEF StagesMapped, Scope, Flags, Flag, MappedScope, MappedFlags

\* A step that moves one guard.
LEMMA OneGuardMoves ==
  ASSUME NEW g \in Guards, NEW s,
         \A h \in Guards : StageAt(pc', h) = IF h = g THEN s ELSE StageAt(pc, h)
  PROVE  /\ Scope' = [Scope EXCEPT ![g] = s]
         /\ Flags' = [Flags EXCEPT ![g] = Flag(s)]
         /\ Scope[g] = StageAt(pc, g)
         /\ Flags[g] = Flag(StageAt(pc, g))
  BY DEF Scope, Flags

\* A guard that is held is that of a thread in the section.
LEMMA HeldInSection ==
  ASSUME TypeOK, ThreadsInv, NEW t \in Threads, ~InSection(t)
  PROVE  (\E h \in Guards : Scope[h] = "held") <=> ~Alone(t)
  <1> USE LoopAssumption
  <1>1. ASSUME NEW h \in Guards, Scope[h] = "held" PROVE ~Alone(t)
    <2>1. StageAt(pc, h) = "held"
      BY <1>1 DEF Scope
    <2>2. CASE h = LoopScope
      <3>1. InSection(Loop)
        BY <2>1, <2>2 DEF StageAt, LoopStage, InSection
      <3> QED
        BY <3>1 DEF Alone, Threads
    <2>3. CASE h # LoopScope
      <3>1. InSection(h) /\ h \in Threads
        BY <2>1, <2>3 DEF StageAt, CallStage, InSection, Guards
      <3> QED
        BY <3>1 DEF Alone
    <2> QED
      BY <2>2, <2>3
  <1>2. ASSUME NEW u \in Threads, InSection(u)
        PROVE  \E h \in Guards : Scope[h] = "held"
    <2>1. CASE pc[u] \in {"push", "push_unlock"}
      <3>1. u \in Guards /\ u # LoopScope
        BY DEF Guards, Threads
      <3> QED
        BY <2>1, <3>1 DEF Scope, StageAt, CallStage
    <2>2. CASE pc[u] \in {"swap", "swap_unlock"}
      <3>1. u = Loop
        BY <2>2 DEF ThreadsInv, PosterPoints, Threads
      <3>2. LoopScope \in Guards
        BY DEF Guards
      <3> QED
        BY <2>2, <3>1, <3>2 DEF Scope, StageAt, LoopStage
    <2> QED
      BY <1>2, <2>1, <2>2 DEF InSection
  <1> QED
    BY <1>1, <1>2 DEF Alone

\* The steps of ScopeMutex on the mapped state.
Enters(g) ==
  /\ Scope[g] = "out" /\ Scope' = [Scope EXCEPT ![g] = "waiting"]
  /\ UNCHANGED <<Flags, m_mutex, stolen>>
Constructs(g) ==
  /\ Scope[g] = "waiting" /\ ~m_mutex /\ m_mutex' = TRUE
  /\ Flags' = [Flags EXCEPT ![g] = TRUE] /\ Scope' = [Scope EXCEPT ![g] = "held"]
  /\ UNCHANGED stolen
Unlocks(g) ==
  /\ Scope[g] = "held" /\ Flags[g] /\ m_mutex' = FALSE
  /\ Scope' = [Scope EXCEPT ![g] = "released"] /\ UNCHANGED <<Flags, stolen>>
Destroys(g) ==
  /\ Scope[g] = "released" /\ m_mutex' = FALSE
  /\ Flags' = [Flags EXCEPT ![g] = FALSE] /\ Scope' = [Scope EXCEPT ![g] = "out"]
  /\ stolen' = (stolen \/ \E h \in Guards : Scope[h] = "held")
Invisible == UNCHANGED <<Scope, Flags, m_mutex, stolen>>

GuardStep ==
  \/ \E g \in Guards : Enters(g) \/ Constructs(g) \/ Unlocks(g) \/ Destroys(g)
  \/ Invisible

\* A thread moves between points that differ for its addTask's guard only.
LEMMA CallMoves ==
  ASSUME TypeOK, NEW t \in Threads, NEW here, NEW there, Goto(t, here, there),
         t = Loop => LoopStage(here) = LoopStage(there)
  PROVE  /\ t \in Guards
         /\ Scope' = [Scope EXCEPT ![t] = CallStage(there)]
         /\ Flags' = [Flags EXCEPT ![t] = Flag(CallStage(there))]
         /\ Scope[t] = CallStage(here)
         /\ Flags[t] = Flag(CallStage(here))
  <1>1. t \in Guards /\ t # LoopScope /\ Loop \in Threads
    BY LoopAssumption DEF Guards, Threads
  <1>2. pc[t] = here /\ pc' = [pc EXCEPT ![t] = there] /\ DOMAIN pc = Threads
    BY DEF Goto, TypeOK
  <1>3. \A h \in Guards :
          StageAt(pc', h) = IF h = t THEN CallStage(there) ELSE StageAt(pc, h)
    BY <1>1, <1>2 DEF StageAt, Guards
  <1>4. StageAt(pc, t) = CallStage(here)
    BY <1>1, <1>2 DEF StageAt
  <1> QED
    BY <1>1, <1>3, <1>4, OneGuardMoves

\* The loop moves between points that differ for loop()'s guard only.
LEMMA LoopMoves ==
  ASSUME TypeOK, NEW here, NEW there, Goto(Loop, here, there),
         CallStage(here) = CallStage(there)
  PROVE  /\ LoopScope \in Guards
         /\ Scope' = [Scope EXCEPT ![LoopScope] = LoopStage(there)]
         /\ Flags' = [Flags EXCEPT ![LoopScope] = Flag(LoopStage(there))]
         /\ Scope[LoopScope] = LoopStage(here)
         /\ Flags[LoopScope] = Flag(LoopStage(here))
  <1>1. LoopScope \in Guards /\ Loop \in Threads /\ Loop # LoopScope
    BY LoopAssumption DEF Guards, Threads
  <1>2. pc[Loop] = here /\ pc' = [pc EXCEPT ![Loop] = there] /\ DOMAIN pc = Threads
    BY DEF Goto, TypeOK
  <1>3. \A h \in Guards :
          StageAt(pc', h) = IF h = LoopScope THEN LoopStage(there) ELSE StageAt(pc, h)
    BY <1>1, <1>2 DEF StageAt, Guards
  <1>4. StageAt(pc, LoopScope) = LoopStage(here)
    BY <1>2 DEF StageAt
  <1> QED
    BY <1>1, <1>3, <1>4, OneGuardMoves

\* Giving a function the value it has changes nothing.
LEMMA NoUpdate ==
  ASSUME NEW D, NEW f, f = [d \in D |-> f[d]], NEW x \in D, NEW y, f[x] = y
  PROVE  [f EXCEPT ![x] = y] = f
  OBVIOUS

LEMMA MappedDomains ==
  /\ Scope = [g \in Guards |-> Scope[g]]
  /\ Flags = [g \in Guards |-> Flags[g]]
  BY Zenon DEF Scope, Flags

\* A step that leaves the guards where they are, or enters one.
LEMMA SameStage ==
  ASSUME NEW g \in Guards, NEW old, NEW new,
         Scope[g] = old, Flags[g] = Flag(old),
         Scope' = [Scope EXCEPT ![g] = new], Flags' = [Flags EXCEPT ![g] = Flag(new)]
  PROVE  /\ old = new => Scope' = Scope
         /\ Flag(old) = Flag(new) => Flags' = Flags
  <1>1. [Scope EXCEPT ![g] = old] = Scope
    BY NoUpdate, MappedDomains, Zenon
  <1>2. [Flags EXCEPT ![g] = Flag(old)] = Flags
    BY NoUpdate, MappedDomains, Zenon
  <1> QED
    BY <1>1, <1>2

\* Each step of the program is one of them.
LEMMA StepsOfGuards ==
  ASSUME TypeOK, ThreadsInv, [Next]_vars
  PROVE  GuardStep
  <1> USE LoopAssumption
  <1>1. ASSUME NEW t \in Threads, PushLock(t) PROVE GuardStep
    <2>1. Goto(t, "push_lock", "push") /\ ~m_mutex /\ m_mutex' = TRUE /\ stolen' = stolen
      BY <1>1 DEF PushLock, Acquire
    <2>2. Constructs(t) /\ t \in Guards
      BY <2>1, CallMoves DEF CallStage, LoopStage, Flag, Constructs
    <2> QED
      BY <2>2 DEF GuardStep
  <1>2. ASSUME NEW t \in Threads, Push(t) PROVE GuardStep
    <2>1. Goto(t, "push", "push_unlock") /\ UNCHANGED <<m_mutex, stolen>>
      BY <1>2 DEF Push
    <2>2. Invisible
      BY <2>1, CallMoves, SameStage DEF CallStage, LoopStage, Invisible
    <2> QED
      BY <2>2 DEF GuardStep
  <1>3. ASSUME NEW t \in Threads, PushUnlock(t) PROVE GuardStep
    <2> DEFINE there == IF t = Loop THEN "push_dtor" ELSE "push_wakeup"
    <2>1. Goto(t, "push_unlock", there) /\ m_mutex' = FALSE /\ stolen' = stolen
      BY <1>3 DEF PushUnlock, Unlock
    <2>2. CallStage(there) = "released" /\ LoopStage(there) = LoopStage("push_unlock")
      BY DEF CallStage, LoopStage
    <2> HIDE DEF there
    <2>3. /\ t \in Guards
          /\ Scope' = [Scope EXCEPT ![t] = "released"] /\ Scope[t] = "held"
          /\ Flags[t] = Flag("held") /\ Flags' = [Flags EXCEPT ![t] = Flag("released")]
      BY <2>1, <2>2, CallMoves DEF CallStage
    <2>4. Flags' = Flags
      BY <2>3, SameStage, FlagValues
    <2>5. Unlocks(t)
      BY <2>1, <2>3, <2>4 DEF Unlocks, Flag
    <2> QED
      BY <2>3, <2>5 DEF GuardStep
  <1>4. ASSUME NEW t \in Threads, PushDestroy(t) PROVE GuardStep
    <2> DEFINE there == IF t = Loop THEN "dispatch" ELSE "idle"
    <2>1. /\ Goto(t, "push_dtor", there) /\ m_mutex' = FALSE
          /\ stolen' = (stolen \/ ~Alone(t))
      BY <1>4 DEF PushDestroy, Destroy
    <2>2. CallStage(there) = "out" /\ (t = Loop => LoopStage(there) = LoopStage("push_dtor"))
      BY DEF CallStage, LoopStage
    <2>3. ~InSection(t)
      BY <2>1 DEF Goto, InSection
    <2> HIDE DEF there
    <2>4. /\ t \in Guards
          /\ Scope' = [Scope EXCEPT ![t] = "out"] /\ Scope[t] = "released"
          /\ Flags' = [Flags EXCEPT ![t] = Flag("out")]
      BY <2>1, <2>2, CallMoves DEF CallStage
    <2>5. ~Alone(t) <=> \E h \in Guards : Scope[h] = "held"
      BY <2>3, HeldInSection
    <2>6. Destroys(t)
      BY <2>1, <2>4, <2>5, FlagValues DEF Destroys
    <2> QED
      BY <2>4, <2>6 DEF GuardStep
  <1>5. ASSUME NEW p \in Posters, PushWakeup(p) \/ CallStop(p) \/ StopWakeup(p)
        PROVE  GuardStep
    <2>0. p \in Threads /\ p # Loop
      BY DEF Threads
    <2>1. PICK here, there : /\ Goto(p, here, there)
                             /\ CallStage(here) = CallStage(there)
                             /\ UNCHANGED <<m_mutex, stolen>>
      <3>1. CASE PushWakeup(p)
        BY <3>1 DEF PushWakeup, CallStage
      <3>2. CASE CallStop(p)
        BY <3>2 DEF CallStop, CallStage
      <3>3. CASE StopWakeup(p)
        BY <3>3 DEF StopWakeup, CallStage
      <3> QED
        BY <1>5, <3>1, <3>2, <3>3
    <2>2. Invisible
      BY <2>0, <2>1, CallMoves, SameStage DEF Invisible
    <2> QED
      BY <2>2 DEF GuardStep
  <1>6. ASSUME NEW p \in Posters, CallAddTask(p) PROVE GuardStep
    <2>1. /\ Goto(p, "idle", "push_lock") /\ UNCHANGED <<m_mutex, stolen>>
          /\ p \in Threads /\ p # Loop
      BY <1>6 DEF CallAddTask, Threads
    <2>2. /\ p \in Guards
          /\ Scope' = [Scope EXCEPT ![p] = "waiting"] /\ Scope[p] = "out"
          /\ Flags[p] = Flag("out") /\ Flags' = [Flags EXCEPT ![p] = Flag("waiting")]
      BY <2>1, CallMoves DEF CallStage
    <2>3. Flags' = Flags
      BY <2>2, SameStage, FlagValues
    <2> QED
      BY <2>1, <2>2, <2>3 DEF GuardStep, Enters
  <1>7. CASE TestStop
    <2> DEFINE there == IF m_stop_flag THEN "ended" ELSE "swap_lock"
    <2>1. Goto(Loop, "top", there) /\ UNCHANGED <<m_mutex, stolen>>
      BY <1>7 DEF TestStop
    <2>2. CallStage(there) = CallStage("top") /\ LoopStage(there) \in {"out", "waiting"}
      BY DEF CallStage, LoopStage
    <2> HIDE DEF there
    <2>3. /\ LoopScope \in Guards
          /\ Scope' = [Scope EXCEPT ![LoopScope] = LoopStage(there)]
          /\ Scope[LoopScope] = "out" /\ Flags[LoopScope] = Flag("out")
          /\ Flags' = [Flags EXCEPT ![LoopScope] = Flag(LoopStage(there))]
      BY <2>1, <2>2, LoopMoves DEF LoopStage
    <2>4. Flags' = Flags
      BY <2>2, <2>3, SameStage, FlagValues
    <2>5. CASE LoopStage(there) = "out"
      BY <2>1, <2>3, <2>4, <2>5, SameStage DEF GuardStep, Invisible
    <2>6. CASE LoopStage(there) = "waiting"
      BY <2>1, <2>3, <2>4, <2>6 DEF GuardStep, Enters
    <2> QED
      BY <2>2, <2>5, <2>6
  <1>8. CASE SwapLock
    <2>1. /\ Goto(Loop, "swap_lock", "swap")
          /\ ~m_mutex /\ m_mutex' = TRUE /\ stolen' = stolen
      BY <1>8 DEF SwapLock, Acquire
    <2>2. /\ LoopScope \in Guards
          /\ Scope' = [Scope EXCEPT ![LoopScope] = "held"]
          /\ Scope[LoopScope] = "waiting"
          /\ Flags' = [Flags EXCEPT ![LoopScope] = Flag("held")]
      BY <2>1, LoopMoves DEF CallStage, LoopStage
    <2>3. Constructs(LoopScope)
      BY <2>1, <2>2, FlagValues DEF Constructs
    <2> QED
      BY <2>2, <2>3 DEF GuardStep
  <1>9. CASE SwapUnlock
    <2>1. Goto(Loop, "swap_unlock", "run") /\ m_mutex' = FALSE /\ stolen' = stolen
      BY <1>9 DEF SwapUnlock, Unlock
    <2>2. /\ LoopScope \in Guards
          /\ Scope' = [Scope EXCEPT ![LoopScope] = "released"]
          /\ Scope[LoopScope] = "held" /\ Flags[LoopScope] = Flag("held")
          /\ Flags' = [Flags EXCEPT ![LoopScope] = Flag("released")]
      BY <2>1, LoopMoves DEF CallStage, LoopStage
    <2>3. Flags' = Flags
      BY <2>2, SameStage, FlagValues
    <2>4. Unlocks(LoopScope)
      BY <2>1, <2>2, <2>3 DEF Unlocks, Flag
    <2> QED
      BY <2>2, <2>4 DEF GuardStep
  <1>10. CASE SwapDestroy
    <2>1. /\ Goto(Loop, "swap_dtor", "top") /\ m_mutex' = FALSE
          /\ stolen' = (stolen \/ ~Alone(Loop)) /\ Loop \in Threads
      BY <1>10 DEF SwapDestroy, Destroy, Threads
    <2>2. ~InSection(Loop)
      BY <2>1 DEF Goto, InSection
    <2>3. /\ LoopScope \in Guards
          /\ Scope' = [Scope EXCEPT ![LoopScope] = "out"]
          /\ Scope[LoopScope] = "released"
          /\ Flags' = [Flags EXCEPT ![LoopScope] = Flag("out")]
      BY <2>1, LoopMoves DEF CallStage, LoopStage
    <2>4. ~Alone(Loop) <=> \E h \in Guards : Scope[h] = "held"
      BY <2>1, <2>2, HeldInSection
    <2>5. Destroys(LoopScope)
      BY <2>1, <2>3, <2>4, FlagValues DEF Destroys
    <2> QED
      BY <2>3, <2>5 DEF GuardStep
  <1>11. CASE Swap \/ RunDone \/ EpollReturns \/ EpollTimeout \/ DispatchDone
    <2>1. PICK here, there : /\ Goto(Loop, here, there)
                             /\ CallStage(here) = CallStage(there)
                             /\ LoopStage(here) = LoopStage(there)
                             /\ UNCHANGED <<m_mutex, stolen>>
      <3>1. CASE Swap
        BY <3>1 DEF Swap, CallStage, LoopStage
      <3>2. CASE RunDone
        BY <3>2 DEF RunDone, CallStage, LoopStage
      <3>3. CASE EpollReturns
        BY <3>3 DEF EpollReturns, CallStage, LoopStage
      <3>4. CASE EpollTimeout
        BY <3>4 DEF EpollTimeout, CallStage, LoopStage
      <3>5. CASE DispatchDone
        BY <3>5 DEF DispatchDone, CallStage, LoopStage
      <3> QED
        BY <1>11, <3>1, <3>2, <3>3, <3>4, <3>5
    <2>2. Invisible
      BY <2>1, LoopMoves, SameStage DEF Invisible
    <2> QED
      BY <2>2 DEF GuardStep
  <1>12. CASE Dispatch
    <2>1. PICK e \in events : /\ Goto(Loop, "dispatch",
                                      IF e.in THEN "push_lock" ELSE "dispatch")
                              /\ UNCHANGED <<m_mutex, stolen>>
      BY <1>12 DEF Dispatch
    <2> DEFINE there == IF e.in THEN "push_lock" ELSE "dispatch"
    <2>2. CallStage(there) \in {"out", "waiting"} /\ LoopStage(there) = LoopStage("dispatch")
      BY DEF CallStage, LoopStage
    <2>3. Goto(Loop, "dispatch", there) /\ Loop \in Threads
      BY <2>1 DEF Threads
    <2> HIDE DEF there
    <2>4. /\ Loop \in Guards
          /\ Scope' = [Scope EXCEPT ![Loop] = CallStage(there)]
          /\ Scope[Loop] = "out" /\ Flags[Loop] = Flag("out")
          /\ Flags' = [Flags EXCEPT ![Loop] = Flag(CallStage(there))]
      BY <2>2, <2>3, CallMoves DEF CallStage
    <2>5. Flags' = Flags
      BY <2>2, <2>4, SameStage, FlagValues
    <2>6. CASE CallStage(there) = "out"
      BY <2>1, <2>4, <2>5, <2>6, SameStage DEF GuardStep, Invisible
    <2>7. CASE CallStage(there) = "waiting"
      BY <2>1, <2>4, <2>5, <2>7 DEF GuardStep, Enters
    <2> QED
      BY <2>2, <2>6, <2>7
  <1>13. ASSUME UNCHANGED <<pc, m_mutex, stolen>> PROVE GuardStep
    BY <1>13 DEF GuardStep, Invisible, Scope, Flags
  <1>14. CASE RunTask \/ (\E f \in Fds : Arrive(f) \/ HangUp(f)) \/ UNCHANGED vars
    BY <1>13, <1>14 DEF RunTask, Arrive, HangUp, vars
  <1> QED
    BY <1>1, <1>2, <1>3, <1>4, <1>5, <1>6, <1>7, <1>8, <1>9, <1>10, <1>11, <1>12,
       <1>14 DEF Next, LoopStep, PosterStep, Threads

\* addTask and loop() use the queue's mutex as ScopeMutex describes, every
\* guard calling unlock(): each step is a step of one guard or invisible to
\* all of them, for any number of threads.
THEOREM GuardsAreScopeMutex == Spec => UsesScopeMutex
  <1> USE LoopAssumption
  <1>1. ASSUME Init, TypeOK PROVE MutexImpl!Init
    <2>1. /\ Scope = [g \in Guards |-> "out"]
          /\ Flags = [g \in Guards |-> FALSE]
      <3>1. \A g \in Guards : StageAt(pc, g) = "out"
        BY <1>1 DEF Init, StageAt, CallStage, LoopStage, Guards, Threads
      <3> QED
        BY <3>1, FlagValues DEF Scope, Flags
    <2> QED
      BY <1>1, <2>1, MappedStages
      DEF Init, MutexImpl!Init, StagesMapped, MappedScope, MappedFlags
  <1>2. TypeOK' => StagesMapped'
    BY MappedStages, PTL
  <1>3. ASSUME TypeOK, TypeOK', ThreadsInv, [Next]_vars
        PROVE  [MutexImpl!Next]_(MutexImpl!vars)
    <2>1. MappedScope = Scope /\ MappedFlags = Flags
      BY <1>3, MappedStages DEF StagesMapped
    <2>2. MappedScope' = Scope' /\ MappedFlags' = Flags'
      BY <1>2, <1>3 DEF StagesMapped
    <2>3. GuardStep
      BY <1>3, StepsOfGuards
    <2> QED
      BY <2>1, <2>2, <2>3
      DEF GuardStep, Enters, Constructs, Unlocks, Destroys, Invisible, MappedScope,
          MappedFlags, MutexImpl!Next, MutexImpl!vars, MutexImpl!Enter, MutexImpl!Construct,
          MutexImpl!Unlock, MutexImpl!Destroy, MutexImpl!Held
  <1> QED
    BY <1>1, <1>3, Typing, PTL
    DEF Spec, SafeSpec, LoopInv, UsesScopeMutex, MutexImpl!SafeSpec
=============================================================================
