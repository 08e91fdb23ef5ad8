------------------------- MODULE AsyncLogger_proofs -------------------------
(* AsyncLogger for any bounds.                                               *)
EXTENDS AsyncLogger, TLAPS

-----------------------------------------------------------------------------
(* The inductive invariant.                                                *)

\* A thread in a section has locked its mutex, and no other thread is in it.
Exclusive ==
  ~stolen => \A t \in Threads, m \in Mutexes : Inside(t, m) => mutex[m] /\ Alone(t, m)

\* Types, and how the open file goes with the date and the number.
PipelineInv ==
  /\ LogInv /\ Exclusive
  /\ today \in Nat \ {0} /\ starts \in Nat \ {0} /\ logged \in Nat
  /\ files \in [DOMAIN files -> Seq(Lines)]
  /\ overruns \in [DOMAIN files -> Nat]
  /\ \A f \in DOMAIN files : f.date <= today
  /\ m_file_handler = None => m_date = 0 /\ m_no = 0
  /\ m_file_handler # None => m_date > 0

\* The files this run of the process may still roll over to.
Ahead(f) == f.date > m_date \/ (f.date = m_date /\ f.no >= m_no)

\* A run overruns a file only when it rolls over to it, which it does once: the
\* file is then no longer ahead.  A run has filled none of the files still ahead
\* of it but a date's first.
Limit(f) == IF f.no = 0 THEN starts ELSE starts - 1
OverrunInv ==
  \A f \in DOMAIN files : overruns[f] + (IF Ahead(f) THEN 1 ELSE 0) <= Limit(f)

\* Lines of this run in rising order.
Rising(s) ==
  /\ \A i \in DOMAIN s : s[i].run = starts /\ s[i].n <= logged
  /\ \A i, j \in DOMAIN s : i < j => s[i].n < s[j].n
Under(s, t) == \A i \in DOMAIN s, j \in DOMAIN t : s[i].n < t[j].n
WrittenUnder(s) ==
  \A f \in DOMAIN files : \A i \in DOMAIN files[f], j \in DOMAIN s :
    files[f][i].run = starts => files[f][i].n < s[j].n

\* The lines on their way are in rising order, from the files to the buffer.
OrderInv ==
  /\ Rising(tmp) /\ Rising(tmp_vec) /\ Rising(m_buffer)
  /\ Under(tmp, tmp_vec) /\ Under(tmp, m_buffer) /\ Under(tmp_vec, m_buffer)
  /\ \A k \in DOMAIN batches :
       /\ Rising(batches[k])
       /\ Under(tmp, batches[k]) /\ Under(batches[k], tmp_vec) /\ Under(batches[k], m_buffer)
  /\ \A k, l \in DOMAIN batches : k < l => Under(batches[k], batches[l])
  /\ WrittenUnder(tmp) /\ WrittenUnder(tmp_vec) /\ WrittenUnder(m_buffer)
  /\ \A k \in DOMAIN batches : WrittenUnder(batches[k])

\* This run has written to no file behind the open one.
FileInv ==
  \A f \in DOMAIN files : \A i \in DOMAIN files[f] :
    /\ files[f][i].run <= starts
    /\ files[f][i].run = starts =>
         /\ files[f][i].n <= logged
         /\ m_file_handler # None
         /\ f = m_file_handler \/ f.date < m_file_handler.date
              \/ (f.date = m_file_handler.date /\ f.no < m_file_handler.no)

\* The line is in a file or on its way.
In(l, s) == \E i \in DOMAIN s : s[i] = l
Kept ==
  ~stolen =>
    \A n \in 1..logged :
      \/ Written(Line(n)) \/ In(Line(n), tmp) \/ In(Line(n), tmp_vec) \/ In(Line(n), m_buffer)
      \/ \E k \in DOMAIN batches : In(Line(n), batches[k])

-----------------------------------------------------------------------------
(* The guards.                                                             *)

LEMMA ThreadsDiffer ==
  /\ Syncer \in Threads /\ Writer \in Threads /\ Syncer # Writer
  /\ \A p \in Loggers : p \in Threads /\ p # Syncer /\ p # Writer
  BY LoggerAssumption DEF Threads

\* A thread that goes on moves no other.
LEMMA Moves ==
  ASSUME LogInv, NEW t \in Threads, NEW here, NEW there \in Points, Goto(t, here, there)
  PROVE  /\ pc' \in [Threads -> Points] /\ pc[t] = here /\ pc'[t] = there
         /\ \A u \in Threads \ {t} : pc'[u] = pc[u]
  BY DEF LogInv, Goto

\* What the steps of the guards alone leave as it is.
Guarding ==
  \/ \E p \in Loggers : LogLock(p) \/ LogDestroy(p)
  \/ SyncLock \/ SyncDestroy \/ QueueLock \/ QueueDestroy
  \/ WriterLock \/ TestEmpty \/ Wait \/ WakeUp \/ WriterDestroy

LEMMA GuardingKeeps ==
  ASSUME LogInv, Guarding
  PROVE  /\ UNCHANGED <<lines, disk, today, logged, starts>>
         /\ stolen' \in BOOLEAN /\ (~stolen' => ~stolen)
         /\ mutex' \in [Mutexes -> BOOLEAN]
  <1>1. mutex \in [Mutexes -> BOOLEAN] /\ stolen \in BOOLEAN
    BY DEF LogInv
  <1>2. ASSUME NEW t, NEW m, NEW here, NEW there, Lock(t, m, here, there)
        PROVE  /\ UNCHANGED <<lines, disk, today, logged, starts, stolen>>
               /\ mutex' \in [Mutexes -> BOOLEAN]
    BY <1>1, <1>2 DEF Lock
  <1>3. ASSUME NEW t, NEW m, NEW here, NEW there, Destroy(t, m, here, there)
        PROVE  /\ UNCHANGED <<lines, disk, today, logged, starts>>
               /\ stolen' \in BOOLEAN /\ (~stolen' => ~stolen)
               /\ mutex' \in [Mutexes -> BOOLEAN]
    <2>1. mutex' \in [Mutexes -> BOOLEAN]
      BY <1>1, <1>3 DEF Destroy, Unlock
    <2>2. stolen' \in BOOLEAN /\ (~stolen' => ~stolen)
      BY <1>1, <1>3, Zenon DEF Destroy
    <2> QED
      BY <1>3, <2>1, <2>2 DEF Destroy
  <1>4. CASE \/ \E p \in Loggers : LogLock(p) \/ LogDestroy(p)
             \/ SyncLock \/ SyncDestroy \/ QueueLock \/ QueueDestroy
             \/ WriterLock \/ WriterDestroy
    BY <1>1, <1>2, <1>3, <1>4 DEF LogLock, LogDestroy, SyncLock, SyncDestroy, QueueLock,
       QueueDestroy, WriterLock, WriterDestroy
  <1>5. CASE TestEmpty \/ Wait \/ WakeUp
    BY <1>1, <1>5 DEF TestEmpty, Wait, WakeUp, Unlock
  <1> QED
    BY <1>4, <1>5 DEF Guarding

\* Every step is one of these.
LEMMA Steps ==
  ASSUME PipelineInv, [Next]_vars
  PROVE  \/ \E p \in Loggers : pushLog(p)
         \/ SyncSwap \/ pushLogBuffer \/ TakeBatch \/ WriteBatch \/ NextDay \/ Restart
         \/ /\ Guarding \/ UNCHANGED vars
            /\ UNCHANGED <<lines, disk, today, logged, starts>>
            /\ ~stolen' => ~stolen
  <1>1. CASE Guarding
    BY <1>1, GuardingKeeps DEF PipelineInv
  <1>2. CASE UNCHANGED vars
    BY <1>2 DEF vars
  <1> QED
    BY <1>1, <1>2 DEF Next, LoggerStep, SyncStep, WriterStep, Guarding

LEMMA StolenBoolean == PipelineInv => stolen \in BOOLEAN
  BY DEF PipelineInv, LogInv

\* A mutex nobody has locked lets one thread in.
LEMMA LockKeeps ==
  ASSUME LogInv, Exclusive, NEW t \in Threads, NEW m \in Mutexes, NEW here,
         NEW there \in Points, Lock(t, m, here, there),
         \A k \in Mutexes : k # m => there \notin Section[k]
  PROVE  Exclusive'
  <1> SUFFICES ASSUME ~stolen', NEW u \in Threads, NEW k \in Mutexes, Inside(u, k)'
               PROVE  mutex'[k] /\ Alone(u, k)'
    BY DEF Exclusive
  <1>1. /\ pc'[t] = there /\ \A v \in Threads \ {t} : pc'[v] = pc[v]
    BY Moves DEF Lock
  <1>2. /\ ~stolen /\ ~mutex[m] /\ mutex'[m] /\ \A l \in Mutexes : l # m => mutex'[l] = mutex[l]
    BY DEF Lock, LogInv
  <1>3. \A v \in Threads : ~Inside(v, m)
    BY <1>2 DEF Exclusive
  <1>4. \A v \in Threads \ {t}, l \in Mutexes : Inside(v, l)' <=> Inside(v, l)
    BY <1>1 DEF Inside
  <1>5. \A l \in Mutexes : l # m => ~Inside(t, l)'
    BY <1>1 DEF Inside
  <1> HIDE DEF Inside
  <1>6. CASE k = m
    BY <1>2, <1>3, <1>4, <1>6 DEF Alone
  <1>7. CASE k # m
    <2>1. u # t /\ Inside(u, k)
      BY <1>4, <1>5, <1>7
    <2>2. mutex[k] /\ Alone(u, k)
      BY <1>2, <2>1 DEF Exclusive
    <2> QED
      BY <1>2, <1>4, <1>5, <1>7, <2>2 DEF Alone
  <1> QED
    BY <1>6, <1>7

\* A thread that unlocks leaves its section empty, unless it releases another's lock.
LEMMA ReleaseKeeps ==
  ASSUME LogInv, Exclusive, NEW t \in Threads, NEW m \in Mutexes, Unlock(m),
         \A k \in Mutexes : ~Inside(t, k)',
         \A u \in Threads \ {t}, k \in Mutexes : Inside(u, k)' => Inside(u, k),
         ~stolen' => ~stolen /\ Alone(t, m)
  PROVE  Exclusive'
  <1> SUFFICES ASSUME ~stolen', NEW u \in Threads, NEW k \in Mutexes, Inside(u, k)'
               PROVE  mutex'[k] /\ Alone(u, k)'
    BY DEF Exclusive
  <1> HIDE DEF Inside
  <1>1. u # t /\ Inside(u, k) /\ k # m
    BY DEF Alone
  <1>2. mutex[k] /\ Alone(u, k)
    BY <1>1 DEF Exclusive
  <1>3. mutex'[k] = mutex[k]
    BY <1>1 DEF Unlock, LogInv
  <1> QED
    BY <1>1, <1>2, <1>3 DEF Alone

\* A thread inside is alone there.
LEMMA InsideAlone ==
  ASSUME Exclusive, NEW t \in Threads, NEW m \in Mutexes, Inside(t, m)
  PROVE  ~stolen => Alone(t, m)
  BY DEF Exclusive

\* Nobody goes in, and nothing is unlocked.
LEMMA StayKeeps ==
  ASSUME Exclusive, mutex' = mutex, stolen' = stolen,
         \A u \in Threads, k \in Mutexes : Inside(u, k)' => Inside(u, k)
  PROVE  Exclusive'
  BY DEF Exclusive, Alone

\* A destructor steals nobody's lock, or says so.
LEMMA DestroyKeeps ==
  ASSUME LogInv, Exclusive, NEW t \in Threads, NEW m \in Mutexes, NEW here,
         NEW there \in Points, Destroy(t, m, here, there),
         \A k \in Mutexes : there \notin Section[k]
  PROVE  Exclusive'
  <1>1. pc'[t] = there /\ \A u \in Threads \ {t} : pc'[u] = pc[u]
    BY Moves DEF Destroy
  <1>2. Unlock(m) /\ (~stolen' => ~stolen /\ Alone(t, m))
    BY DEF Destroy
  <1>3. \A k \in Mutexes : ~Inside(t, k)'
    BY <1>1 DEF Inside
  <1>4. \A u \in Threads \ {t}, k \in Mutexes : Inside(u, k)' => Inside(u, k)
    BY <1>1 DEF Inside
  <1> HIDE DEF Inside
  <1> QED
    BY <1>2, <1>3, <1>4, ReleaseKeeps

\* A thread leaves a section it is alone in.
LEMMA LeaveKeeps ==
  ASSUME LogInv, Exclusive, NEW t \in Threads, NEW m \in Mutexes, NEW here \in Section[m],
         NEW there \in Points, Goto(t, here, there), Unlock(m), stolen' = stolen,
         \A k \in Mutexes : there \notin Section[k]
  PROVE  Exclusive'
  <1>1. pc[t] = here /\ pc'[t] = there /\ \A u \in Threads \ {t} : pc'[u] = pc[u]
    BY Moves
  <1>2. Inside(t, m)
    BY <1>1 DEF Inside
  <1>3. \A k \in Mutexes : ~Inside(t, k)'
    BY <1>1 DEF Inside
  <1>4. \A u \in Threads \ {t}, k \in Mutexes : Inside(u, k)' => Inside(u, k)
    BY <1>1 DEF Inside
  <1>5. ~stolen' => ~stolen /\ Alone(t, m)
    BY <1>2, InsideAlone
  <1> HIDE DEF Inside
  <1> QED
    BY <1>3, <1>4, <1>5, ReleaseKeeps

\* Where the program points are.
LEMMA Sections ==
  /\ Section["log"] = {"push", "swap"} /\ Section["queue"] = {"queue", "test", "wait"}
  /\ Mutexes = {"log", "queue"}
  BY DEF Section, Mutexes

LEMMA StepExclusive ==
  ASSUME PipelineInv, [Next]_vars
  PROVE  Exclusive'
  <1> USE ThreadsDiffer, Sections
  <1>0. LogInv /\ Exclusive
    BY DEF PipelineInv
  <1>1. ASSUME NEW p \in Loggers, LogLock(p)  PROVE Exclusive'
    BY <1>0, <1>1, LockKeeps DEF LogLock, Points
  <1>2. ASSUME NEW p \in Loggers, pushLog(p)  PROVE Exclusive'
    BY <1>0, <1>2, LeaveKeeps DEF pushLog, Points
  <1>3. ASSUME NEW p \in Loggers, LogDestroy(p)  PROVE Exclusive'
    BY <1>0, <1>3, DestroyKeeps DEF LogDestroy, Points
  <1>4. CASE SyncLock
    BY <1>0, <1>4, LockKeeps DEF SyncLock, Points
  <1>5. CASE SyncSwap
    <2> DEFINE there == IF m_buffer = <<>> THEN "swap_dtor" ELSE "queue_lock"
    <2>1. there \in Points /\ \A k \in Mutexes : there \notin Section[k]
      BY DEF Points
    <2>2. Goto(Syncer, "swap", there) /\ Unlock("log") /\ stolen' = stolen
      BY <1>5 DEF SyncSwap
    <2> HIDE DEF there
    <2> QED
      BY <1>0, <2>1, <2>2, LeaveKeeps
  <1>6. CASE QueueLock
    BY <1>0, <1>6, LockKeeps DEF QueueLock, Points
  <1>7. CASE pushLogBuffer
    <2>1. Unlock("queue") /\ stolen' = stolen /\ Inside(Syncer, "queue")
      BY <1>7 DEF pushLogBuffer, Inside
    <2>p. pc'[Syncer] = "queue_dtor"
      BY <1>0, <1>7 DEF pushLogBuffer, Signalled, LogInv
    <2>2. \A k \in Mutexes : ~Inside(Syncer, k)'
      BY <2>p DEF Inside
    <2>3. ASSUME NEW u \in Threads \ {Syncer}
          PROVE  pc'[u] = pc[u] \/ pc'[u] = "lock"
      BY <1>0, <1>7 DEF pushLogBuffer, Signalled, LogInv
    <2>4. \A u \in Threads \ {Syncer}, k \in Mutexes : Inside(u, k)' => Inside(u, k)
      BY <2>3 DEF Inside
    <2>5. ~stolen' => ~stolen /\ Alone(Syncer, "queue")
      BY <1>0, <2>1, InsideAlone
    <2> HIDE DEF Inside
    <2> QED
      BY <1>0, <2>1, <2>2, <2>4, <2>5, ReleaseKeeps
  <1>8. CASE QueueDestroy
    BY <1>0, <1>8, DestroyKeeps DEF QueueDestroy, Points
  <1>9. CASE SyncDestroy
    BY <1>0, <1>9, DestroyKeeps DEF SyncDestroy, Points
  <1>10. CASE WriterLock
    BY <1>0, <1>10, LockKeeps DEF WriterLock, Points
  <1>11. CASE TestEmpty
    <2>1. /\ pc[Writer] = "test" /\ pc'[Writer] = "wait"
          /\ \A u \in Threads \ {Writer} : pc'[u] = pc[u]
      BY <1>0, <1>11, Moves DEF TestEmpty, Points
    <2>2. \A u \in Threads, k \in Mutexes : Inside(u, k)' => Inside(u, k)
      BY <2>1 DEF Inside
    <2> QED
      BY <1>0, <1>11, <2>2, StayKeeps DEF TestEmpty
  <1>12. CASE Wait
    BY <1>0, <1>12, LeaveKeeps DEF Wait, Points
  <1>13. CASE WakeUp
    <2>1. pc'[Writer] = "lock" /\ \A u \in Threads \ {Writer} : pc'[u] = pc[u]
      BY <1>0, <1>13, Moves DEF WakeUp, Points
    <2>2. \A u \in Threads, k \in Mutexes : Inside(u, k)' => Inside(u, k)
      BY <2>1 DEF Inside
    <2> QED
      BY <1>0, <1>13, <2>2, StayKeeps DEF WakeUp
  <1>14. CASE TakeBatch
    BY <1>0, <1>14, LeaveKeeps DEF TakeBatch, Points
  <1>15. CASE WriteBatch
    <2>1. pc'[Writer] = "write_dtor" /\ \A u \in Threads \ {Writer} : pc'[u] = pc[u]
      BY <1>0, <1>15, Moves DEF WriteBatch, Points
    <2>2. \A u \in Threads, k \in Mutexes : Inside(u, k)' => Inside(u, k)
      BY <2>1 DEF Inside
    <2> QED
      BY <1>0, <1>15, <2>2, StayKeeps DEF WriteBatch
  <1>16. CASE WriterDestroy
    BY <1>0, <1>16, DestroyKeeps DEF WriterDestroy, Points
  <1>17. CASE Restart
    BY <1>17 DEF Restart, Start, Exclusive, Inside
  <1>18. CASE NextDay \/ UNCHANGED vars
    BY <1>0, <1>18 DEF NextDay, vars, Exclusive, Inside, Alone
  <1> QED
    BY <1>1, <1>2, <1>3, <1>4, <1>5, <1>6, <1>7, <1>8, <1>9, <1>10, <1>11, <1>12, <1>13,
       <1>14, <1>15, <1>16, <1>17, <1>18 DEF Next, LoggerStep, SyncStep, WriterStep

-----------------------------------------------------------------------------
(* The file a batch is written to.                                         *)

\* f comes after g in the order of names, or is g.
NotBefore(f, g) == f = g \/ g.date < f.date \/ (g.date = f.date /\ g.no < f.no)

\* The batch goes to the open file or a later one, of today; to one that is too
\* large only by a roll-over, which the next one does not repeat.
LEMMA Target ==
  ASSUME PipelineInv, WriteBatch
  PROVE  \E f \in Names :
           /\ WriteTo(f) /\ f.date = today
           /\ m_file_handler # None => NotBefore(f, m_file_handler)
           /\ m_no' \in Nat /\ m_no' \in {f.no, f.no + 1}
           /\ f.no = 0 \/ f = m_file_handler \/ m_no' = f.no + 1
           /\ \/ m_no' = f.no + 1 /\ f # m_file_handler /\ Ahead(f)
              \/ m_no' = f.no + 1 /\ f = m_file_handler /\ (Ahead(f) \/ ~TooLarge(f))
              \/ m_no' = f.no /\ ~TooLarge(f)
           /\ \A g \in Names : Ahead(g)' => Ahead(g)
  <1> DEFINE no == IF m_date # today THEN 0 ELSE m_no
             open == IF m_date # today \/ m_file_handler = None
                     THEN [date |-> today, no |-> no] ELSE m_file_handler
  <1>1. /\ today \in Nat /\ m_date \in 0..today /\ m_no \in Nat
        /\ m_date' = today /\ DOMAIN files \subseteq Names
        /\ m_file_handler # None => /\ m_file_handler \in Names
                                   /\ m_file_handler.date = m_date
                                   /\ m_no \in {m_file_handler.no, m_file_handler.no + 1}
        /\ m_file_handler = None => m_date = 0 /\ m_no = 0
        /\ today > 0
    BY DEF PipelineInv, LogInv, WriteBatch
  <1>2. \A g \in Names : g.date \in Nat /\ g.no \in Nat /\ g = [date |-> g.date, no |-> g.no]
    BY DEF Names
  <1>3. [date |-> today, no |-> no] \in Names
    BY <1>1 DEF Names
  <1>4. CASE TooLarge(open)
    <2> DEFINE f == [date |-> today, no |-> no]
    <2>1. WriteTo(f) /\ m_no' = no + 1
      BY <1>4 DEF WriteBatch
    <2>2. Ahead(f)
      BY <1>1 DEF Ahead
    <2>3. m_file_handler # None => NotBefore(f, m_file_handler)
      BY <1>1, <1>2 DEF NotBefore
    <2>4. \A g \in Names : Ahead(g)' => Ahead(g)
      BY <1>1, <1>2, <2>1 DEF Ahead
    <2> HIDE DEF open
    <2> QED
      BY <1>1, <1>3, <2>1, <2>2, <2>3, <2>4
  <1>5. CASE ~TooLarge(open)
    <2>1. WriteTo(open) /\ m_no' = no
      BY <1>5 DEF WriteBatch
    <2>2. open \in Names /\ open.date = today
      BY <1>1, <1>3
    <2>3. no \in {open.no, open.no + 1} /\ no \in Nat
      BY <1>1
    <2>4. open.no = 0 \/ open = m_file_handler
      BY <1>1
    <2>5. m_file_handler # None => NotBefore(open, m_file_handler)
      BY <1>1 DEF NotBefore
    <2>6. \A g \in Names : Ahead(g)' => Ahead(g)
      BY <1>1, <1>2, <2>1 DEF Ahead
    <2>7. no = open.no \/ open = m_file_handler
      BY <1>1
    <2> HIDE DEF open
    <2> QED
      BY <1>5, <2>1, <2>2, <2>3, <2>4, <2>5, <2>6, <2>7
  <1> QED
    BY <1>4, <1>5

LEMMA WriteEffect ==
  ASSUME PipelineInv, WriteBatch, NEW f \in Names, WriteTo(f)
  PROVE  /\ DOMAIN files' = DOMAIN files \cup {f} /\ DOMAIN overruns' = DOMAIN files'
         /\ files' \in [DOMAIN files' -> Seq(Lines)]
         /\ overruns' \in [DOMAIN files' -> Nat]
         /\ \A g \in DOMAIN files : g # f => files'[g] = files[g] /\ overruns'[g] = overruns[g]
         /\ files'[f] = Content(f) \o tmp /\ Content(f) \in Seq(Lines) /\ tmp \in Seq(Lines)
         /\ overruns'[f] = IF TooLarge(f) THEN Overruns(f) + 1 ELSE Overruns(f)
         /\ f \notin DOMAIN files => Overruns(f) = 0 /\ ~TooLarge(f)
         /\ f \in DOMAIN files => Overruns(f) = overruns[f] /\ Content(f) = files[f]
  <1>1. DOMAIN files' = DOMAIN files \cup {f} /\ DOMAIN overruns' = DOMAIN files \cup {f}
        /\ DOMAIN overruns = DOMAIN files /\ tmp \in Seq(Lines)
    BY DEF WriteTo, PipelineInv, LogInv
  <1>2. Content(f) \in Seq(Lines) /\ Overruns(f) \in Nat
    BY <1>1 DEF Content, Overruns, PipelineInv
  <1>3. files' \in [DOMAIN files' -> Seq(Lines)]
    BY <1>1, <1>2 DEF WriteTo, PipelineInv
  <1>4. overruns' \in [DOMAIN files' -> Nat]
    BY <1>1, <1>2 DEF WriteTo, PipelineInv, Overruns
  <1>5. f \notin DOMAIN files => ~TooLarge(f)
    BY LoggerAssumption DEF TooLarge, Content
  <1> QED
    BY <1>1, <1>2, <1>3, <1>4, <1>5 DEF WriteTo, Overruns, Content

-----------------------------------------------------------------------------
(* Types.                                                                  *)

LEMMA LineIsLine ==
  ASSUME starts \in Nat, NEW n \in Nat \ {0}
  PROVE  Line(n) \in Lines /\ Line(n).run = starts /\ Line(n).n = n
  BY DEF Line, Lines

\* The guards' steps move threads only between points where they carry nothing.
LEMMA GuardingPoints ==
  ASSUME LogInv, Guarding
  PROVE  /\ pc' \in [Threads -> Points]
         /\ pc'[Syncer] \in {"queue_lock", "queue"} <=> pc[Syncer] \in {"queue_lock", "queue"}
         /\ pc'[Writer] = "write" <=> pc[Writer] = "write"
         /\ pc'[Writer] \in {"wait", "waiting"}
              => pc[Writer] \in {"wait", "waiting"} \/ batches = <<>>
  <1> USE ThreadsDiffer
  <1>1. ASSUME NEW t \in Threads, NEW here, NEW there \in Points, Goto(t, here, there)
        PROVE  /\ pc' \in [Threads -> Points] /\ pc[t] = here /\ pc'[t] = there
               /\ \A u \in Threads \ {t} : pc'[u] = pc[u]
    BY <1>1, Moves
  <1>2. ASSUME NEW p \in Loggers, LogLock(p) \/ LogDestroy(p)
        PROVE  pc' \in [Threads -> Points] /\ pc'[Syncer] = pc[Syncer] /\ pc'[Writer] = pc[Writer]
    <2>1. CASE Goto(p, "idle", "push")
      BY <1>1, <2>1 DEF Points
    <2>2. CASE Goto(p, "push_dtor", "idle")
      BY <1>1, <2>2 DEF Points
    <2> QED
      BY <1>2, <2>1, <2>2 DEF LogLock, LogDestroy, Lock, Destroy
  <1>3. CASE SyncLock
    BY <1>1, <1>3 DEF SyncLock, Lock, Points
  <1>4. CASE SyncDestroy
    BY <1>1, <1>4 DEF SyncDestroy, Destroy, Points
  <1>5. CASE QueueLock
    BY <1>1, <1>5 DEF QueueLock, Lock, Points
  <1>6. CASE QueueDestroy
    BY <1>1, <1>6 DEF QueueDestroy, Destroy, Points
  <1>7. CASE WriterLock
    BY <1>1, <1>7 DEF WriterLock, Lock, Points
  <1>8. CASE TestEmpty
    BY <1>1, <1>8 DEF TestEmpty, Points
  <1>9. CASE Wait
    BY <1>1, <1>9 DEF Wait, Points
  <1>10. CASE WakeUp
    BY <1>1, <1>10 DEF WakeUp, Points
  <1>11. CASE WriterDestroy
    BY <1>1, <1>11 DEF WriterDestroy, Destroy, Points
  <1> QED
    BY <1>2, <1>3, <1>4, <1>5, <1>6, <1>7, <1>8, <1>9, <1>10, <1>11 DEF Guarding

LEMMA StepPipeline == PipelineInv /\ [Next]_vars => PipelineInv'
  <1> SUFFICES ASSUME PipelineInv, [Next]_vars PROVE PipelineInv'
    OBVIOUS
  <1>x. Exclusive'
    BY StepExclusive
  <1>0. LogInv
    BY DEF PipelineInv
  <1>1. ASSUME NEW p \in Loggers, pushLog(p)
        PROVE  PipelineInv'
    <2>1. logged \in Nat /\ starts \in Nat /\ m_buffer \in Seq(Lines)
      BY DEF PipelineInv, LogInv
    <2>2. /\ logged' = logged + 1
          /\ m_buffer' = Append(m_buffer, Line(logged')) \/ m_buffer' = m_buffer
          /\ UNCHANGED <<tmp_vec, batches, tmp, disk, today, starts, stolen>>
          /\ Goto(p, "push", "push_dtor") /\ Unlock("log")
      BY <1>1 DEF pushLog
    <2>3. Line(logged') \in Lines
      BY <2>1, <2>2 DEF Line, Lines
    <2>4. m_buffer' \in Seq(Lines) /\ logged' \in Nat
      BY <2>1, <2>2, <2>3
    <2>5. /\ pc' \in [Threads -> Points]
          /\ pc'[Syncer] = pc[Syncer] /\ pc'[Writer] = pc[Writer]
      BY <1>0, <2>2, Moves, ThreadsDiffer DEF Points
    <2>6. mutex' \in [Mutexes -> BOOLEAN]
      BY <1>0, <2>2 DEF Unlock, LogInv
    <2> QED
      BY <1>x, <2>1, <2>2, <2>4, <2>5, <2>6 DEF PipelineInv, LogInv, disk
  <1>2. CASE SyncSwap
    <2> DEFINE there == IF m_buffer = <<>> THEN "swap_dtor" ELSE "queue_lock"
    <2>1. Goto(Syncer, "swap", there) /\ there \in Points
      BY <1>2 DEF SyncSwap, Points
    <2>2. /\ pc' \in [Threads -> Points]
          /\ pc'[Syncer] = there /\ pc'[Writer] = pc[Writer]
      <3> HIDE DEF there
      <3> QED
        BY <1>0, <2>1, Moves, ThreadsDiffer
    <2>3. mutex' \in [Mutexes -> BOOLEAN]
      BY <1>0, <1>2 DEF SyncSwap, Unlock, LogInv
    <2>4. /\ tmp_vec' = m_buffer /\ m_buffer' = <<>> /\ (there = "queue_lock" <=> m_buffer # <<>>)
          /\ there # "queue" /\ m_buffer \in Seq(Lines)
          /\ UNCHANGED <<batches, tmp, disk, today, logged, starts, stolen>>
      BY <1>0, <1>2 DEF SyncSwap, LogInv
    <2> HIDE DEF there
    <2>5. m_buffer' \in Seq(Lines) /\ tmp_vec' \in Seq(Lines)
          /\ (pc'[Syncer] \in {"queue_lock", "queue"} <=> tmp_vec' # <<>>)
      BY <2>2, <2>4
    <2>6. LogInv'
      BY <1>0, <2>2, <2>3, <2>4, <2>5 DEF LogInv, disk
    <2> QED
      BY <1>x, <2>4, <2>6 DEF PipelineInv, disk
  <1>3. CASE pushLogBuffer
    <2>1. batches' \in Seq(Seq(Lines) \ {<<>>})
      <3> DEFINE Batch == Seq(Lines) \ {<<>>}
      <3>1. batches \in Seq(Batch) /\ tmp_vec \in Batch
        BY <1>0, <1>3 DEF pushLogBuffer, LogInv
      <3>2. batches' = Append(batches, tmp_vec) \/ batches' = batches
        BY <1>3 DEF pushLogBuffer
      <3> HIDE DEF Batch
      <3>3. batches' \in Seq(Batch)
        BY <3>1, <3>2
      <3> QED
        BY <3>3 DEF Batch
    <2>2. pc[Writer] = "wait" => stolen
      <3>1. Inside(Syncer, "queue") /\ (pc[Writer] = "wait" => Inside(Writer, "queue"))
        BY <1>3, Sections DEF pushLogBuffer, Inside
      <3>2. ~stolen => Alone(Syncer, "queue")
        BY <3>1, InsideAlone, ThreadsDiffer, Sections DEF PipelineInv
      <3> HIDE DEF Inside
      <3> QED
        BY <1>0, <3>1, <3>2, ThreadsDiffer DEF Alone, LogInv
    <2>3. /\ pc' \in [Threads -> Points] /\ pc'[Syncer] = "queue_dtor"
          /\ pc'[Writer] = IF pc[Writer] = "waiting" THEN "lock" ELSE pc[Writer]
      BY <1>0, <1>3, ThreadsDiffer DEF pushLogBuffer, Signalled, LogInv, Points
    <2>4. mutex' \in [Mutexes -> BOOLEAN]
      BY <1>0, <1>3 DEF pushLogBuffer, Unlock, LogInv
    <2>5. /\ tmp_vec' = <<>>
          /\ UNCHANGED <<m_buffer, tmp, disk, today, logged, starts, stolen>>
      BY <1>3 DEF pushLogBuffer
    <2>6. /\ ~stolen' => pc'[Writer] \notin {"wait", "waiting"}
          /\ pc'[Writer] = "write" <=> pc[Writer] = "write"
          /\ tmp_vec' \in Seq(Lines)
      BY <2>2, <2>3, <2>5
    <2>7. LogInv'
      BY <1>0, <2>1, <2>3, <2>4, <2>5, <2>6 DEF LogInv, disk
    <2> QED
      BY <1>x, <2>5, <2>7 DEF PipelineInv, disk
  <1>4. CASE TakeBatch
    <2> DEFINE Batch == Seq(Lines) \ {<<>>}
    <2>1. batches \in Seq(Batch)
      BY DEF PipelineInv, LogInv
    <2>2. tmp' = Head(batches) /\ batches' = Tail(batches) /\ batches # <<>>
      BY <1>4 DEF TakeBatch
    <2>3. tmp' \in Batch /\ batches' \in Seq(Batch)
      <3> HIDE DEF Batch
      <3> QED  BY <2>1, <2>2
    <2>4. /\ pc' \in [Threads -> Points]
          /\ pc'[Writer] = "write" /\ pc'[Syncer] = pc[Syncer]
      BY <1>0, <1>4, Moves, ThreadsDiffer DEF TakeBatch, Points
    <2>5. mutex' \in [Mutexes -> BOOLEAN]
      BY <1>0, <1>4 DEF TakeBatch, Unlock, LogInv
    <2> QED
      BY <1>x, <1>4, <2>3, <2>4, <2>5 DEF TakeBatch, PipelineInv, LogInv, disk
  <1>5. CASE /\ Guarding \/ UNCHANGED vars
             /\ UNCHANGED <<lines, disk, today, logged, starts>>
             /\ ~stolen' => ~stolen
    <2>1. /\ pc' \in [Threads -> Points]
          /\ pc'[Syncer] \in {"queue_lock", "queue"} <=> pc[Syncer] \in {"queue_lock", "queue"}
          /\ pc'[Writer] = "write" <=> pc[Writer] = "write"
          /\ pc'[Writer] \in {"wait", "waiting"}
               => pc[Writer] \in {"wait", "waiting"} \/ batches = <<>>
          /\ stolen' \in BOOLEAN /\ mutex' \in [Mutexes -> BOOLEAN]
      <3>1. CASE Guarding
        BY <1>0, <3>1, GuardingPoints, GuardingKeeps
      <3>2. CASE UNCHANGED vars
        BY <1>0, <3>2 DEF vars, LogInv
      <3> QED
        BY <1>5, <3>1, <3>2
    <2> QED
      BY <1>x, <1>5, <2>1 DEF PipelineInv, LogInv, lines, disk
  <1>6. CASE WriteBatch
    <2>1. PICK f \in Names :
            /\ WriteTo(f) /\ f.date = today
            /\ m_no' \in Nat /\ m_no' \in {f.no, f.no + 1}
      BY <1>6, Target
    <2>2. /\ DOMAIN files' = DOMAIN files \cup {f} /\ DOMAIN overruns' = DOMAIN files'
          /\ files' \in [DOMAIN files' -> Seq(Lines)]
          /\ overruns' \in [DOMAIN files' -> Nat]
      BY <1>6, <2>1, WriteEffect
    <2>3. /\ m_date' = today /\ m_file_handler' = f /\ tmp' = <<>>
          /\ Goto(Writer, "write", "write_dtor")
          /\ UNCHANGED <<mutex, m_buffer, tmp_vec, batches, today, logged, starts, stolen>>
      BY <1>6, <2>1 DEF WriteBatch, WriteTo
    <2>p. /\ pc' \in [Threads -> Points] /\ pc'[Syncer] = pc[Syncer]
          /\ pc'[Writer] = "write_dtor"
      BY <2>3, <1>0, Moves, ThreadsDiffer DEF Points
    <2>4. f # None
      BY LoggerAssumption DEF Names
    <2>5. /\ today \in Nat \ {0} /\ starts \in Nat \ {0} /\ logged \in Nat
          /\ m_buffer \in Seq(Lines) /\ tmp_vec \in Seq(Lines)
          /\ batches \in Seq(Seq(Lines) \ {<<>>})
          /\ pc[Syncer] \in {"queue_lock", "queue"} <=> tmp_vec # <<>>
          /\ DOMAIN files \subseteq Names /\ \A g \in DOMAIN files : g.date <= today
          /\ mutex \in [Mutexes -> BOOLEAN] /\ stolen \in BOOLEAN
      BY DEF PipelineInv, LogInv
    <2>6. LogInv'
      BY <2>1, <2>2, <2>3, <2>4, <2>5, <2>p DEF LogInv
    <2>7. \A g \in DOMAIN files' : g.date <= today'
      BY <2>1, <2>2, <2>3, <2>5
    <2> QED
      BY <1>x, <2>1, <2>2, <2>3, <2>4, <2>5, <2>6, <2>7 DEF PipelineInv
  <1>8. CASE NextDay
    <2>1. /\ today' = today + 1 /\ UNCHANGED <<m_date, m_no, m_file_handler, files, overruns>>
          /\ UNCHANGED <<pc, mutex, m_buffer, tmp_vec, batches, tmp>>
          /\ UNCHANGED <<logged, starts, stolen>>
      BY <1>8 DEF NextDay, disk, lines
    <2>2. today \in Nat \ {0} /\ m_date \in 0..today
      BY DEF PipelineInv, LogInv
    <2>3. today' \in Nat \ {0} /\ m_date' \in 0..today'
      BY <2>1, <2>2
    <2>4. LogInv'
      BY <2>1, <2>3 DEF PipelineInv, LogInv
    <2>5. ASSUME NEW f \in DOMAIN files  PROVE f.date <= today'
      <3>1. f.date \in Nat /\ f.date <= today
        BY DEF PipelineInv, LogInv, Names
      <3> QED
        BY <2>1, <2>2, <3>1
    <2> QED
      BY <1>x, <2>1, <2>3, <2>4, <2>5 DEF PipelineInv
  <1>9. CASE Restart
    <2>1. /\ m_date' = 0 /\ m_no' = 0 /\ m_file_handler' = None /\ logged' = 0
          /\ starts' = starts + 1 /\ UNCHANGED <<files, overruns, today>>
      BY <1>9 DEF Restart
    <2>2. today \in Nat \ {0} /\ starts \in Nat
      BY DEF PipelineInv
    <2>3. Start \in [Threads -> Points] /\ Start[Syncer] = "idle" /\ Start[Writer] = "lock"
          /\ Free \in [Mutexes -> BOOLEAN]
      BY ThreadsDiffer DEF Start, Free, Points
    <2>4. /\ pc' = Start /\ mutex' = Free /\ stolen' = FALSE
          /\ m_buffer' = <<>> /\ tmp_vec' = <<>> /\ batches' = <<>> /\ tmp' = <<>>
      BY <1>9 DEF Restart
    <2>5. <<>> \in Seq(Lines) /\ <<>> \in Seq(Seq(Lines) \ {<<>>})
      OBVIOUS
    <2>6. 0 \in Nat /\ 0 \in 0..today /\ FALSE \in BOOLEAN
      BY <2>2
    <2>7. DOMAIN files \subseteq Names /\ DOMAIN overruns = DOMAIN files
      BY <1>0 DEF LogInv
    <2>8. LogInv'
      BY <2>1, <2>3, <2>4, <2>5, <2>6, <2>7 DEF LogInv
    <2> QED
      BY <1>x, <2>1, <2>2, <2>4, <2>8 DEF PipelineInv
  <1> QED
    BY <1>1, <1>2, <1>3, <1>4, <1>5, <1>6, <1>8, <1>9, Steps

-----------------------------------------------------------------------------
(* How often the size limit is overrun.                                    *)

LEMMA StepOverrun == PipelineInv /\ OverrunInv /\ [Next]_vars => OverrunInv'
  <1> SUFFICES ASSUME PipelineInv, OverrunInv, [Next]_vars PROVE OverrunInv'
    OBVIOUS
  <1>1. CASE WriteBatch
    <2>1. PICK f \in Names :
            /\ WriteTo(f)
            /\ m_no' \in Nat /\ f.date = today
            /\ f.no = 0 \/ f = m_file_handler \/ m_no' = f.no + 1
            /\ \/ m_no' = f.no + 1 /\ f # m_file_handler /\ Ahead(f)
               \/ m_no' = f.no + 1 /\ f = m_file_handler /\ (Ahead(f) \/ ~TooLarge(f))
               \/ m_no' = f.no /\ ~TooLarge(f)
            /\ \A g \in Names : Ahead(g)' => Ahead(g)
      BY <1>1, Target
    <2>2. /\ DOMAIN files' = DOMAIN files \cup {f}
          /\ overruns' \in [DOMAIN files' -> Nat]
          /\ \A g \in DOMAIN files : g # f => overruns'[g] = overruns[g]
          /\ overruns'[f] = IF TooLarge(f) THEN Overruns(f) + 1 ELSE Overruns(f)
          /\ f \notin DOMAIN files => Overruns(f) = 0 /\ ~TooLarge(f)
          /\ f \in DOMAIN files => Overruns(f) = overruns[f]
      BY <1>1, <2>1, WriteEffect
    <2>3. /\ starts' = starts /\ starts \in Nat \ {0} /\ DOMAIN files \subseteq Names
          /\ overruns \in [DOMAIN files -> Nat] /\ f.no \in Nat /\ m_date' = today
          /\ m_file_handler # None => m_file_handler \in DOMAIN files
          /\ f # None /\ today \in Nat
      BY <1>1, LoggerAssumption DEF WriteBatch, PipelineInv, LogInv, Names
    <2>4. ASSUME NEW g \in DOMAIN files, g # f
          PROVE  overruns'[g] + (IF Ahead(g)' THEN 1 ELSE 0) <= Limit(g)
      <3>1. overruns[g] + (IF Ahead(g) THEN 1 ELSE 0) <= Limit(g)
        BY DEF OverrunInv
      <3>2. Ahead(g)' => Ahead(g)
        BY <2>1, <2>3
      <3>3. overruns'[g] = overruns[g] /\ overruns[g] \in Nat /\ Limit(g) \in Int
        BY <2>2, <2>3, <2>4 DEF Limit
      <3> QED
        BY <3>1, <3>2, <3>3
    <2>5. Ahead(f)' => m_no' = f.no
      BY <2>1, <2>3 DEF Ahead
    <2>6. overruns'[f] + (IF Ahead(f)' THEN 1 ELSE 0) <= Limit(f)
      <3> HIDE DEF Ahead
      <3>1. Limit(f) \in Nat /\ Limit(f) = IF f.no = 0 THEN starts ELSE starts - 1
        BY <2>3 DEF Limit
      <3>2. CASE f \notin DOMAIN files
        <4>1. overruns'[f] = 0 /\ (f.no = 0 \/ m_no' = f.no + 1)
          BY <2>1, <2>2, <2>3, <3>2
        <4>2. Ahead(f)' => f.no = 0
          BY <2>3, <2>5, <4>1
        <4> QED
          BY <2>3, <3>1, <4>1, <4>2
      <3>3. CASE f \in DOMAIN files
        <4>1. overruns[f] + (IF Ahead(f) THEN 1 ELSE 0) <= Limit(f) /\ overruns[f] \in Nat
          BY <2>3, <3>3 DEF OverrunInv
        <4>2. overruns'[f] = IF TooLarge(f) THEN overruns[f] + 1 ELSE overruns[f]
          BY <2>2, <3>3
        <4>3. m_no' = f.no + 1 => ~Ahead(f)'
          BY <2>3, <2>5
        <4>4. Ahead(f)' => Ahead(f)
          BY <2>1
        <4> HIDE DEF TooLarge
        <4> QED
          BY <2>1, <3>1, <4>1, <4>2, <4>3, <4>4
      <3> QED
        BY <3>2, <3>3
    <2>7. \A g : Limit(g)' = Limit(g)
      BY <2>3 DEF Limit
    <2> QED
      BY <2>2, <2>4, <2>6, <2>7 DEF OverrunInv
  <1>2. CASE Restart
    <2>1. starts' = starts + 1 /\ UNCHANGED <<files, overruns>>
      BY <1>2 DEF Restart
    <2>2. starts \in Nat /\ overruns \in [DOMAIN files -> Nat]
      BY DEF PipelineInv
    <2>3. ASSUME NEW f \in DOMAIN files
          PROVE  overruns[f] + 1 <= Limit(f)' /\ overruns[f] \in Nat /\ Limit(f)' \in Int
      <3>1. overruns[f] + (IF Ahead(f) THEN 1 ELSE 0) <= Limit(f) /\ overruns[f] \in Nat
        BY <2>2 DEF OverrunInv
      <3>2. Limit(f)' = Limit(f) + 1 /\ Limit(f) \in Int
        BY <2>1, <2>2 DEF Limit
      <3> QED
        BY <3>1, <3>2
    <2>4. \A f \in DOMAIN files : overruns'[f] + (IF Ahead(f)' THEN 1 ELSE 0) <= Limit(f)'
      BY <2>1, <2>3
    <2> QED
      BY <2>1, <2>4 DEF OverrunInv
  <1>3. CASE /\ UNCHANGED disk /\ UNCHANGED starts
    BY <1>3 DEF disk, OverrunInv, Ahead, Limit
  <1> QED
    BY <1>1, <1>2, <1>3, Steps DEF pushLog, SyncSwap, pushLogBuffer, TakeBatch, NextDay

\* They agree at the start.
LEMMA InitPipeline == Init => PipelineInv
  <1>1. /\ Start \in [Threads -> Points] /\ Start[Syncer] = "idle" /\ Start[Writer] = "lock"
        /\ Free \in [Mutexes -> BOOLEAN]
    BY ThreadsDiffer DEF Start, Free, Points
  <1>2. Init => Exclusive
    BY Sections DEF Init, Start, Exclusive, Inside
  <1>3. <<>> \in Seq(Lines) /\ <<>> \in Seq(Seq(Lines) \ {<<>>})
    OBVIOUS
  <1>4. SUFFICES ASSUME Init PROVE PipelineInv
    OBVIOUS
  <1>5. /\ pc = Start /\ mutex = Free /\ stolen = FALSE
        /\ m_buffer = <<>> /\ tmp_vec = <<>> /\ batches = <<>> /\ tmp = <<>>
        /\ m_date = 0 /\ m_no = 0 /\ m_file_handler = None /\ today = 1
        /\ DOMAIN files = {} /\ DOMAIN overruns = {} /\ logged = 0 /\ starts = 1
    BY <1>4 DEF Init
  <1>6. files \in [DOMAIN files -> Seq(Lines)] /\ overruns \in [DOMAIN files -> Nat]
    BY <1>4, <1>5 DEF Init
  <1>7. LogInv
    <2>1. pc \in [Threads -> Points] /\ mutex \in [Mutexes -> BOOLEAN] /\ stolen \in BOOLEAN
      BY <1>1, <1>5
    <2>2. m_no \in Nat /\ m_date \in 0..today
      BY <1>5
    <2>3. /\ pc[Syncer] \in {"queue_lock", "queue"} <=> tmp_vec # <<>>
          /\ pc[Writer] = "write" <=> tmp # <<>>
          /\ DOMAIN files \subseteq Names /\ DOMAIN overruns = DOMAIN files
      BY <1>1, <1>5
    <2> QED
      BY <1>3, <1>5, <2>1, <2>2, <2>3 DEF LogInv
  <1> QED
    BY <1>2, <1>4, <1>5, <1>6, <1>7 DEF PipelineInv

\* The parts of the pipeline agree: their types, and what goes together between
\* the buffer, the queue, the threads, their mutexes and the open file.
THEOREM PipelineAgrees == Spec => []LogInv
  <1>1. Init => PipelineInv
    BY InitPipeline
  <1>2. PipelineInv => LogInv
    BY DEF PipelineInv
  <1> QED
    BY <1>1, <1>2, StepPipeline, PTL DEF Spec

\* In k starts of the process a file that is already too large is written to at
\* most k - 1 times, and the first file of a date, to which the first roll-over
\* of WriteBatch returns, at most k times.
THEOREM OverrunsStayBounded == Spec => []OverrunsBounded
  <1>1. Init => PipelineInv /\ OverrunInv
    BY InitPipeline DEF Init, OverrunInv
  <1>2. PipelineInv /\ OverrunInv => OverrunsBounded
    <2> SUFFICES ASSUME PipelineInv, OverrunInv, NEW f \in DOMAIN files
                 PROVE  overruns[f] <= IF f.no = 0 THEN starts ELSE starts - 1
      BY DEF OverrunsBounded
    <2>1. overruns[f] \in Nat /\ starts \in Nat
      BY DEF PipelineInv
    <2>2. overruns[f] + (IF Ahead(f) THEN 1 ELSE 0) <= Limit(f)
      BY DEF OverrunInv
    <2> QED
      BY <2>1, <2>2 DEF Limit
  <1> QED
    BY <1>1, <1>2, StepPipeline, StepOverrun, PTL DEF Spec

-----------------------------------------------------------------------------
(* The lines of a batch in its file.                                       *)

LEMMA LinesAfterWrite ==
  ASSUME PipelineInv, WriteBatch, NEW f \in Names, WriteTo(f),
         NEW g \in DOMAIN files', NEW i \in DOMAIN files'[g]
  PROVE  \/ /\ g \in DOMAIN files /\ i \in DOMAIN files[g]
            /\ files'[g][i] = files[g][i]
         \/ /\ g = f
            /\ \E k \in DOMAIN tmp : i = Len(Content(f)) + k /\ files'[g][i] = tmp[k]
  <1>1. /\ DOMAIN files' = DOMAIN files \cup {f}
        /\ \A h \in DOMAIN files : h # f => files'[h] = files[h]
        /\ files'[f] = Content(f) \o tmp /\ Content(f) \in Seq(Lines) /\ tmp \in Seq(Lines)
        /\ f \in DOMAIN files => Content(f) = files[f]
        /\ f \notin DOMAIN files => Content(f) = <<>>
    BY WriteEffect DEF Content
  <1>2. CASE g # f
    BY <1>1, <1>2
  <1>3. CASE g = f
    <2> DEFINE s == Content(f)
    <2>1. s \in Seq(Lines) /\ files'[g] = s \o tmp
      BY <1>1, <1>3
    <2>2. CASE i <= Len(s)
      <3>1. i \in DOMAIN s /\ (s \o tmp)[i] = s[i]
        <4> HIDE DEF s
        <4> QED  BY <1>1, <2>1, <2>2
      <3>2. f \in DOMAIN files
        BY <1>1, <3>1
      <3> QED
        BY <1>1, <1>3, <2>1, <3>1, <3>2
    <2>3. CASE ~(i <= Len(s))
      <3> HIDE DEF s
      <3>1. i - Len(s) \in DOMAIN tmp /\ (s \o tmp)[i] = tmp[i - Len(s)]
            /\ i = Len(s) + (i - Len(s))
        BY <1>1, <2>1, <2>3
      <3> QED
        BY <1>3, <2>1, <3>1 DEF s
    <2> QED
      BY <2>2, <2>3
  <1> QED
    BY <1>2, <1>3

LEMMA LineTypes ==
  ASSUME PipelineInv
  PROVE  /\ \A f \in DOMAIN files : \A i \in DOMAIN files[f] :
               i \in Nat /\ files[f][i].n \in Nat /\ files[f][i].run \in Nat
         /\ \A i \in DOMAIN tmp : tmp[i].n \in Nat /\ i \in Nat \ {0}
         /\ \A i \in DOMAIN tmp_vec : tmp_vec[i].n \in Nat
         /\ \A i \in DOMAIN m_buffer : m_buffer[i].n \in Nat
         /\ \A k \in DOMAIN batches : batches[k] \in Seq(Lines)
         /\ \A k \in DOMAIN batches : \A i \in DOMAIN batches[k] : batches[k][i].n \in Nat
         /\ starts \in Nat /\ logged \in Nat
  <1>1. \A s \in Seq(Lines) : \A i \in DOMAIN s :
          s[i].n \in Nat /\ s[i].run \in Nat /\ i \in Nat \ {0}
    <2>1. \A l \in Lines : l.n \in Nat /\ l.run \in Nat
      BY DEF Lines
    <2>2. \A s \in Seq(Lines) : \A i \in DOMAIN s : s[i] \in Lines /\ i \in Nat \ {0}
      OBVIOUS
    <2> QED
      BY <2>1, <2>2
  <1>2. /\ \A f \in DOMAIN files : files[f] \in Seq(Lines)
        /\ tmp \in Seq(Lines) /\ tmp_vec \in Seq(Lines) /\ m_buffer \in Seq(Lines)
        /\ starts \in Nat /\ logged \in Nat /\ batches \in Seq(Seq(Lines) \ {<<>>})
    BY DEF PipelineInv, LogInv
  <1>3. \A k \in DOMAIN batches : batches[k] \in Seq(Lines)
    BY <1>2
  <1> QED
    BY <1>1, <1>2, <1>3

\* A batch the thread takes goes to a file that comes after every file this run
\* has written to, or to the last of them.
LEMMA StepFile == PipelineInv /\ OrderInv /\ FileInv /\ [Next]_vars => FileInv'
  <1> SUFFICES ASSUME PipelineInv, OrderInv, FileInv, [Next]_vars PROVE FileInv'
    OBVIOUS
  <1> USE LineTypes
  <1>1. CASE WriteBatch
    <2>1. PICK f \in Names :
            /\ WriteTo(f)
            /\ m_file_handler # None => NotBefore(f, m_file_handler)
      BY <1>1, Target
    <2>2. /\ m_file_handler' = f /\ f # None
          /\ UNCHANGED <<logged, starts>>
      BY <1>1, <2>1, LoggerAssumption DEF WriteBatch, WriteTo, Names
    <2> SUFFICES ASSUME NEW g \in DOMAIN files', NEW i \in DOMAIN files'[g]
                 PROVE  /\ files'[g][i].run <= starts
                        /\ files'[g][i].run = starts =>
                             files'[g][i].n <= logged /\ NotBefore(f, g)
      BY <2>2 DEF FileInv, NotBefore
    <2>3. CASE g \in DOMAIN files /\ i \in DOMAIN files[g] /\ files'[g][i] = files[g][i]
      <3>1. /\ files[g][i].run <= starts
            /\ files[g][i].run = starts =>
                 /\ files[g][i].n <= logged
                 /\ m_file_handler # None
                 /\ NotBefore(m_file_handler, g)
        BY <2>3 DEF FileInv, NotBefore
      <3>2. m_file_handler # None => m_file_handler \in Names
        BY DEF PipelineInv, LogInv
      <3>3. g \in Names
        BY <2>3 DEF PipelineInv, LogInv
      <3>4. \A x, y, z \in Names : NotBefore(x, y) /\ NotBefore(y, z) => NotBefore(x, z)
        BY DEF NotBefore, Names
      <3> QED
        BY <2>1, <2>3, <3>1, <3>2, <3>3, <3>4
    <2>4. CASE g = f /\ \E k \in DOMAIN tmp : files'[g][i] = tmp[k]
      BY <2>4 DEF OrderInv, Rising, NotBefore
    <2> QED
      BY <1>1, <2>1, <2>3, <2>4, LinesAfterWrite
  <1>2. CASE Restart
    <2>1. starts' = starts + 1 /\ files' = files
      BY <1>2 DEF Restart
    <2> QED
      BY <2>1 DEF FileInv
  <1>3. ASSUME NEW p \in Loggers, pushLog(p)
        PROVE  FileInv'
    <2>1. logged' = logged + 1 /\ UNCHANGED <<files, starts, m_file_handler>>
      BY <1>3 DEF pushLog, disk
    <2> QED
      BY <2>1 DEF FileInv
  <1>4. CASE UNCHANGED <<logged, starts, m_file_handler, files>>
    BY <1>4 DEF FileInv
  <1> QED
    BY <1>1, <1>2, <1>3, <1>4, Steps DEF SyncSwap, pushLogBuffer, TakeBatch, NextDay, disk

LEMMA HeadTailParts ==
  ASSUME NEW S, NEW s \in Seq(S), s # <<>>
  PROVE  /\ 1 \in DOMAIN s /\ Head(s) = s[1]
         /\ \A i \in DOMAIN Tail(s) :
              i \in Nat /\ 1 < i + 1 /\ i + 1 \in DOMAIN s /\ Tail(s)[i] = s[i + 1]
  OBVIOUS

\* The lines stay in order from the files to the Logger's buffer.
LEMMA StepOrder == PipelineInv /\ OrderInv /\ FileInv /\ [Next]_vars => OrderInv'
  <1> SUFFICES ASSUME PipelineInv, OrderInv, FileInv, [Next]_vars PROVE OrderInv'
    OBVIOUS
  <1> USE LineTypes
  <1>0. /\ tmp \in Seq(Lines) /\ tmp_vec \in Seq(Lines) /\ m_buffer \in Seq(Lines)
        /\ batches \in Seq(Seq(Lines) \ {<<>>})
        /\ pc[Writer] = "write" <=> tmp # <<>>
    BY DEF PipelineInv, LogInv
  <1>a. ASSUME NEW p \in Loggers, pushLog(p), UNCHANGED m_buffer
        PROVE  OrderInv'
    <2>1. /\ logged' = logged + 1
          /\ UNCHANGED <<m_buffer, tmp_vec, batches, tmp, files, starts>>
      BY <1>a DEF pushLog, disk
    <2>2. \A s : Rising(s) /\ (\A i \in DOMAIN s : s[i].n \in Nat)
                => \A i \in DOMAIN s : s[i].run = starts' /\ s[i].n <= logged'
      BY <2>1 DEF Rising
    <2>3. /\ Rising(tmp)' /\ Rising(tmp_vec)' /\ Rising(m_buffer)'
          /\ \A k \in DOMAIN batches : Rising(batches[k])'
      BY <2>1, <2>2 DEF OrderInv, Rising
    <2> QED
      BY <2>1, <2>3 DEF OrderInv, Under, WrittenUnder
  <1>1. ASSUME NEW p \in Loggers, pushLog(p), m_buffer' = Append(m_buffer, Line(logged'))
        PROVE  OrderInv'
    <2>1. /\ logged' = logged + 1 /\ starts' = starts
          /\ m_buffer' = Append(m_buffer, Line(logged'))
          /\ UNCHANGED <<tmp_vec, batches, tmp, files>>
      BY <1>1 DEF pushLog, disk
    <2>2. Line(logged').run = starts /\ Line(logged').n = logged + 1
      BY <2>1 DEF Line
    <2>3. /\ DOMAIN m_buffer' = DOMAIN m_buffer \cup {Len(m_buffer) + 1}
          /\ \A i \in DOMAIN m_buffer : m_buffer'[i] = m_buffer[i] /\ i < Len(m_buffer) + 1
          /\ m_buffer'[Len(m_buffer) + 1] = Line(logged')
      BY <1>0, <2>1
    <2>4. /\ Rising(m_buffer)'
          /\ Rising(tmp)' /\ Rising(tmp_vec)' /\ \A k \in DOMAIN batches : Rising(batches[k])'
      BY <2>1, <2>2, <2>3 DEF OrderInv, Rising
    <2>5. /\ Under(tmp, m_buffer') /\ Under(tmp_vec, m_buffer')
          /\ \A k \in DOMAIN batches : Under(batches[k], m_buffer')
      BY <2>1, <2>2, <2>3 DEF OrderInv, Rising, Under
    <2>6. WrittenUnder(m_buffer)'
      BY <2>1, <2>2, <2>3 DEF OrderInv, WrittenUnder, FileInv
    <2>7. /\ WrittenUnder(tmp)' /\ WrittenUnder(tmp_vec)'
          /\ \A k \in DOMAIN batches : WrittenUnder(batches[k])'
      BY <2>1 DEF OrderInv, WrittenUnder
    <2> QED
      BY <2>1, <2>4, <2>5, <2>6, <2>7 DEF OrderInv, Under
  <1>2. CASE SyncSwap
    <2>1. /\ tmp_vec' = m_buffer /\ m_buffer' = <<>>
          /\ UNCHANGED <<batches, tmp, files, logged, starts>>
      BY <1>2 DEF SyncSwap, disk
    <2> QED
      BY <2>1 DEF OrderInv, Rising, Under, WrittenUnder
  <1>b. CASE pushLogBuffer /\ UNCHANGED batches
    <2>1. /\ tmp_vec' = <<>>
          /\ UNCHANGED <<batches, m_buffer, tmp, files, logged, starts>>
      BY <1>b DEF pushLogBuffer, disk
    <2> QED
      BY <2>1 DEF OrderInv, Rising, Under, WrittenUnder
  <1>3. CASE pushLogBuffer /\ batches' = Append(batches, tmp_vec)
    <2>1. /\ batches' = Append(batches, tmp_vec) /\ tmp_vec' = <<>>
          /\ UNCHANGED <<m_buffer, tmp, files, logged, starts>>
      BY <1>3 DEF pushLogBuffer, disk
    <2>2. /\ DOMAIN batches' = DOMAIN batches \cup {Len(batches) + 1}
          /\ \A k \in DOMAIN batches : batches'[k] = batches[k] /\ k < Len(batches) + 1
          /\ batches'[Len(batches) + 1] = tmp_vec
      BY <1>0, <2>1
    <2> QED
      BY <2>1, <2>2 DEF OrderInv, Rising, Under, WrittenUnder
  <1>4. CASE TakeBatch
    <2>1. /\ tmp = <<>>
          /\ UNCHANGED <<m_buffer, tmp_vec, files, logged, starts>>
      BY <1>0, <1>4 DEF TakeBatch, Goto, disk
    <2>3. batches # <<>>
      BY <1>4 DEF TakeBatch
    <2>4. OrderInv'
      <3>1. /\ 1 \in DOMAIN batches /\ tmp' = batches[1]
            /\ \A k \in DOMAIN batches' : k + 1 \in DOMAIN batches /\ batches'[k] = batches[k + 1]
            /\ \A k \in DOMAIN batches' : 1 < k + 1 /\ k \in Nat
        BY <1>0, <1>4, <2>3, HeadTailParts DEF TakeBatch
      <3>2. Rising(tmp)' /\ Rising(tmp_vec)' /\ Rising(m_buffer)'
        BY <2>1, <3>1 DEF OrderInv, Rising
      <3>3. WrittenUnder(tmp)' /\ WrittenUnder(tmp_vec)' /\ WrittenUnder(m_buffer)'
        BY <2>1, <3>1 DEF OrderInv, WrittenUnder
      <3>4. Under(tmp, tmp_vec)' /\ Under(tmp, m_buffer)' /\ Under(tmp_vec, m_buffer)'
        BY <2>1, <3>1 DEF OrderInv
      <3>5. ASSUME NEW k \in DOMAIN batches'
            PROVE  /\ Rising(batches[k])' /\ WrittenUnder(batches[k])'
                   /\ Under(tmp, batches[k])' /\ Under(batches[k], tmp_vec)'
                   /\ Under(batches[k], m_buffer)'
        BY <2>1, <3>1, <3>5 DEF OrderInv, Rising, WrittenUnder
      <3>6. ASSUME NEW k \in DOMAIN batches', NEW l \in DOMAIN batches', k < l
            PROVE  Under(batches'[k], batches'[l])
        BY <3>1, <3>6 DEF OrderInv
      <3> QED
        BY <3>2, <3>3, <3>4, <3>5, <3>6 DEF OrderInv
    <2> QED
      BY <2>4
  <1>5. CASE WriteBatch
    <2>1. PICK f \in Names : WriteTo(f)
      BY <1>5, Target
    <2>2. /\ tmp' = <<>>
          /\ UNCHANGED <<m_buffer, tmp_vec, batches, logged, starts>>
      BY <1>5, <2>1 DEF WriteBatch, WriteTo
    <2>3. ASSUME NEW s, WrittenUnder(s), Under(tmp, s)
          PROVE  \A g \in DOMAIN files' : \A i \in DOMAIN files'[g], j \in DOMAIN s :
                   files'[g][i].run = starts => files'[g][i].n < s[j].n
      BY <1>5, <2>1, <2>3, LinesAfterWrite DEF WrittenUnder, Under
    <2>4. /\ WrittenUnder(tmp_vec)' /\ WrittenUnder(m_buffer)'
          /\ \A k \in DOMAIN batches : WrittenUnder(batches[k])'
      BY <2>2, <2>3 DEF OrderInv, WrittenUnder
    <2> QED
      BY <2>2, <2>4 DEF OrderInv, Rising, Under, WrittenUnder
  <1>6. CASE Restart
    BY <1>6 DEF Restart, OrderInv, Rising, Under, WrittenUnder
  <1>7. CASE UNCHANGED <<m_buffer, tmp_vec, batches, tmp, files, logged, starts>>
    BY <1>7 DEF OrderInv, Rising, Under, WrittenUnder
  <1> QED
    BY <1>1, <1>a, <1>2, <1>3, <1>b, <1>4, <1>5, <1>6, <1>7, Steps
       DEF pushLog, pushLogBuffer, NextDay, lines, disk

\* A new line comes after every line this run has in a file: it is later in the
\* order of names and, in its file, behind the others.
LEMMA StepFilesInOrder ==
  PipelineInv /\ OrderInv /\ FileInv /\ FilesInOrder /\ [Next]_vars => FilesInOrder'
  <1> SUFFICES ASSUME PipelineInv, OrderInv, FileInv, FilesInOrder, [Next]_vars
               PROVE  FilesInOrder'
    OBVIOUS
  <1>1. CASE WriteBatch
    <2>1. PICK f \in Names :
            /\ WriteTo(f)
            /\ m_file_handler # None => NotBefore(f, m_file_handler)
      BY <1>1, Target
    <2>2. FileInv'
      BY StepFile
    <2>3. m_file_handler' = f /\ starts' = starts /\ Len(Content(f)) \in Nat
      BY <1>1, <2>1, WriteEffect DEF WriteBatch, WriteTo
    <2> DEFINE Old(g, i) == /\ g \in DOMAIN files /\ i \in DOMAIN files[g]
                            /\ files'[g][i] = files[g][i]
               New(g, i, k) == g = f /\ i = Len(Content(f)) + k /\ files'[g][i] = tmp[k]
    <2> SUFFICES ASSUME NEW g \in DOMAIN files', NEW i \in DOMAIN files'[g],
                        NEW h \in DOMAIN files', NEW j \in DOMAIN files'[h],
                        files'[g][i].run = files'[h][j].run,
                        files'[g][i].n <= files'[h][j].n
                 PROVE  Before(g, i, h, j)
      BY DEF FilesInOrder, Before
    <2>4. /\ Old(g, i) \/ \E k \in DOMAIN tmp : New(g, i, k)
          /\ Old(h, j) \/ \E k \in DOMAIN tmp : New(h, j, k)
      BY <1>1, <2>1, LinesAfterWrite
    <2>5. CASE Old(g, i) /\ Old(h, j)
      BY <2>5 DEF FilesInOrder
    <2>6. ASSUME NEW k \in DOMAIN tmp, New(g, i, k), Old(h, j)
          PROVE  FALSE
      <3>1. tmp[k].run = starts
        BY DEF OrderInv, Rising
      <3>2. files[h][j].run = starts => files[h][j].n < tmp[k].n
        BY <2>6 DEF OrderInv, WrittenUnder
      <3>3. files[h][j].n \in Nat /\ tmp[k].n \in Nat
        BY <2>6, LineTypes
      <3> QED
        BY <2>6, <3>1, <3>2, <3>3
    <2>7. ASSUME NEW k \in DOMAIN tmp, Old(g, i), New(h, j, k)
          PROVE  Before(g, i, h, j)
      <3>1. files'[g][i].run = starts
        BY <2>7 DEF OrderInv, Rising
      <3>2. g = f \/ g.date < f.date \/ (g.date = f.date /\ g.no < f.no)
        BY <2>2, <2>3, <3>1 DEF FileInv
      <3>3. CASE g = f
        <4>1. f \in DOMAIN files /\ i \in DOMAIN Content(f) /\ Content(f) \in Seq(Lines)
          BY <1>1, <2>1, <2>7, <3>3, WriteEffect DEF Content
        <4>2. i <= Len(Content(f)) /\ i \in Nat /\ k \in Nat
          <5> HIDE DEF Content
          <5> QED  BY <4>1, LineTypes
        <4> HIDE DEF Content
        <4> QED
          BY <2>3, <2>7, <3>3, <4>2 DEF Before
      <3> QED
        BY <2>7, <3>2, <3>3 DEF Before
    <2>8. ASSUME NEW k \in DOMAIN tmp, NEW l \in DOMAIN tmp, New(g, i, k), New(h, j, l)
          PROVE  Before(g, i, h, j)
      <3>1. k <= l
        <4>1. l < k => tmp[l].n < tmp[k].n
          BY DEF OrderInv, Rising
        <4>2. k \in Nat /\ l \in Nat /\ tmp[k].n \in Nat /\ tmp[l].n \in Nat
          BY LineTypes
        <4> QED
          BY <2>8, <4>1, <4>2
      <3>2. k \in Nat /\ l \in Nat
        BY LineTypes
      <3> QED
        BY <2>3, <2>8, <3>1, <3>2 DEF Before
    <2> HIDE DEF Old, New
    <2> QED
      BY <2>4, <2>5, <2>6, <2>7, <2>8
  <1>2. CASE files' = files
    BY <1>2 DEF FilesInOrder, Before
  <1> QED
    BY <1>1, <1>2, Steps DEF pushLog, SyncSwap, pushLogBuffer, TakeBatch, NextDay, Restart, disk

\* The files, in the order of their names, hold each run's lines in the order
\* they were logged, whatever the number of dates, sizes, restarts and batches.
THEOREM FilesStayInOrder == Spec => []FilesInOrder
  <1>1. Init => PipelineInv /\ OrderInv /\ FileInv /\ FilesInOrder
    BY InitPipeline DEF Init, OrderInv, Rising, Under, WrittenUnder, FileInv, FilesInOrder
  <1> QED
    BY <1>1, StepPipeline, StepOrder, StepFile, StepFilesInOrder, PTL DEF Spec

-----------------------------------------------------------------------------
(* No line is lost.                                                        *)

LEMMA HeadTailCover ==
  ASSUME NEW S, NEW s \in Seq(S), s # <<>>
  PROVE  \A i \in DOMAIN s : s[i] = Head(s) \/ \E j \in DOMAIN Tail(s) : Tail(s)[j] = s[i]
  <1> SUFFICES ASSUME NEW i \in DOMAIN s, i # 1
               PROVE  \E j \in DOMAIN Tail(s) : Tail(s)[j] = s[i]
    OBVIOUS
  <1>1. i - 1 \in DOMAIN Tail(s) /\ Tail(s)[i - 1] = s[i]
    OBVIOUS
  <1> QED
    BY <1>1

\* Until a lock is stolen, a logged line is in a file or on its way.
LEMMA StepKept == PipelineInv /\ Kept /\ [Next]_vars => Kept'
  <1> SUFFICES ASSUME PipelineInv, Kept, [Next]_vars PROVE Kept'
    OBVIOUS
  <1>0. /\ tmp \in Seq(Lines) /\ tmp_vec \in Seq(Lines) /\ m_buffer \in Seq(Lines)
        /\ batches \in Seq(Seq(Lines) \ {<<>>})
        /\ pc[Syncer] \in {"queue_lock", "queue"} <=> tmp_vec # <<>>
        /\ pc[Writer] = "write" <=> tmp # <<>>
        /\ logged \in Nat
    BY DEF PipelineInv, LogInv
  <1>1. ASSUME NEW p \in Loggers, pushLog(p), ~stolen  PROVE Kept'
    <2>a. Alone(p, "log")
      BY <1>1, ThreadsDiffer DEF PipelineInv, Exclusive, pushLog, Goto, Inside, Section, Mutexes
    <2>1. /\ logged' = logged + 1 /\ starts' = starts
          /\ m_buffer' = Append(m_buffer, Line(logged'))
          /\ UNCHANGED <<tmp_vec, batches, tmp, files, stolen>>
      BY <1>1, <2>a DEF pushLog, disk
    <2>2. ASSUME NEW l, In(l, m_buffer)  PROVE In(l, m_buffer')
      <3>1. PICK i \in DOMAIN m_buffer : m_buffer[i] = l
        BY <2>2 DEF In
      <3>2. i \in DOMAIN m_buffer' /\ m_buffer'[i] = m_buffer[i]
        BY <1>0, <2>1
      <3> QED
        BY <3>1, <3>2 DEF In
    <2>3. In(Line(logged'), m_buffer')
      <3>1. /\ Len(m_buffer) + 1 \in DOMAIN m_buffer'
            /\ m_buffer'[Len(m_buffer) + 1] = Line(logged')
        BY <1>0, <2>1
      <3> QED
        BY <3>1 DEF In
    <2>4. \A n : Line(n)' = Line(n)
      BY <2>1 DEF Line
    <2>5. \A n \in 1..logged' : n \in 1..logged \/ n = logged'
      BY <1>0, <2>1
    <2> QED
      BY <2>1, <2>2, <2>3, <2>4, <2>5 DEF Kept, Written
  <1>2. CASE SyncSwap
    <2>1. /\ tmp_vec = <<>> /\ tmp_vec' = m_buffer /\ m_buffer' = <<>>
          /\ UNCHANGED <<batches, tmp, files, logged, starts, stolen>>
      BY <1>0, <1>2 DEF SyncSwap, Goto, disk
    <2> QED
      BY <2>1 DEF Kept, In, Written, Line
  <1>3. CASE pushLogBuffer /\ ~stolen
    <2>a. Alone(Syncer, "queue")
      BY <1>3 DEF PipelineInv, Exclusive, pushLogBuffer, Inside, Section, Mutexes, Threads
    <2>1. /\ batches' = Append(batches, tmp_vec) /\ tmp_vec' = <<>>
          /\ UNCHANGED <<m_buffer, tmp, files, logged, starts, stolen>>
      BY <1>3, <2>a DEF pushLogBuffer, disk
    <2>2. /\ \A k \in DOMAIN batches : k \in DOMAIN batches' /\ batches'[k] = batches[k]
          /\ \E k \in DOMAIN batches' : batches'[k] = tmp_vec
      <3>1. batches \in Seq(Seq(Lines) \ {<<>>})
        BY <1>0
      <3>2. /\ DOMAIN batches' = DOMAIN batches \cup {Len(batches) + 1}
            /\ batches'[Len(batches) + 1] = tmp_vec
        BY <2>1, <3>1
      <3>3. \A k \in DOMAIN batches : batches'[k] = batches[k]
        BY <2>1, <3>1
      <3> QED
        BY <3>2, <3>3
    <2>3. \A n : Line(n)' = Line(n) /\ (Written(Line(n))' <=> Written(Line(n)))
      BY <2>1 DEF Line, Written
    <2> HIDE DEF In
    <2> QED
      BY <2>1, <2>2, <2>3 DEF Kept
  <1>4. CASE TakeBatch
    <2>1. /\ tmp = <<>> /\ UNCHANGED <<m_buffer, tmp_vec, files, logged, starts, stolen>>
      BY <1>0, <1>4 DEF TakeBatch, Goto, disk
    <2>2. \A n : Line(n)' = Line(n) /\ (Written(Line(n))' <=> Written(Line(n)))
      BY <2>1 DEF Line, Written
    <2>3. batches # <<>> /\ tmp' = Head(batches) /\ batches' = Tail(batches)
      BY <1>4 DEF TakeBatch
    <2>4. \A k \in DOMAIN batches :
            \/ batches[k] = tmp'
            \/ \E l \in DOMAIN batches' : batches'[l] = batches[k]
      BY <1>0, <2>3, HeadTailCover
    <2>5. \A l : ~In(l, tmp)
      BY <2>1 DEF In
    <2> HIDE DEF In
    <2> QED
      BY <2>1, <2>2, <2>4, <2>5 DEF Kept
  <1>5. CASE WriteBatch
    <2>1. PICK f \in Names : WriteTo(f)
      BY <1>5, Target
    <2>2. /\ UNCHANGED <<m_buffer, tmp_vec, batches, logged, starts, stolen>>
      BY <1>5 DEF WriteBatch
    <2>3. /\ DOMAIN files' = DOMAIN files \cup {f}
          /\ \A g \in DOMAIN files : g # f => files'[g] = files[g]
          /\ files'[f] = Content(f) \o tmp /\ Content(f) \in Seq(Lines)
          /\ f \in DOMAIN files => Content(f) = files[f]
      BY <1>5, <2>1, WriteEffect
    <2>4. ASSUME NEW l  PROVE Written(l) => Written(l)'
      <3> SUFFICES ASSUME NEW g \in DOMAIN files, NEW i \in DOMAIN files[g], files[g][i] = l
                   PROVE  \E j \in DOMAIN files'[g] : files'[g][j] = l
        BY <2>3 DEF Written
      <3>1. CASE g # f
        BY <2>3, <3>1
      <3>2. CASE g = f
        <4>1. files'[g] = files[g] \o tmp /\ files[g] \in Seq(Lines)
          BY <2>3, <3>2
        <4>2. i \in DOMAIN files'[g] /\ files'[g][i] = files[g][i]
          BY <1>0, <4>1
        <4> QED
          BY <4>2
      <3> QED
        BY <3>1, <3>2
    <2>5. ASSUME NEW l  PROVE In(l, tmp) => Written(l)'
      <3> SUFFICES ASSUME NEW i \in DOMAIN tmp, tmp[i] = l
                   PROVE  \E j \in DOMAIN files'[f] : files'[f][j] = l
        BY <2>3 DEF Written, In
      <3> DEFINE s == Content(f)
      <3> HIDE DEF s
      <3>1. files'[f] = s \o tmp /\ s \in Seq(Lines)
        BY <2>3 DEF s
      <3>2. Len(s) + i \in DOMAIN files'[f] /\ files'[f][Len(s) + i] = tmp[i]
        BY <1>0, <3>1
      <3> QED
        BY <3>2
    <2>6. \A n : Line(n)' = Line(n)
      BY <2>2 DEF Line
    <2> HIDE DEF Written, In
    <2> QED
      BY <2>2, <2>4, <2>5, <2>6 DEF Kept
  <1>6. CASE Restart
    BY <1>6 DEF Restart, Kept
  <1>7. CASE /\ UNCHANGED <<m_buffer, tmp_vec, batches, tmp, files, logged, starts>>
             /\ ~stolen' => ~stolen
    BY <1>7 DEF Kept, In, Written, Line
  <1>8. CASE stolen' = stolen /\ stolen
    BY <1>8 DEF Kept
  <1> QED
    BY <1>1, <1>2, <1>3, <1>4, <1>5, <1>6, <1>7, <1>8, StolenBoolean, Steps
       DEF pushLog, pushLogBuffer, NextDay, lines, disk

\* The stages one by one.
LEMMA StageIs ==
  ASSUME PipelineInv, NEW k \in Stages
  PROVE  \/ k = 0 /\ Stage(k) = tmp
         \/ k \in DOMAIN batches /\ Stage(k) = batches[k]
         \/ k = Len(batches) + 1 /\ Stage(k) = tmp_vec
         \/ k = Len(batches) + 2 /\ Stage(k) = m_buffer
  <1>1. Len(batches) \in Nat /\ DOMAIN batches = 1 .. Len(batches)
    BY DEF PipelineInv, LogInv
  <1>2. k = 0 \/ k \in 1 .. Len(batches) \/ k = Len(batches) + 1 \/ k = Len(batches) + 2
    BY <1>1 DEF Stages
  <1> QED
    BY <1>1, <1>2 DEF Stage

\* What the proofs above say of each stage and of two stages.
LEMMA StageOrder ==
  ASSUME PipelineInv, OrderInv
  PROVE  /\ \A k \in Stages : /\ Stage(k) \in Seq(Lines) /\ Rising(Stage(k))
                              /\ WrittenUnder(Stage(k))
         /\ \A k, l \in Stages : k < l => Under(Stage(k), Stage(l))
  <1>0. /\ Len(batches) \in Nat /\ DOMAIN batches = 1 .. Len(batches)
        /\ tmp \in Seq(Lines) /\ tmp_vec \in Seq(Lines) /\ m_buffer \in Seq(Lines)
    BY DEF PipelineInv, LogInv
  <1>1. \A k \in DOMAIN batches : batches[k] \in Seq(Lines)
    BY LineTypes
  <1>2. ASSUME NEW k \in Stages
        PROVE  Stage(k) \in Seq(Lines) /\ Rising(Stage(k)) /\ WrittenUnder(Stage(k))
    BY <1>0, <1>1, StageIs DEF OrderInv
  <1>3. ASSUME NEW k \in Stages, NEW l \in Stages, k < l
        PROVE  Under(Stage(k), Stage(l))
    <2>1. CASE k = 0 /\ Stage(k) = tmp
      BY <1>0, <1>3, <2>1, StageIs DEF OrderInv
    <2>2. CASE k \in DOMAIN batches /\ Stage(k) = batches[k]
      <3>1. l # 0
        BY <1>0, <1>3, <2>2
      <3> QED
        BY <1>3, <2>2, <3>1, StageIs DEF OrderInv
    <2>3. CASE k = Len(batches) + 1 /\ Stage(k) = tmp_vec
      <3>1. l = Len(batches) + 2 /\ l \notin DOMAIN batches
        BY <1>0, <1>3, <2>3 DEF Stages
      <3>2. l # 0 /\ l # Len(batches) + 1
        BY <1>0, <3>1
      <3>3. Stage(l) = m_buffer
        BY <3>1, <3>2, StageIs
      <3> QED
        BY <2>3, <3>3 DEF OrderInv
    <2>4. CASE k = Len(batches) + 2
      BY <1>0, <1>3, <2>4 DEF Stages
    <2> QED
      BY <2>1, <2>2, <2>3, <2>4, StageIs
  <1> QED
    BY <1>2, <1>3

\* The places of Kept are the stages.
LEMMA KeptOnItsWay ==
  ASSUME PipelineInv, Kept, ~stolen, NEW n \in 1..logged, ~Written(Line(n))
  PROVE  OnItsWay(Line(n))
  <1>0. Len(batches) \in Nat /\ DOMAIN batches = 1 .. Len(batches)
    BY DEF PipelineInv, LogInv
  <1>1. CASE In(Line(n), tmp)
    <2>1. 0 \in Stages /\ Stage(0) = tmp
      BY <1>0 DEF Stages, Stage
    <2> QED
      BY <1>1, <2>1 DEF In, OnItsWay
  <1>2. ASSUME NEW k \in DOMAIN batches, In(Line(n), batches[k])
        PROVE  OnItsWay(Line(n))
    <2>1. k \in Stages /\ Stage(k) = batches[k]
      BY <1>0 DEF Stages, Stage
    <2> QED
      BY <1>2, <2>1 DEF In, OnItsWay
  <1>3. CASE In(Line(n), tmp_vec)
    <2>1. Len(batches) + 1 \in Stages /\ Stage(Len(batches) + 1) = tmp_vec
      BY <1>0 DEF Stages, Stage
    <2> QED
      BY <1>3, <2>1 DEF In, OnItsWay
  <1>4. CASE In(Line(n), m_buffer)
    <2>1. Len(batches) + 2 \in Stages /\ Stage(Len(batches) + 2) = m_buffer
      BY <1>0 DEF Stages, Stage
    <2> QED
      BY <1>4, <2>1 DEF In, OnItsWay
  <1> QED
    BY <1>1, <1>2, <1>3, <1>4 DEF Kept

\* No line is repeated or overtaken, and until the destructor of a guard releases
\* another thread's lock none is lost: a line logged since the process started is
\* either in a file or in exactly one place of the thread's batch, the queue,
\* syncLoop's hands and the buffer, behind the lines logged before it.
THEOREM NoLineLost == Spec => []LinesConserved
  <1>1. Init => PipelineInv /\ OrderInv /\ FileInv /\ Kept
    BY InitPipeline DEF Init, OrderInv, Rising, Under, WrittenUnder, FileInv, Kept
  <1>2. ASSUME PipelineInv, OrderInv, Kept
        PROVE  LinesConserved
    <2>0. starts \in Nat /\ logged \in Nat
      BY <1>2 DEF PipelineInv
    <2>1. ASSUME NEW m \in 1..logged, NEW n \in 1..logged, m <= n,
                 Written(Line(n)), OnItsWay(Line(m))
          PROVE  FALSE
      <3>1. PICK f \in DOMAIN files : \E i \in DOMAIN files[f] : files[f][i] = Line(n)
        BY <2>1 DEF Written
      <3>2. PICK i \in DOMAIN files[f] : files[f][i] = Line(n)
        BY <3>1
      <3>3. PICK k \in Stages : \E j \in DOMAIN Stage(k) : Stage(k)[j] = Line(m)
        BY <2>1 DEF OnItsWay
      <3>4. PICK j \in DOMAIN Stage(k) : Stage(k)[j] = Line(m)
        BY <3>3
      <3>5. WrittenUnder(Stage(k))
        BY <1>2, StageOrder
      <3>6. Line(n).run = starts /\ Line(n).n = n /\ Line(m).n = m
        BY DEF Line
      <3>7. files[f][i].n < Stage(k)[j].n
        BY <3>2, <3>5, <3>6 DEF WrittenUnder
      <3> QED
        BY <2>0, <2>1, <3>2, <3>4, <3>6, <3>7
    <2>2. \A n \in 1..logged : Written(Line(n)) => ~OnItsWay(Line(n))
      BY <2>0, <2>1
    <2>3. ASSUME ~stolen
          PROVE  /\ \A n \in 1..logged : Written(Line(n)) \/ OnItsWay(Line(n))
                 /\ \A m, n \in 1..logged : m < n /\ Written(Line(n)) => Written(Line(m))
      <3>1. \A n \in 1..logged : Written(Line(n)) \/ OnItsWay(Line(n))
        BY <1>2, <2>3, KeptOnItsWay
      <3> QED
        BY <2>0, <2>1, <3>1
    <2>4. ASSUME NEW k \in Stages, NEW i \in DOMAIN Stage(k)
          PROVE  Stage(k)[i] \in {Line(n) : n \in 1..logged}
      <3>1. Stage(k) \in Seq(Lines) /\ Rising(Stage(k))
        BY <1>2, StageOrder
      <3>2. /\ Stage(k)[i] \in Lines /\ Stage(k)[i].run = starts
            /\ Stage(k)[i].n <= logged
        BY <3>1 DEF Rising
      <3>3. Stage(k)[i].n \in 1..logged /\ Stage(k)[i] = Line(Stage(k)[i].n)
        BY <2>0, <3>2 DEF Lines, Line
      <3> QED
        BY <3>3
    <2>5. ASSUME NEW k \in Stages, NEW l \in Stages,
                 NEW i \in DOMAIN Stage(k), NEW j \in DOMAIN Stage(l),
                 k < l \/ (k = l /\ i < j)
          PROVE  Stage(k)[i].n < Stage(l)[j].n
      <3>1. CASE k < l
        BY <1>2, <3>1, StageOrder DEF Under
      <3>2. CASE k = l /\ i < j
        BY <1>2, <3>2, StageOrder DEF Rising
      <3> QED
        BY <2>5, <3>1, <3>2
    <2> QED
      BY <2>2, <2>3, <2>4, <2>5 DEF LinesConserved
  <1> QED
    BY <1>1, <1>2, StepPipeline, StepOrder, StepFile, StepKept, PTL DEF Spec

-----------------------------------------------------------------------------
(* The files are the journal of what was logged.                           *)

\* A write keeps what its file had and adds the batch, whichever file it is.
LEMMA WriteAdds ==
  ASSUME PipelineInv, WriteBatch
  PROVE  \A l : Written(l)' <=> Written(l) \/ In(l, tmp)
  <1>1. PICK f \in Names : WriteTo(f)
    BY Target
  <1>2. /\ DOMAIN files' = DOMAIN files \cup {f}
        /\ \A g \in DOMAIN files : g # f => files'[g] = files[g]
        /\ files'[f] = Content(f) \o tmp /\ Content(f) \in Seq(Lines) /\ tmp \in Seq(Lines)
        /\ f \in DOMAIN files => Content(f) = files[f]
    BY <1>1, WriteEffect
  <1>3. ASSUME NEW g \in DOMAIN files, NEW i \in DOMAIN files[g]
        PROVE  \E j \in DOMAIN files'[g] : files'[g][j] = files[g][i]
    <2>1. CASE g # f
      BY <1>2, <2>1
    <2>2. CASE g = f
      <3>1. files'[g] = files[g] \o tmp /\ files[g] \in Seq(Lines)
        BY <1>2, <2>2
      <3>2. i \in DOMAIN files'[g] /\ files'[g][i] = files[g][i]
        BY <1>2, <3>1
      <3> QED
        BY <3>2
    <2> QED
      BY <2>1, <2>2
  <1>4. ASSUME NEW i \in DOMAIN tmp
        PROVE  \E j \in DOMAIN files'[f] : files'[f][j] = tmp[i]
    <2> DEFINE s == Content(f)
    <2> HIDE DEF s
    <2>1. files'[f] = s \o tmp /\ s \in Seq(Lines)
      BY <1>2 DEF s
    <2>2. Len(s) + i \in DOMAIN files'[f] /\ files'[f][Len(s) + i] = tmp[i]
      BY <1>2, <2>1
    <2> QED
      BY <2>2
  <1>5. ASSUME NEW l, Written(l)'  PROVE Written(l) \/ In(l, tmp)
    <2>1. PICK g \in DOMAIN files' : \E i \in DOMAIN files'[g] : files'[g][i] = l
      BY <1>5 DEF Written
    <2>2. PICK i \in DOMAIN files'[g] : files'[g][i] = l
      BY <2>1
    <2> QED
      BY <1>1, <2>2, LinesAfterWrite DEF Written, In
  <1>6. ASSUME NEW l, Written(l)  PROVE Written(l)'
    BY <1>2, <1>3, <1>6 DEF Written
  <1>7. ASSUME NEW l, In(l, tmp)  PROVE Written(l)'
    BY <1>2, <1>4, <1>7 DEF Written, In
  <1> QED
    BY <1>5, <1>6, <1>7

\* The lines of this run up to the last of the batch are those in the files
\* and those in the batch: no place on the way behind it has one of them.
LEMMA BatchIsNext ==
  ASSUME PipelineInv, OrderInv, Kept, NEW k \in DOMAIN tmp, k = Len(tmp)
  PROVE  /\ tmp[k].n \in 1..logged
         /\ \A l : In(l, tmp) => \E i \in 1..tmp[k].n : l = Line(i)
         /\ ~stolen => \A i \in 1..tmp[k].n : Written(Line(i)) \/ In(Line(i), tmp)
  <1>1. tmp \in Seq(Lines) /\ starts \in Nat /\ logged \in Nat
    BY DEF PipelineInv, LogInv
  <1>2. \A i \in DOMAIN tmp : /\ tmp[i].n \in Nat \ {0} /\ tmp[i] = Line(tmp[i].n)
                              /\ tmp[i].n <= logged
    <2>1. \A l \in Lines : l.n \in Nat \ {0} /\ l = [run |-> l.run, n |-> l.n]
      BY DEF Lines
    <2>2. \A i \in DOMAIN tmp : tmp[i] \in Lines
      BY <1>1
    <2>3. \A i \in DOMAIN tmp : tmp[i].run = starts /\ tmp[i].n <= logged
      BY DEF OrderInv, Rising
    <2> QED
      BY <2>1, <2>2, <2>3 DEF Line
  <1>3. tmp[k].n \in 1..logged
    BY <1>1, <1>2
  <1>4. \A i \in DOMAIN tmp : tmp[i].n <= tmp[k].n
    <2> SUFFICES ASSUME NEW i \in DOMAIN tmp, i # k  PROVE tmp[i].n <= tmp[k].n
      BY <1>2
    <2>1. i < k
      BY <1>1
    <2>2. tmp[i].n < tmp[k].n
      BY <2>1 DEF OrderInv, Rising
    <2> QED
      BY <1>2, <2>2
  <1>5. ASSUME NEW l, In(l, tmp)  PROVE \E i \in 1..tmp[k].n : l = Line(i)
    <2>1. PICK i \in DOMAIN tmp : tmp[i] = l
      BY <1>5 DEF In
    <2>2. tmp[i].n \in 1..tmp[k].n
      BY <1>2, <1>4
    <2> QED
      BY <1>2, <2>1, <2>2
  <1>6. ASSUME NEW i \in 1..tmp[k].n, NEW s, Under(tmp, s)  PROVE ~In(Line(i), s)
    <2> SUFFICES ASSUME NEW j \in DOMAIN s, s[j] = Line(i)  PROVE FALSE
      BY DEF In
    <2>1. tmp[k].n < s[j].n
      BY <1>6 DEF Under
    <2>2. s[j].n = i
      BY DEF Line
    <2> QED
      BY <1>3, <2>1, <2>2
  <1>7. /\ Under(tmp, tmp_vec) /\ Under(tmp, m_buffer)
        /\ \A b \in DOMAIN batches : Under(tmp, batches[b])
    BY DEF OrderInv
  <1>8. ASSUME ~stolen, NEW i \in 1..tmp[k].n
        PROVE  Written(Line(i)) \/ In(Line(i), tmp)
    <2>1. i \in 1..logged
      BY <1>1, <1>3
    <2> HIDE DEF Written, In
    <2> QED
      BY <1>6, <1>7, <1>8, <2>1 DEF Kept
  <1> QED
    BY <1>3, <1>5, <1>8

LEMMA InFilesIsWritten == \A l : l \in InFiles <=> Written(l)
  BY DEF InFiles, Written, ToSet

\* The files are the journal of what was logged: each batch adds to them the
\* lines that follow those they have, all of them until a destructor releases
\* another thread's lock, for any sizes, dates and batches, and pushLog, the
\* swaps, the roll-overs and a new start of the process take no line back.
THEOREM LoggerIsJournal == Spec => ImplementsJournal
  <1>1. Init => /\ PipelineInv /\ OrderInv /\ Kept /\ FileInv
                /\ JournalImpl!Init
    <2>1. Init => PipelineInv /\ OrderInv /\ Kept /\ FileInv
      BY InitPipeline DEF Init, OrderInv, Rising, Under, WrittenUnder, FileInv, Kept
    <2>2. Init => \A l : ~Written(l)
      BY DEF Init, Written
    <2>3. Init => InFiles = {}
      BY <2>2, InFilesIsWritten
    <2> QED
      BY <2>1, <2>3 DEF Init, JournalImpl!Init
  <1>2. ASSUME PipelineInv, OrderInv, Kept, [Next]_vars
        PROVE  [JournalImpl!Next]_(JournalImpl!vars)
    <2>1. ASSUME NEW p \in Loggers, pushLog(p)
          PROVE  [JournalImpl!Next]_(JournalImpl!vars)
      <3>1. /\ logged' = logged + 1 /\ starts' = starts /\ InFiles' = InFiles
            /\ stolen' = stolen
        BY <2>1 DEF pushLog, disk, InFiles
      <3> QED
        BY <3>1 DEF JournalImpl!Next, JournalImpl!Log
    <2>2. CASE WriteBatch
      <3>1. /\ tmp \in Seq(Lines) /\ tmp # <<>> /\ starts' = starts /\ logged' = logged
            /\ stolen' = stolen /\ stolen \in BOOLEAN /\ logged \in Nat
        BY <1>2, <2>2 DEF PipelineInv, LogInv, WriteBatch, Goto
      <3> DEFINE k == Len(tmp)
      <3>2. k \in DOMAIN tmp
        BY <3>1
      <3>3. /\ tmp[k].n \in 1..logged
            /\ \A l : In(l, tmp) => \E i \in 1..tmp[k].n : l = Line(i)
            /\ ~stolen => \A i \in 1..tmp[k].n : Written(Line(i)) \/ In(Line(i), tmp)
        BY <1>2, <3>2, BatchIsNext
      <3>4. \A l : Written(l)' <=> Written(l) \/ In(l, tmp)
        BY <1>2, <2>2, WriteAdds
      <3>5. \A l : l \in InFiles' <=> Written(l)'
        BY InFilesIsWritten DEF InFiles, Written, ToSet
      <3>6. \A n, l : l \in JournalImpl!FirstLines(n) <=> \E i \in 1..n : l = Line(i)
        BY DEF JournalImpl!FirstLines, Line
      <3>7. CASE ~stolen
        <4>1. InFiles' = InFiles \cup JournalImpl!FirstLines(tmp[k].n)
          <5> HIDE DEF InFiles, Written, In, k
          <5>1. \A l : l \in InFiles' <=> l \in InFiles \cup JournalImpl!FirstLines(tmp[k].n)
            BY <3>3, <3>4, <3>5, <3>6, <3>7, InFilesIsWritten
          <5> QED
            BY <5>1
        <4>2. JournalImpl!Keep(tmp[k].n)
          BY <3>1, <4>1 DEF JournalImpl!Keep
        <4> QED
          BY <3>3, <4>2 DEF JournalImpl!Next
      <3>8. CASE stolen
        <4>1. InFiles \subseteq InFiles'
          <5> HIDE DEF InFiles, Written, In
          <5> QED
            BY <3>4, <3>5, InFilesIsWritten
        <4>2. InFiles' \subseteq InFiles \cup JournalImpl!FirstLines(logged)
          <5> SUFFICES ASSUME NEW l \in InFiles', l \notin InFiles
                       PROVE  l \in JournalImpl!FirstLines(logged)
            OBVIOUS
          <5>1. In(l, tmp)
            BY <3>4, <3>5, InFilesIsWritten
          <5>2. PICK i \in 1..tmp[k].n : l = Line(i)
            BY <3>3, <5>1
          <5> HIDE DEF k
          <5>3. i \in 1..logged
            BY <3>1, <3>3, <5>2
          <5> QED
            BY <3>6, <5>2, <5>3
        <4>3. JournalImpl!KeepSome
          BY <3>1, <3>8, <4>1, <4>2 DEF JournalImpl!KeepSome
        <4> QED
          BY <4>3 DEF JournalImpl!Next
      <3> QED
        BY <3>7, <3>8
    <2>3. CASE Restart
      <3>1. starts' = starts + 1 /\ logged' = 0 /\ InFiles' = InFiles /\ stolen' = FALSE
        BY <2>3 DEF Restart, InFiles
      <3> QED
        BY <3>1 DEF JournalImpl!Next, JournalImpl!Die
    <2>4. CASE UNCHANGED <<files, logged, starts>> /\ (~stolen' => ~stolen)
      <3>1. UNCHANGED <<InFiles, logged, starts>>
        BY <2>4 DEF InFiles
      <3>2. stolen \in BOOLEAN /\ stolen' \in BOOLEAN
        <4>1. PipelineInv'
          BY <1>2, StepPipeline
        <4> QED
          BY <1>2, <4>1 DEF PipelineInv, LogInv
      <3>3. stolen' = TRUE \/ stolen' = stolen
        BY <2>4, <3>2
      <3> HIDE DEF InFiles
      <3> QED
        BY <3>1, <3>3 DEF JournalImpl!vars, JournalImpl!Next, JournalImpl!Break
    <2> QED
      BY <1>2, <2>1, <2>2, <2>3, <2>4, Steps
         DEF SyncSwap, pushLogBuffer, TakeBatch, NextDay, disk
  <1> QED
    BY <1>1, <1>2, StepPipeline, StepOrder, StepFile, StepKept, PTL
       DEF Spec, ImplementsJournal, JournalImpl!Spec
=============================================================================
