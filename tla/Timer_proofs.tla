---------------------------- MODULE Timer_proofs ----------------------------
(* Timer for any threads, events, intervals and clock.                       *)
EXTENDS Timer, FiniteSetTheorems, SequenceTheorems, TLAPS

LEMMA FirstsAreEntries ==
  ASSUME m_pending_events \subseteq Entries
  PROVE  \A x \in Firsts(m_pending_events) : x \in m_pending_events /\ x.ev \in Events
  BY DEF Firsts, Entries

\* A thread that returns from a Timer function or goes on to resetArriveTime.
LEMMA InsertKeeps ==
  ASSUME TimerInv, NEW t \in Threads, NEW e \in Events, NEW at \in Nat,
         Insert(t, e, at, pc[t]), pc[t] \in {"idle", "run", "repeat"},
         t \in Callers => pc[t] = "idle"
  PROVE  /\ now' \in 0..MaxNow /\ expiry' \in Nat /\ fired' \in BOOLEAN
         /\ m_arrive_time' \in [Events -> Nat]
         /\ m_is_cancled' \in [Events -> BOOLEAN]
         /\ m_pending_events' \subseteq Entries /\ IsFiniteSet(m_pending_events')
         /\ pc' \in [Threads -> Points] /\ return' \in [Threads -> Points]
         /\ first' \in [Threads -> Events \cup {None}]
         /\ \A u \in Threads : pc'[u] = "settime" <=> first'[u] # None
         /\ \A u \in Callers : /\ pc'[u] \in {"idle", "snapshot", "settime"}
                               /\ return'[u] = "idle"
         /\ return'[Loop] \in {"idle", "repeat", "run"}
         /\ \/ pc' = pc
            \/ pc' = [pc EXCEPT ![t] = "snapshot"]
         /\ return' = [return EXCEPT ![t] = pc[t]]
  <1>1. /\ TypeOK
        /\ \A u \in Threads : pc[u] = "settime" <=> first[u] # None
        /\ \A u \in Callers : /\ pc[u] \in {"idle", "snapshot", "settime"}
                              /\ return[u] = "idle"
        /\ return[Loop] \in {"idle", "repeat", "run"}
    BY DEF TimerInv
  <1>2. /\ now' = now /\ m_is_cancled' = m_is_cancled /\ expiry' = expiry
        /\ fired' = fired /\ first' = first
        /\ m_arrive_time' = [m_arrive_time EXCEPT ![e] = at]
        /\ m_pending_events' = m_pending_events \cup {[at |-> at, ev |-> e]}
        /\ return' = [return EXCEPT ![t] = pc[t]]
        /\ \/ pc' = [pc EXCEPT ![t] = pc[t]]
           \/ pc' = [pc EXCEPT ![t] = "snapshot"]
    BY DEF Insert, Call
  <1>3. \/ pc' = pc
        \/ pc' = [pc EXCEPT ![t] = "snapshot"]
    BY <1>1, <1>2 DEF TypeOK
  <1>4. IsFiniteSet(m_pending_events')
    BY <1>1, <1>2, FS_AddElement DEF TypeOK
  <1>5. m_pending_events' \subseteq Entries
    BY <1>1, <1>2 DEF TypeOK, Entries
  <1>6. /\ m_arrive_time' \in [Events -> Nat]
        /\ pc' \in [Threads -> Points] /\ return' \in [Threads -> Points]
    BY <1>1, <1>2 DEF TypeOK, Points
  <1>7. \A u \in Threads : pc'[u] = "settime" <=> first'[u] # None
    BY <1>1, <1>2, <1>3 DEF TypeOK
  <1>8. \A u \in Callers : /\ pc'[u] \in {"idle", "snapshot", "settime"}
                           /\ return'[u] = "idle"
    BY <1>1, <1>2, <1>3 DEF TypeOK, Threads
  <1>9. return'[Loop] \in {"idle", "repeat", "run"}
    BY <1>1, <1>2 DEF TypeOK, Threads
  <1> QED
    BY <1>1, <1>2, <1>3, <1>4, <1>5, <1>6, <1>7, <1>8, <1>9 DEF TypeOK

\* The callbacks taken by onTimer are those of events.
LEMMA CollectTypes ==
  ASSUME TypeOK, Collect
  PROVE  tasks' \in Seq(Events) /\ tmps' \in Seq(Events)
  <1> DEFINE live == {x \in {y \in m_pending_events : y.at <= now} : ~m_is_cancled[x.ev]}
  <1>1. PICK s \in ByKey(live) : /\ tasks' = [i \in DOMAIN s |-> s[i].ev]
                                 /\ tmps' = tasks'
    BY DEF Collect
  <1>2. IsFiniteSet(live)
    <2>1. IsFiniteSet(m_pending_events) /\ live \subseteq m_pending_events
      BY DEF TypeOK
    <2> QED
      BY <2>1, FS_Subset
  <1>3. Cardinality(live) \in Nat /\ live \subseteq Entries
    BY <1>2, FS_CardinalityType DEF TypeOK
  <1> HIDE DEF live
  <1>4. s \in [1..Cardinality(live) -> live]
    BY <1>1 DEF ByKey
  <1>5. tasks' \in [1..Cardinality(live) -> Events]
    BY <1>1, <1>3, <1>4 DEF Entries
  <1>6. tasks' \in Seq(Events)
    BY <1>3, <1>5, SeqDef
  <1> QED
    BY <1>1, <1>6

LEMMA SequenceFacts ==
  ASSUME NEW s \in Seq(Events), s # <<>>
  PROVE  Head(s) \in Events /\ Tail(s) \in Seq(Events)
  OBVIOUS
-----------------------------------------------------------------------------
LEMMA InitTyped == Init => TimerInv
  <1> SUFFICES ASSUME Init PROVE TimerInv
    OBVIOUS
  <1> USE TimerAssumption
  <1>1. TypeOK
    <2>1. IsFiniteSet(m_pending_events)
      BY FS_EmptySet DEF Init
    <2>2. tmps \in Seq(Events) /\ tasks \in Seq(Events)
      BY DEF Init
    <2>3. m_is_cancled \in [Events -> BOOLEAN] /\ fired \in BOOLEAN
      BY DEF Init
    <2>4. /\ now \in 0..MaxNow /\ expiry \in Nat
          /\ m_arrive_time \in [Events -> Nat] /\ lateRuns \in [Events -> Nat]
      BY DEF Init
    <2>5. /\ m_pending_events \subseteq Entries
          /\ pc \in [Threads -> Points] /\ return \in [Threads -> Points]
          /\ first \in [Threads -> Events \cup {None}]
          /\ added \subseteq Events /\ users \subseteq Threads /\ deleted \subseteq Events
      BY DEF Init, Points
    <2> QED
      BY <2>1, <2>2, <2>3, <2>4, <2>5 DEF TypeOK
  <1> QED
    BY <1>1 DEF Init, TimerInv, Threads

\* Every action that is not an insertion leaves most of the Timer alone.
LEMMA StepTyped ==
  ASSUME TimerInv, [Next]_vars
  PROVE  TimerInv'
  <1> USE TimerAssumption
  <1>1. /\ TypeOK
        /\ \A u \in Threads : pc[u] = "settime" <=> first[u] # None
        /\ \A u \in Callers : /\ pc[u] \in {"idle", "snapshot", "settime"}
                              /\ return[u] = "idle"
        /\ return[Loop] \in {"idle", "repeat", "run"}
        /\ tmps # <<>> => \/ pc[Loop] = "repeat"
                          \/ /\ pc[Loop] \in {"snapshot", "settime"}
                             /\ return[Loop] = "repeat"
    BY DEF TimerInv
  <1>2. ASSUME NEW t \in Threads, Snapshot(t) PROVE TimerInv'
    <2>1. /\ now' = now /\ m_arrive_time' = m_arrive_time
          /\ m_is_cancled' = m_is_cancled /\ m_pending_events' = m_pending_events
          /\ expiry' = expiry /\ fired' = fired /\ return' = return
          /\ tmps' = tmps /\ tasks' = tasks /\ added' = added
          /\ deleted' = deleted /\ lateRuns' = lateRuns /\ users' = users
      BY <1>2 DEF Snapshot, batch, history
    <2>2. \/ /\ pc' = [pc EXCEPT ![t] = return[t]] /\ first' = first
          \/ /\ pc' = [pc EXCEPT ![t] = "settime"]
             /\ \E e \in Events : first' = [first EXCEPT ![t] = e]
      <3>1. \A x \in Firsts(m_pending_events) : x.ev \in Events
        BY <1>1, FirstsAreEntries DEF TypeOK
      <3> QED
        BY <1>2, <3>1, Zenon DEF Snapshot
    <2>3. pc[t] = "snapshot"
      BY <1>2 DEF Snapshot
    <2>4. pc' \in [Threads -> Points] /\ first' \in [Threads -> Events \cup {None}]
      <3>1. "settime" \in Points
        BY DEF Points
      <3>2. /\ pc \in [Threads -> Points] /\ return[t] \in Points
            /\ first \in [Threads -> Events \cup {None}]
        BY <1>1 DEF TypeOK
      <3> QED
        BY <2>2, <3>1, <3>2
    <2>5. TypeOK'
      BY <1>1, <2>1, <2>4 DEF TypeOK
    <2>6. \A u \in Threads : pc'[u] = "settime" <=> first'[u] # None
      BY <1>1, <2>2, <2>3 DEF TypeOK, Threads
    <2>7. \A u \in Callers : pc'[u] \in {"idle", "snapshot", "settime"}
      BY <1>1, <2>2 DEF TypeOK, Threads
    <2>8. tmps' # <<>> => \/ pc'[Loop] = "repeat"
                          \/ /\ pc'[Loop] \in {"snapshot", "settime"}
                             /\ return'[Loop] = "repeat"
      BY <1>1, <2>1, <2>2, <2>3 DEF TypeOK, Threads
    <2> QED
      BY <1>1, <2>1, <2>5, <2>6, <2>7, <2>8 DEF TimerInv
  <1>3. ASSUME NEW t \in Threads, SetTime(t) PROVE TimerInv'
    <2>1. /\ now' = now /\ m_arrive_time' = m_arrive_time
          /\ m_is_cancled' = m_is_cancled /\ m_pending_events' = m_pending_events
          /\ fired' = fired /\ return' = return
          /\ tmps' = tmps /\ tasks' = tasks /\ added' = added
          /\ deleted' = deleted /\ lateRuns' = lateRuns /\ users' = users
          /\ pc' = [pc EXCEPT ![t] = return[t]] /\ first' = [first EXCEPT ![t] = None]
          /\ pc[t] = "settime"
      BY <1>3 DEF SetTime, batch, history
    <2>2. expiry' \in Nat
      <3>1. first[t] \in Events
        BY <1>1, <2>1 DEF TypeOK
      <3>2. m_arrive_time[first[t]] \in Nat /\ now \in Nat /\ Retry \in Nat
        BY <1>1, <3>1 DEF TypeOK
      <3> QED
        BY <1>3, <3>2 DEF SetTime
    <2>4. pc' \in [Threads -> Points] /\ first' \in [Threads -> Events \cup {None}]
      BY <1>1, <2>1 DEF TypeOK, Points
    <2>5. TypeOK'
      BY <1>1, <2>1, <2>2, <2>4 DEF TypeOK
    <2>6. \A u \in Threads : pc'[u] = "settime" <=> first'[u] # None
      BY <1>1, <2>1 DEF TypeOK, Threads
    <2>7. \A u \in Callers : pc'[u] \in {"idle", "snapshot", "settime"}
      BY <1>1, <2>1 DEF TypeOK, Threads
    <2>8. tmps' # <<>> => \/ pc'[Loop] = "repeat"
                          \/ /\ pc'[Loop] \in {"snapshot", "settime"}
                             /\ return'[Loop] = "repeat"
      BY <1>1, <2>1 DEF TypeOK, Threads
    <2> QED
      BY <1>1, <2>1, <2>5, <2>6, <2>7, <2>8 DEF TimerInv
  <1>4. ASSUME NEW t \in Threads, NEW e \in Events, addTimerEvent(t, e)
        PROVE  TimerInv'
    <2>1. PICK built \in 0..now : Insert(t, e, built + m_interval[e], pc[t])
      BY <1>4 DEF addTimerEvent
    <2>2. built + m_interval[e] \in Nat
      BY <1>1 DEF TypeOK
    <2>3. /\ pc[t] \in {"idle", "run", "repeat"} /\ pc[t] # "repeat"
          /\ (t \in Callers => pc[t] = "idle")
          /\ tmps' = tmps /\ tasks' = tasks /\ added' = added \cup {e}
          /\ deleted' = deleted /\ lateRuns' = lateRuns
          /\ users' = users \cup {t}
      BY <1>1, <1>4 DEF addTimerEvent, MayCall, batch
    <2> DEFINE at == built + m_interval[e]
    <2> HIDE DEF at
    <2>4. Insert(t, e, at, pc[t]) /\ at \in Nat
      BY <2>1, <2>2 DEF at
    <2>5. /\ now' \in 0..MaxNow /\ expiry' \in Nat /\ fired' \in BOOLEAN
          /\ m_arrive_time' \in [Events -> Nat]
          /\ m_is_cancled' \in [Events -> BOOLEAN]
          /\ m_pending_events' \subseteq Entries /\ IsFiniteSet(m_pending_events')
          /\ pc' \in [Threads -> Points] /\ return' \in [Threads -> Points]
          /\ first' \in [Threads -> Events \cup {None}]
          /\ \A u \in Threads : pc'[u] = "settime" <=> first'[u] # None
          /\ \A u \in Callers : /\ pc'[u] \in {"idle", "snapshot", "settime"}
                                /\ return'[u] = "idle"
          /\ return'[Loop] \in {"idle", "repeat", "run"}
          /\ \/ pc' = pc
             \/ pc' = [pc EXCEPT ![t] = "snapshot"]
          /\ return' = [return EXCEPT ![t] = pc[t]]
      BY <2>3, <2>4, InsertKeeps
    <2>6. tmps' # <<>> => \/ pc'[Loop] = "repeat"
                          \/ /\ pc'[Loop] \in {"snapshot", "settime"}
                             /\ return'[Loop] = "repeat"
      BY <1>1, <2>3, <2>5 DEF TypeOK, Threads
    <2>7. TypeOK'
      BY <1>1, <2>3, <2>5 DEF TypeOK
    <2> QED
      BY <2>5, <2>6, <2>7 DEF TimerInv
  <1>5. ASSUME NEW t \in Threads, NEW e \in Events, deleteTimerEvent(t, e)
        PROVE  TimerInv'
    <2>1. /\ m_is_cancled' = [m_is_cancled EXCEPT ![e] = TRUE]
          /\ m_pending_events' \subseteq m_pending_events
          /\ deleted' = deleted \cup {e}
          /\ now' = now /\ m_arrive_time' = m_arrive_time
          /\ expiry' = expiry /\ fired' = fired /\ return' = return
          /\ pc' = pc /\ first' = first
          /\ tmps' = tmps /\ tasks' = tasks /\ added' = added /\ lateRuns' = lateRuns /\ users' = users
      BY <1>5 DEF deleteTimerEvent, batch
    <2>2. IsFiniteSet(m_pending_events') /\ m_pending_events' \subseteq Entries
      BY <1>1, <2>1, FS_Subset DEF TypeOK
    <2>3. TypeOK'
      BY <1>1, <2>1, <2>2 DEF TypeOK
    <2> QED
      BY <1>1, <2>1, <2>3 DEF TimerInv
  <1>6. ASSUME NEW e \in Events, setCancled(e) PROVE TimerInv'
    <2>1. /\ m_is_cancled' = [m_is_cancled EXCEPT ![e] = TRUE]
          /\ UNCHANGED <<now, m_arrive_time, m_pending_events, expiry, fired, pc,
                         return, first, tmps, tasks, added, deleted, users, lateRuns>>
      BY <1>6 DEF setCancled, batch, history
    <2>2. TypeOK'
      BY <1>1, <2>1 DEF TypeOK
    <2> QED
      BY <1>1, <2>1, <2>2 DEF TimerInv
  <1>7. CASE Fire \/ Tick
    <2>1. /\ now' \in 0..MaxNow /\ fired' \in BOOLEAN
          /\ UNCHANGED <<m_arrive_time, m_is_cancled, m_pending_events, expiry, pc,
                         return, first, tmps, tasks, added, deleted, users, lateRuns>>
      <3>1. CASE Fire
        BY <1>1, <3>1 DEF Fire, TypeOK, batch, history
      <3>2. CASE Tick
        <4>1. /\ fired' = fired /\ now' = now + 1 /\ now < MaxNow
              /\ UNCHANGED <<m_arrive_time, m_is_cancled, m_pending_events, expiry,
                             pc, return, first, tmps, tasks, added, deleted,
                             users, lateRuns>>
          BY <3>2 DEF Tick, batch, history
        <4>2. now' \in 0..MaxNow
          BY <1>1, <4>1 DEF TypeOK
        <4>3. fired' \in BOOLEAN
          BY <1>1, <4>1 DEF TypeOK
        <4> QED
          BY <4>1, <4>2, <4>3
      <3> QED
        BY <1>7, <3>1, <3>2
    <2>2. TypeOK'
      BY <1>1, <2>1 DEF TypeOK
    <2> QED
      BY <1>1, <2>1, <2>2 DEF TimerInv
  <1>8. CASE Drain
    <2>1. /\ pc[Loop] = "idle" /\ fired' = FALSE
          /\ expiry' = expiry \/ expiry' = 0
          /\ pc' = [pc EXCEPT ![Loop] = "collect"]
          /\ UNCHANGED <<now, m_arrive_time, m_is_cancled, m_pending_events, return,
                         first, tmps, tasks, added, deleted, users, lateRuns>>
      BY <1>8 DEF Drain, batch, history
    <2>2. pc' \in [Threads -> Points]
      BY <1>1, <2>1 DEF TypeOK, Points
    <2>4. expiry' \in Nat
      BY <1>1, <2>1 DEF TypeOK
    <2>5. fired' \in BOOLEAN
      BY <2>1
    <2>3. TypeOK'
      BY <1>1, <2>1, <2>2, <2>4, <2>5 DEF TypeOK
    <2> QED
      BY <1>1, <2>1, <2>3 DEF TimerInv, TypeOK, Threads
  <1>9. CASE Collect
    <2>1. /\ pc[Loop] = "collect"
          /\ m_pending_events' \subseteq m_pending_events
          /\ pc' = [pc EXCEPT ![Loop] = "repeat"]
          /\ UNCHANGED <<now, m_arrive_time, m_is_cancled, expiry, fired, return,
                         first, added, deleted, users, lateRuns>>
      BY <1>9 DEF Collect, history
    <2>2. pc' \in [Threads -> Points]
      BY <1>1, <2>1 DEF TypeOK, Points
    <2>3. IsFiniteSet(m_pending_events') /\ m_pending_events' \subseteq Entries
      BY <1>1, <2>1, FS_Subset DEF TypeOK
    <2>4. tasks' \in Seq(Events) /\ tmps' \in Seq(Events)
      BY <1>1, <1>9, CollectTypes
    <2>5. TypeOK'
      BY <1>1, <2>1, <2>2, <2>3, <2>4 DEF TypeOK
    <2> QED
      BY <1>1, <2>1, <2>5 DEF TimerInv, TypeOK, Threads
  <1>10. CASE Repeat
    <2> DEFINE e == Head(tmps)
    <2>1. /\ pc[Loop] = "repeat" /\ tmps # <<>> /\ tmps' = Tail(tmps)
          /\ tasks' = tasks /\ added' = added /\ deleted' = deleted
          /\ lateRuns' = lateRuns /\ users' = users
      BY <1>10 DEF Repeat, history
    <2>2. e \in Events /\ tmps' \in Seq(Events)
      BY <1>1, <2>1, SequenceFacts DEF TypeOK
    <2>3. CASE e \notin Repeated
      <3>1. UNCHANGED <<now, m_arrive_time, m_is_cancled, m_pending_events,
                        expiry, fired, pc, return, first>>
        BY <1>10, <2>3 DEF Repeat
      <3>2. TypeOK'
        BY <1>1, <2>1, <2>2, <3>1 DEF TypeOK
      <3> QED
        BY <1>1, <2>1, <3>1, <3>2 DEF TimerInv
    <2>4. CASE e \in Repeated
      <3> DEFINE at == now + m_interval[e]
      <3>1. Insert(Loop, e, at, "repeat")
        BY <1>10, <2>4 DEF Repeat
      <3>2. at \in Nat /\ Loop \in Threads /\ Loop \notin Callers
        BY <1>1, <2>2 DEF TypeOK, Threads
      <3> HIDE DEF at, e
      <3>3. Insert(Loop, e, at, pc[Loop])
        BY <2>1, <3>1
      <3>5. /\ now' \in 0..MaxNow /\ expiry' \in Nat /\ fired' \in BOOLEAN
            /\ m_arrive_time' \in [Events -> Nat]
            /\ m_is_cancled' \in [Events -> BOOLEAN]
            /\ m_pending_events' \subseteq Entries /\ IsFiniteSet(m_pending_events')
            /\ pc' \in [Threads -> Points] /\ return' \in [Threads -> Points]
            /\ first' \in [Threads -> Events \cup {None}]
            /\ \A u \in Threads : pc'[u] = "settime" <=> first'[u] # None
            /\ \A u \in Callers : /\ pc'[u] \in {"idle", "snapshot", "settime"}
                                  /\ return'[u] = "idle"
            /\ return'[Loop] \in {"idle", "repeat", "run"}
            /\ \/ pc' = pc
               \/ pc' = [pc EXCEPT ![Loop] = "snapshot"]
            /\ return' = [return EXCEPT ![Loop] = pc[Loop]]
        BY <2>1, <2>2, <3>2, <3>3, InsertKeeps
      <3>6. \/ pc'[Loop] = "repeat"
            \/ /\ pc'[Loop] = "snapshot" /\ return'[Loop] = "repeat"
        BY <1>1, <2>1, <3>2, <3>5 DEF TypeOK
      <3>7. TypeOK'
        BY <1>1, <2>1, <2>2, <3>5 DEF TypeOK
      <3> QED
        BY <3>5, <3>6, <3>7 DEF TimerInv
    <2> QED
      BY <2>3, <2>4
  <1>11. CASE Rearm
    <2>1. /\ pc[Loop] = "repeat" /\ tmps = <<>>
          /\ pc' = [pc EXCEPT ![Loop] = "snapshot"]
          /\ return' = [return EXCEPT ![Loop] = "run"]
          /\ UNCHANGED <<now, m_arrive_time, m_is_cancled, m_pending_events, expiry,
                         fired, first, tmps, tasks, added, deleted, users, lateRuns>>
      BY <1>11 DEF Rearm, Call, batch, history
    <2>2. pc' \in [Threads -> Points] /\ return' \in [Threads -> Points]
      BY <1>1, <2>1 DEF TypeOK, Points
    <2>3. TypeOK'
      BY <1>1, <2>1, <2>2 DEF TypeOK
    <2> QED
      BY <1>1, <2>1, <2>3 DEF TimerInv, TypeOK, Threads
  <1>12. CASE Run
    <2>1. /\ pc[Loop] = "run"
          /\ pc' = pc \/ pc' = [pc EXCEPT ![Loop] = "idle"]
          /\ UNCHANGED <<now, m_arrive_time, m_is_cancled, m_pending_events, expiry,
                         fired, return, first, tmps, added, users, deleted>>
      BY <1>12 DEF Run
    <2>2. pc' \in [Threads -> Points]
      BY <1>1, <2>1 DEF TypeOK, Points
    <2>3. tasks' \in Seq(Events) /\ lateRuns' \in [Events -> Nat]
      <3>1. CASE tasks = <<>>
        BY <1>1, <1>12, <3>1 DEF Run, TypeOK
      <3>2. CASE tasks # <<>>
        <4>1. Head(tasks) \in Events /\ Tail(tasks) \in Seq(Events)
          BY <1>1, <3>2, SequenceFacts DEF TypeOK
        <4>2. tasks' = Tail(tasks)
          BY <1>12, <3>2 DEF Run
        <4>3. \/ lateRuns' = lateRuns
              \/ lateRuns' = [lateRuns EXCEPT ![Head(tasks)] = @ + 1]
          BY <1>12, <3>2, Zenon DEF Run
        <4>4. lateRuns \in [Events -> Nat]
          BY <1>1 DEF TypeOK
        <4>5. lateRuns' \in [Events -> Nat]
          <5> DEFINE ev == Head(tasks)
          <5>1. ev \in Events /\ lateRuns[ev] + 1 \in Nat
            BY <4>1, <4>4
          <5> HIDE DEF ev
          <5> QED
            BY <4>3, <4>4, <5>1 DEF ev
        <4> QED
          BY <4>1, <4>2, <4>5
      <3> QED
        BY <3>1, <3>2
    <2>4. TypeOK'
      BY <1>1, <2>1, <2>2, <2>3 DEF TypeOK
    <2> QED
      BY <1>1, <2>1, <2>4 DEF TimerInv, TypeOK, Threads
  <1>13. CASE UNCHANGED vars
    BY <1>1, <1>13 DEF vars, TypeOK, TimerInv
  <1> QED
    BY <1>2, <1>3, <1>4, <1>5, <1>6, <1>7, <1>8, <1>9, <1>10, <1>11, <1>12, <1>13
    DEF Next

\* The Timer's variables are what they are taken for, and onTimer belongs to
\* the loop's thread, whatever the other threads call.
THEOREM Typing == Spec => []TimerInv
  BY InitTyped, StepTyped, PTL DEF Spec
-----------------------------------------------------------------------------
\* Threads that neither arm nor run onTimer do not disturb one that does.
LEMMA InsertArms ==
  ASSUME TimerInv, NEW t \in Threads, NEW e, NEW at,
         Insert(t, e, at, pc[t]), pc[t] \in {"idle", "run", "repeat"},
         NeverForgotten
  PROVE  expiry' # 0 \/ Arming'
  <1>1. pc \in [Threads -> Points]
    BY DEF TimerInv, TypeOK
  <1>2. CASE pc' = [pc EXCEPT ![t] = "snapshot"]
    <2>1. pc'[t] \in {"snapshot", "settime"}
      BY <1>1, <1>2
    <2> QED
      BY <2>1 DEF Arming
  <1>3. CASE ~(pc' = [pc EXCEPT ![t] = "snapshot"])
    <2>1. m_pending_events # {} /\ pc' = [pc EXCEPT ![t] = pc[t]]
      BY <1>3 DEF Insert, Call
    <2>2. pc' = pc /\ fired' = fired /\ expiry' = expiry
      BY <1>1, <2>1 DEF Insert
    <2> QED
      BY <2>1, <2>2 DEF NeverForgotten, Arming
  <1> QED
    BY <1>2, <1>3

\* timer.cc never leaves a timer event without a timerfd that will report it,
\* although addTimerEvent decides under the mutex and arms the timerfd after
\* unlocking it, and onTimer empties the map and arms in separate sections.
THEOREM NothingForgotten == Spec => []NeverForgotten
  <1> USE TimerAssumption
  <1>1. Init => NeverForgotten
    BY DEF Init, NeverForgotten
  <1>2. ASSUME TimerInv, NeverForgotten, [Next]_vars
        PROVE  NeverForgotten'
    <2>0. /\ pc \in [Threads -> Points] /\ return \in [Threads -> Points]
          /\ Loop \in Threads
          /\ (m_pending_events # {} => expiry # 0 \/ Arming)
      BY <1>2 DEF TimerInv, TypeOK, Threads, NeverForgotten
    <2>1. ASSUME NEW t \in Threads, Snapshot(t) PROVE NeverForgotten'
      <3>1. CASE m_pending_events = {}
        BY <2>1, <3>1 DEF Snapshot, NeverForgotten
      <3>2. CASE m_pending_events # {}
        <4>1. pc'[t] = "settime"
          BY <2>0, <2>1, <3>2 DEF Snapshot
        <4> QED
          BY <4>1 DEF NeverForgotten, Arming
      <3> QED
        BY <3>1, <3>2
    <2>2. ASSUME NEW t \in Threads, SetTime(t) PROVE NeverForgotten'
      <3>1. first[t] \in Events
        BY <1>2, <2>2 DEF SetTime, TimerInv, TypeOK
      <3>2. m_arrive_time[first[t]] \in Nat /\ now \in Nat /\ Retry \in Nat \ {0}
        BY <1>2, <3>1 DEF TimerInv, TypeOK
      <3>3. expiry' # 0
        BY <2>2, <3>2 DEF SetTime
      <3> QED
        BY <3>3 DEF NeverForgotten
    <2>3. ASSUME NEW t \in Threads, NEW e \in Events, addTimerEvent(t, e)
          PROVE  NeverForgotten'
      <3>1. PICK built \in 0..now : Insert(t, e, built + m_interval[e], pc[t])
        BY <2>3 DEF addTimerEvent
      <3>2. pc[t] \in {"idle", "run", "repeat"}
        BY <2>3 DEF addTimerEvent, MayCall
      <3> DEFINE at == built + m_interval[e]
      <3> HIDE DEF at
      <3>3. Insert(t, e, at, pc[t])
        BY <3>1 DEF at
      <3> QED
        BY <1>2, <3>2, <3>3, InsertArms DEF NeverForgotten
    <2>4. CASE \/ \E t \in Threads, e \in Events : deleteTimerEvent(t, e)
               \/ \E e \in Events : setCancled(e)
               \/ Tick
               \/ UNCHANGED vars
      <3>1. /\ m_pending_events' \subseteq m_pending_events /\ pc' = pc
            /\ expiry' = expiry /\ fired' = fired
        BY <2>4 DEF deleteTimerEvent, setCancled, Tick, vars
      <3> QED
        BY <2>0, <3>1 DEF NeverForgotten, Arming
    <2>5. CASE Fire \/ Drain \/ Collect \/ Rearm
      <3>1. \/ fired' = TRUE
            \/ pc'[Loop] \in {"collect", "repeat", "snapshot"}
        BY <2>0, <2>5 DEF Fire, Drain, Collect, Rearm, Call
      <3> QED
        BY <2>0, <3>1 DEF NeverForgotten, Arming
    <2>6. CASE Repeat
      <3> DEFINE e == Head(tmps)
                 at == now + m_interval[e]
      <3>1. CASE e \in Repeated
        <4>1. Insert(Loop, e, at, pc[Loop]) /\ pc[Loop] = "repeat"
          BY <2>6, <3>1 DEF Repeat
        <4> HIDE DEF at, e
        <4> QED
          BY <1>2, <2>0, <4>1, InsertArms DEF NeverForgotten
      <3>2. CASE e \notin Repeated
        <4>1. pc' = pc /\ pc[Loop] = "repeat"
          BY <2>6, <3>2 DEF Repeat
        <4> QED
          BY <4>1 DEF NeverForgotten, Arming
      <3> QED
        BY <3>1, <3>2
    <2>7. CASE Run
      <3>1. /\ pc[Loop] = "run"
            /\ pc' = pc \/ pc' = [pc EXCEPT ![Loop] = "idle"]
            /\ m_pending_events' = m_pending_events
            /\ expiry' = expiry /\ fired' = fired
        BY <2>7 DEF Run
      <3>2. \A t \in Threads : pc[t] \in {"snapshot", "settime"} => pc'[t] = pc[t]
        BY <2>0, <3>1
      <3>3. Arming => Arming'
        BY <3>1, <3>2 DEF Arming
      <3> QED
        BY <2>0, <3>1, <3>3 DEF NeverForgotten
    <2> QED
      BY <1>2, <2>1, <2>2, <2>3, <2>4, <2>5, <2>6, <2>7 DEF Next
  <1> QED
    BY <1>1, <1>2, Typing, PTL DEF Spec
-----------------------------------------------------------------------------
\* No event is twice in the map, or in what onTimer has taken out of it and
\* will put back; a cancelled event is not taken again.
Distinct(s) == \A i, j \in 1..Len(s) : s[i] = s[j] => i = j

BatchInv ==
  /\ \A x, y \in m_pending_events : x.ev = y.ev => x = y
  /\ \A x \in m_pending_events : x.ev \in added
  /\ \A i \in 1..Len(tmps) : /\ tmps[i] \in added
                             /\ \A x \in m_pending_events : x.ev # tmps[i]
  /\ Distinct(tmps)
  /\ Distinct(tasks)
  /\ \A e \in deleted : m_is_cancled[e]
  /\ \A e \in Events : /\ lateRuns[e] <= 1
                       /\ lateRuns[e] > 0 => /\ e \in deleted
                                             /\ \A i \in 1..Len(tasks) : tasks[i] # e

LEMMA DistinctTail ==
  ASSUME NEW s \in Seq(Events), s # <<>>, Distinct(s)
  PROVE  /\ Distinct(Tail(s))
         /\ Head(s) = s[1] /\ 1 \in 1..Len(s)
         /\ \A i \in 1..Len(Tail(s)) : /\ Tail(s)[i] = s[i + 1] /\ i + 1 \in 1..Len(s)
                                       /\ Tail(s)[i] # Head(s)
  <1>1. /\ Head(s) = s[1] /\ 1 \in 1..Len(s)
        /\ Len(Tail(s)) = Len(s) - 1
        /\ \A i \in 1..Len(Tail(s)) : Tail(s)[i] = s[i + 1] /\ i + 1 \in 1..Len(s)
    OBVIOUS
  <1>2. Distinct(Tail(s))
    BY <1>1 DEF Distinct
  <1>3. ASSUME NEW i \in 1..Len(Tail(s)) PROVE Tail(s)[i] # Head(s)
    <2>1. Tail(s)[i] = s[i + 1] /\ i + 1 \in 1..Len(s) /\ i + 1 # 1
      BY <1>1
    <2> QED
      BY <1>1, <2>1 DEF Distinct
  <1> QED
    BY <1>1, <1>2, <1>3

\* A new entry for an event that has none.
LEMMA InsertBatch ==
  ASSUME BatchInv, NEW t, NEW e, NEW at, NEW back, Insert(t, e, at, back),
         \A x \in m_pending_events : x.ev # e
  PROVE  /\ \A x, y \in m_pending_events' : x.ev = y.ev => x = y
         /\ \A x \in m_pending_events' : x \in m_pending_events \/ x.ev = e
         /\ m_is_cancled' = m_is_cancled
  <1>1. /\ m_pending_events' = m_pending_events \cup {[at |-> at, ev |-> e]}
        /\ m_is_cancled' = m_is_cancled
    BY DEF Insert
  <1>2. \A x \in m_pending_events' : x \in m_pending_events \/ x = [at |-> at, ev |-> e]
    BY <1>1
  <1>3. \A x, y \in m_pending_events : x.ev = y.ev => x = y
    BY DEF BatchInv
  <1> QED
    BY <1>1, <1>2, <1>3

\* What onTimer takes out of the map.
LEMMA CollectBatch ==
  ASSUME TypeOK, BatchInv, Collect
  PROVE  /\ Distinct(tasks') /\ tmps' = tasks'
         /\ \A i \in 1..Len(tasks') : /\ tasks'[i] \in added /\ ~m_is_cancled[tasks'[i]]
                                      /\ \A x \in m_pending_events' : x.ev # tasks'[i]
         /\ m_pending_events' \subseteq m_pending_events
  <1> DEFINE due == {x \in m_pending_events : x.at <= now}
             live == {x \in due : ~m_is_cancled[x.ev]}
  <1>1. PICK s \in ByKey(live) : /\ tasks' = [i \in DOMAIN s |-> s[i].ev]
                                 /\ tmps' = tasks'
    BY DEF Collect
  <1>2. m_pending_events' = m_pending_events \ due
    BY DEF Collect
  <1>3. IsFiniteSet(live)
    <2>1. IsFiniteSet(m_pending_events) /\ live \subseteq m_pending_events
      BY DEF TypeOK
    <2> QED
      BY <2>1, FS_Subset
  <1>4. Cardinality(live) \in Nat
    BY <1>3, FS_CardinalityType
  <1>5. \A x \in live : x \in due /\ x \in m_pending_events /\ ~m_is_cancled[x.ev]
    OBVIOUS
  <1>6. \A x \in m_pending_events' : x \in m_pending_events /\ x \notin due
    BY <1>2
  <1> HIDE DEF live, due
  <1>7. /\ s \in [1..Cardinality(live) -> live]
        /\ \A i, j \in DOMAIN s : i < j => s[i] # s[j]
    BY <1>1 DEF ByKey
  <1>8. /\ tasks' = [i \in 1..Cardinality(live) |-> s[i].ev]
        /\ tasks' \in Seq(Events) /\ Len(tasks') = Cardinality(live)
    <2>1. tasks' \in Seq(Events)
      BY CollectTypes
    <2>2. tasks' = [i \in 1..Cardinality(live) |-> s[i].ev]
      BY <1>1, <1>7
    <2>3. DOMAIN tasks' = 1..Cardinality(live)
      BY <2>2
    <2> QED
      BY <1>4, <2>1, <2>2, <2>3, LenProperties
  <1>9. \A i \in 1..Len(tasks') : s[i] \in live /\ tasks'[i] = s[i].ev
    BY <1>7, <1>8
  <1>10. ASSUME NEW i \in 1..Len(tasks'), NEW j \in 1..Len(tasks'),
                tasks'[i] = tasks'[j]
         PROVE  i = j
    <2>1. s[i] = s[j]
      BY <1>5, <1>9, <1>10 DEF BatchInv
    <2>2. i \in DOMAIN s /\ j \in DOMAIN s /\ i \in Int /\ j \in Int
      BY <1>4, <1>7, <1>8
    <2> QED
      BY <1>7, <2>1, <2>2
  <1>11. ASSUME NEW i \in 1..Len(tasks')
         PROVE  /\ tasks'[i] \in added /\ ~m_is_cancled[tasks'[i]]
                /\ \A x \in m_pending_events' : x.ev # tasks'[i]
    <2>1. s[i] \in m_pending_events /\ s[i] \in due /\ tasks'[i] = s[i].ev
          /\ ~m_is_cancled[s[i].ev]
      BY <1>5, <1>9
    <2>2. ASSUME NEW x \in m_pending_events' PROVE x.ev # tasks'[i]
      BY <1>6, <2>1 DEF BatchInv
    <2> QED
      BY <2>1, <2>2 DEF BatchInv
  <1> QED
    BY <1>1, <1>6, <1>10, <1>11 DEF Distinct

LEMMA StepBatch ==
  ASSUME TimerInv, BatchInv, [Next]_vars
  PROVE  BatchInv'
  <1>0. /\ TypeOK /\ lateRuns \in [Events -> Nat]
        /\ m_is_cancled \in [Events -> BOOLEAN] /\ deleted \subseteq Events
        /\ tmps \in Seq(Events) /\ tasks \in Seq(Events)
    BY DEF TimerInv, TypeOK
  <1>1. ASSUME NEW t \in Threads, NEW e \in Events, addTimerEvent(t, e)
        PROVE  BatchInv'
    <2>1. PICK built \in 0..now : Insert(t, e, built + m_interval[e], pc[t])
      BY <1>1 DEF addTimerEvent
    <2>2. /\ e \notin added /\ added' = added \cup {e}
          /\ UNCHANGED <<tmps, tasks, deleted, lateRuns>>
      BY <1>1 DEF addTimerEvent, batch
    <2>3. \A x \in m_pending_events : x.ev # e
      BY <2>2 DEF BatchInv
    <2>4. /\ \A x, y \in m_pending_events' : x.ev = y.ev => x = y
          /\ \A x \in m_pending_events' : x \in m_pending_events \/ x.ev = e
          /\ m_is_cancled' = m_is_cancled
      BY <2>1, <2>3, InsertBatch
    <2>5. \A i \in 1..Len(tmps) : /\ tmps[i] \in added'
                                  /\ \A x \in m_pending_events' : x.ev # tmps[i]
      BY <2>2, <2>4 DEF BatchInv
    <2>6. \A x \in m_pending_events' : x.ev \in added'
      BY <2>2, <2>4 DEF BatchInv
    <2> QED
      BY <2>2, <2>4, <2>5, <2>6 DEF BatchInv, Distinct
  <1>2. ASSUME NEW t \in Threads, NEW e \in Events, deleteTimerEvent(t, e)
        PROVE  BatchInv'
    <2>1. /\ m_is_cancled' = [m_is_cancled EXCEPT ![e] = TRUE]
          /\ m_pending_events' \subseteq m_pending_events
          /\ deleted' = deleted \cup {e}
          /\ UNCHANGED <<tmps, tasks, added, lateRuns>>
      BY <1>2 DEF deleteTimerEvent, batch
    <2>2. \A f \in deleted' : m_is_cancled'[f]
      BY <1>0, <2>1 DEF BatchInv
    <2>3. /\ \A x, y \in m_pending_events' : x.ev = y.ev => x = y
          /\ \A x \in m_pending_events' : x.ev \in added
          /\ \A i \in 1..Len(tmps) : /\ tmps[i] \in added
                                     /\ \A x \in m_pending_events' : x.ev # tmps[i]
      BY <2>1 DEF BatchInv
    <2>4. \A f \in Events : /\ lateRuns[f] <= 1
                            /\ lateRuns[f] > 0 => /\ f \in deleted'
                                                  /\ \A i \in 1..Len(tasks) : tasks[i] # f
      BY <2>1 DEF BatchInv
    <2> QED
      BY <2>1, <2>2, <2>3, <2>4 DEF BatchInv, Distinct
  <1>3. CASE \E e \in Events : setCancled(e)
    <2>1. PICK e \in Events : m_is_cancled' = [m_is_cancled EXCEPT ![e] = TRUE]
      BY <1>3 DEF setCancled
    <2>2. \A f \in deleted : m_is_cancled'[f]
      BY <1>0, <2>1 DEF BatchInv
    <2>3. UNCHANGED <<m_pending_events, tmps, tasks, added, deleted, lateRuns>>
      BY <1>3 DEF setCancled, batch, history
    <2> QED
      BY <2>2, <2>3 DEF BatchInv, Distinct
  <1>4. CASE Collect
    <2>1. /\ UNCHANGED <<m_is_cancled, added, deleted, lateRuns>>
          /\ Distinct(tasks') /\ tmps' = tasks'
          /\ \A i \in 1..Len(tasks') : /\ tasks'[i] \in added /\ ~m_is_cancled[tasks'[i]]
                                       /\ \A x \in m_pending_events' : x.ev # tasks'[i]
          /\ m_pending_events' \subseteq m_pending_events
      <3>1. UNCHANGED <<m_is_cancled, added, deleted, lateRuns>>
        BY <1>4 DEF Collect, history
      <3> QED
        BY <1>0, <1>4, <3>1, CollectBatch
    <2>2. /\ \A x, y \in m_pending_events' : x.ev = y.ev => x = y
          /\ \A x \in m_pending_events' : x.ev \in added
      BY <2>1 DEF BatchInv
    <2>3. \A e \in deleted : \A i \in 1..Len(tasks') : tasks'[i] # e
      BY <2>1 DEF BatchInv
    <2>4. \A e \in Events : /\ lateRuns[e] <= 1
                            /\ lateRuns[e] > 0 => /\ e \in deleted
                                                  /\ \A i \in 1..Len(tasks') : tasks'[i] # e
      BY <2>3 DEF BatchInv
    <2>5. \A e \in deleted : m_is_cancled[e]
      BY DEF BatchInv
    <2> QED
      BY <2>1, <2>2, <2>4, <2>5 DEF BatchInv, Distinct
  <1>5. CASE Repeat
    <2> DEFINE e == Head(tmps)
    <2>1. /\ tmps # <<>> /\ tmps' = Tail(tmps)
          /\ UNCHANGED <<tasks, added, deleted, lateRuns>>
      BY <1>5 DEF Repeat, history
    <2>2. /\ Distinct(tmps') /\ e = tmps[1] /\ 1 \in 1..Len(tmps)
          /\ \A i \in 1..Len(tmps') : /\ tmps'[i] = tmps[i + 1] /\ i + 1 \in 1..Len(tmps)
                                      /\ tmps'[i] # e
      <3>1. Distinct(tmps)
        BY DEF BatchInv
      <3> QED
        BY <1>0, <2>1, <3>1, DistinctTail
    <2>3. e \in added /\ \A x \in m_pending_events : x.ev # e
      BY <2>2 DEF BatchInv
    <2>4. \A i \in 1..Len(tmps') : /\ tmps'[i] \in added
                                   /\ \A x \in m_pending_events : x.ev # tmps'[i]
      BY <2>2 DEF BatchInv
    <2>5. /\ \A x, y \in m_pending_events' : x.ev = y.ev => x = y
          /\ \A x \in m_pending_events' : x \in m_pending_events \/ x.ev = e
          /\ m_is_cancled' = m_is_cancled
      <3>1. CASE e \in Repeated
        <4> DEFINE at == now + m_interval[e]
        <4>1. Insert(Loop, e, at, "repeat")
          BY <1>5, <3>1 DEF Repeat
        <4> HIDE DEF e, at
        <4> QED
          BY <2>3, <4>1, InsertBatch
      <3>2. CASE e \notin Repeated
        BY <1>5, <3>2 DEF Repeat, BatchInv
      <3> QED
        BY <3>1, <3>2
    <2> HIDE DEF e
    <2>6. \A i \in 1..Len(tmps') : /\ tmps'[i] \in added
                                   /\ \A x \in m_pending_events' : x.ev # tmps'[i]
      BY <2>2, <2>4, <2>5
    <2>7. \A x \in m_pending_events' : x.ev \in added
      BY <2>3, <2>5 DEF BatchInv
    <2> QED
      BY <2>1, <2>2, <2>5, <2>6, <2>7 DEF BatchInv, Distinct
  <1>6. CASE Run
    <2>1. UNCHANGED <<m_is_cancled, m_pending_events, tmps, added, deleted>>
      BY <1>6 DEF Run
    <2>2. CASE tasks = <<>>
      BY <1>6, <2>1, <2>2 DEF Run, BatchInv, Distinct
    <2>3. CASE tasks # <<>>
      <3> DEFINE e == Head(tasks)
      <3>1. /\ tasks' = Tail(tasks)
            /\ lateRuns' = IF e \in deleted THEN [lateRuns EXCEPT ![e] = @ + 1]
                                            ELSE lateRuns
        BY <1>6, <2>3 DEF Run
      <3>2. /\ Distinct(tasks') /\ e = tasks[1] /\ 1 \in 1..Len(tasks)
            /\ \A i \in 1..Len(tasks') : /\ tasks'[i] = tasks[i + 1]
                                         /\ i + 1 \in 1..Len(tasks)
                                         /\ tasks'[i] # e
        <4>1. Distinct(tasks)
          BY DEF BatchInv
        <4> QED
          BY <1>0, <2>3, <3>1, <4>1, DistinctTail
      <3>3. e \in Events
        BY <1>0, <2>3, SequenceFacts
      <3>4. ~(lateRuns[e] > 0)
        BY <3>2, <3>3 DEF BatchInv
      <3> HIDE DEF e
      <3>5. ASSUME NEW f \in Events
            PROVE  /\ lateRuns'[f] <= 1
                   /\ lateRuns'[f] > 0 => /\ f \in deleted
                                          /\ \A i \in 1..Len(tasks') : tasks'[i] # f
        <4>0. lateRuns[f] \in Nat /\ lateRuns[e] \in Nat
          BY <1>0, <3>3
        <4>1. CASE f = e /\ e \in deleted
          <5>1. lateRuns'[f] = lateRuns[e] + 1
            BY <1>0, <3>1, <3>3, <4>1
          <5>2. lateRuns'[f] <= 1
            BY <3>4, <4>0, <5>1
          <5> QED
            BY <3>2, <4>1, <5>2
        <4>2. CASE ~(f = e /\ e \in deleted)
          <5>1. lateRuns'[f] = lateRuns[f]
            BY <1>0, <3>1, <3>3, <4>2
          <5>2. /\ lateRuns[f] <= 1
                /\ lateRuns[f] > 0 => /\ f \in deleted
                                      /\ \A i \in 1..Len(tasks) : tasks[i] # f
            BY DEF BatchInv
          <5> QED
            BY <3>2, <5>1, <5>2
        <4> QED
          BY <4>1, <4>2
      <3> QED
        BY <2>1, <3>2, <3>5 DEF BatchInv, Distinct
    <2> QED
      BY <2>2, <2>3
  <1>7. CASE \/ \E t \in Threads : Snapshot(t) \/ SetTime(t)
             \/ Fire \/ Drain \/ Rearm \/ Tick \/ UNCHANGED vars
    <2>1. UNCHANGED <<m_is_cancled, m_pending_events, tmps, tasks, added, deleted,
                      lateRuns>>
      BY <1>7 DEF Snapshot, SetTime, Fire, Drain, Rearm, Tick, vars, batch, history
    <2> QED
      BY <2>1 DEF BatchInv, Distinct
  <1> QED
    BY <1>1, <1>2, <1>3, <1>4, <1>5, <1>6, <1>7 DEF Next

\* deleteTimerEvent may come too late to recall a callback onTimer has taken,
\* but a second run after it is impossible, even of a repeated event that
\* onTimer puts back after the deletion.
THEOREM DeletedAtMostOnce == Spec => []DeletedRunsOnce
  <1>1. Init => BatchInv
    BY DEF Init, BatchInv, Distinct
  <1>2. BatchInv => DeletedRunsOnce
    BY DEF BatchInv, DeletedRunsOnce
  <1> QED
    BY <1>1, <1>2, Typing, StepBatch, PTL DEF Spec
-----------------------------------------------------------------------------
\* What a finite set of entries has, stated without induction over it: every
\* set of pending events has an earliest entry.
Ordered ==
  \A S \in SUBSET m_pending_events :
    S # {} => \E y \in S : \A x \in S : y.at <= x.at

LEMMA StepOrdered ==
  ASSUME TimerInv, Ordered, [Next]_vars
  PROVE  Ordered'
  <1> USE TimerAssumption
  <1>0. /\ m_pending_events \subseteq Entries
        /\ m_interval \in [Events -> Nat] /\ now \in Nat
    BY DEF TimerInv, TypeOK
  <1>1. ASSUME m_pending_events' \subseteq m_pending_events PROVE Ordered'
    BY <1>1 DEF Ordered
  <1>2. ASSUME NEW z \in Entries,
               m_pending_events' = m_pending_events \cup {z}
        PROVE  Ordered'
    <2> SUFFICES ASSUME NEW S \in SUBSET m_pending_events', S # {}
                 PROVE  \E y \in S : \A x \in S : y.at <= x.at
      BY DEF Ordered
    <2>1. S \subseteq Entries /\ \A x \in S : x.at \in Nat
      BY <1>0, <1>2 DEF Entries
    <2>2. CASE S \ {z} = {}
      <3>1. S = {z}
        BY <2>2
      <3> QED
        BY <2>1, <3>1
    <2>3. CASE S \ {z} # {}
      <3>1. S \ {z} \in SUBSET m_pending_events
        BY <1>2
      <3>2. PICK y \in S \ {z} : \A x \in S \ {z} : y.at <= x.at
        BY <2>3, <3>1 DEF Ordered
      <3>3. CASE z \in S /\ z.at < y.at
        <4>1. \A x \in S : z.at <= x.at
          BY <2>1, <3>2, <3>3
        <4> QED
          BY <3>3, <4>1
      <3>4. CASE z \notin S \/ ~(z.at < y.at)
        <4>1. \A x \in S : y.at <= x.at
          BY <2>1, <3>2, <3>4
        <4> QED
          BY <3>2, <4>1
      <3> QED
        BY <3>3, <3>4
    <2> QED
      BY <2>2, <2>3
  <1>3. ASSUME NEW t \in Threads, NEW e \in Events, addTimerEvent(t, e)
        PROVE  Ordered'
    <2>1. PICK built \in 0..now : Insert(t, e, built + m_interval[e], pc[t])
      BY <1>3 DEF addTimerEvent
    <2>2. [at |-> built + m_interval[e], ev |-> e] \in Entries
      BY <1>0 DEF Entries
    <2> QED
      BY <1>2, <2>1, <2>2 DEF Insert
  <1>4. CASE Repeat
    <2>1. CASE Head(tmps) \in Repeated
      <3>1. [at |-> now + m_interval[Head(tmps)], ev |-> Head(tmps)] \in Entries
        BY <1>0, <2>1 DEF Entries
      <3> QED
        BY <1>2, <1>4, <2>1, <3>1 DEF Repeat, Insert
    <2>2. CASE Head(tmps) \notin Repeated
      BY <1>1, <1>4, <2>2 DEF Repeat
    <2> QED
      BY <2>1, <2>2
  <1>5. ASSUME NEW t \in Threads, Snapshot(t) \/ SetTime(t) PROVE Ordered'
    BY <1>1, <1>5 DEF Snapshot, SetTime
  <1>6. ASSUME NEW t \in Threads, NEW e \in Events,
               deleteTimerEvent(t, e) \/ setCancled(e)
        PROVE  Ordered'
    <2>1. m_pending_events' \subseteq m_pending_events
      BY <1>6 DEF deleteTimerEvent, setCancled
    <2> QED
      BY <1>1, <2>1
  <1>7. CASE Fire \/ Drain \/ Collect \/ Rearm \/ Run \/ Tick
    <2>1. m_pending_events' \subseteq m_pending_events
      BY <1>7 DEF Fire, Drain, Collect, Rearm, Run, Tick
    <2> QED
      BY <1>1, <2>1
  <1>8. CASE UNCHANGED vars
    BY <1>1, <1>8 DEF vars
  <1>9. Loop \in Threads
    BY DEF Threads
  <1> QED
    BY <1>3, <1>4, <1>5, <1>6, <1>7, <1>8, <1>9 DEF Next

-----------------------------------------------------------------------------
\* What a Timer keeps true that only its loop's thread adds events to: the
\* keys of the map are the arrive times of its events, resetArriveTime arms for
\* one no later than the earliest, and between calls the timerfd is in time.
OneThreadInv ==
  /\ \A x \in m_pending_events : m_arrive_time[x.ev] = x.at
  /\ pc[Loop] = "settime" =>
       \A x \in m_pending_events : m_arrive_time[first[Loop]] <= x.at
  /\ InTime

\* addTimerEvent leaves the timerfd in time, or goes on to set it.
LEMMA InsertInTime ==
  ASSUME TimerInv, BatchInv, Ordered, OneThreadInv, NEW e \in Events, NEW at \in Nat,
         Insert(Loop, e, at, pc[Loop]), pc[Loop] \in {"idle", "run", "repeat"},
         \A x \in m_pending_events : x.ev # e
  PROVE  OneThreadInv'
  <1> USE TimerAssumption
  <1>1. /\ m_arrive_time \in [Events -> Nat] /\ pc \in [Threads -> Points]
        /\ Loop \in Threads /\ m_pending_events \subseteq Entries
        /\ expiry \in Nat /\ now \in Nat /\ Retry \in Nat
    BY DEF TimerInv, TypeOK, Threads
  <1>2. /\ m_arrive_time' = [m_arrive_time EXCEPT ![e] = at]
        /\ m_pending_events' = m_pending_events \cup {[at |-> at, ev |-> e]}
        /\ expiry' = expiry /\ now' = now /\ fired' = fired
    BY DEF Insert
  <1>3. \A x \in m_pending_events' : m_arrive_time'[x.ev] = x.at
    <2>1. \A x \in m_pending_events : x.ev \in Events /\ x.ev # e
      BY <1>1 DEF Entries
    <2>2. \A x \in m_pending_events : m_arrive_time'[x.ev] = x.at
      BY <1>1, <1>2, <2>1 DEF OneThreadInv
    <2>3. m_arrive_time'[e] = at
      BY <1>1, <1>2
    <2> QED
      BY <1>2, <2>2, <2>3
  <1>4. CASE pc' = [pc EXCEPT ![Loop] = "snapshot"]
    <2>1. pc'[Loop] = "snapshot"
      BY <1>1, <1>4
    <2>2. Arming'
      BY <1>1, <2>1 DEF Arming
    <2> QED
      BY <1>3, <2>1, <2>2 DEF OneThreadInv, InTime
  <1>5. CASE ~(pc' = [pc EXCEPT ![Loop] = "snapshot"])
    <2>1. /\ m_pending_events # {}
          /\ \A x \in Firsts(m_pending_events) : ~(m_arrive_time[x.ev] > at)
          /\ pc' = pc
      BY <1>1, <1>5 DEF Insert, Call
    <2>2. ASSUME ~Arming'
          PROVE  \A x \in m_pending_events' :
                   expiry # 0 /\ (expiry <= x.at \/ expiry <= now + Retry)
      <3>1. ~Arming
        BY <1>2, <2>1, <2>2 DEF Arming
      <3>2. \A x \in m_pending_events :
              expiry # 0 /\ (expiry <= x.at \/ expiry <= now + Retry)
        BY <3>1 DEF OneThreadInv, InTime
      <3>3. PICK y \in Firsts(m_pending_events) : TRUE
        <4>1. \E y \in m_pending_events : \A x \in m_pending_events : y.at <= x.at
          BY <2>1 DEF Ordered
        <4> QED
          BY <4>1 DEF Firsts
      <3>4. /\ y \in m_pending_events /\ y.at \in Nat /\ y.at <= at
        <4>1. y \in m_pending_events /\ y \in Entries
          BY <1>1, <3>3 DEF Firsts
        <4>2. m_arrive_time[y.ev] = y.at /\ ~(m_arrive_time[y.ev] > at)
          BY <2>1, <3>3, <4>1 DEF OneThreadInv
        <4>3. y.at \in Nat
          BY <4>1 DEF Entries
        <4> QED
          BY <4>1, <4>2, <4>3
      <3>5. expiry # 0 /\ (expiry <= at \/ expiry <= now + Retry)
        BY <1>1, <3>2, <3>4
      <3>6. ASSUME NEW x \in m_pending_events'
            PROVE  expiry # 0 /\ (expiry <= x.at \/ expiry <= now + Retry)
        <4>1. x \in m_pending_events \/ x.at = at
          BY <1>2
        <4> QED
          BY <3>2, <3>5, <4>1
      <3> QED
        BY <3>6
    <2>3. pc'[Loop] # "settime"
      BY <2>1
    <2> QED
      BY <1>2, <1>3, <2>2, <2>3 DEF OneThreadInv, InTime
  <1> QED
    BY <1>4, <1>5

\* The other threads are out of the Timer.
AloneInv == \A c \in Callers : pc[c] = "idle"

LEMMA StepInTime ==
  ASSUME TimerInv, BatchInv, Ordered, OneThreadInv, AloneInv, AloneInv',
         users' \subseteq {Loop}, [Next]_vars
  PROVE  OneThreadInv'
  <1> USE TimerAssumption
  <1>0. /\ pc \in [Threads -> Points] /\ return \in [Threads -> Points]
        /\ first \in [Threads -> Events \cup {None}]
        /\ Loop \in Threads /\ m_pending_events \subseteq Entries
        /\ m_arrive_time \in [Events -> Nat]
        /\ now \in Nat /\ expiry \in Nat /\ Retry \in Nat \ {0}
        /\ return[Loop] \in {"idle", "repeat", "run"}
    BY DEF TimerInv, TypeOK, Threads
  <1>01. Arming <=> \/ fired
                    \/ pc[Loop] \in {"collect", "repeat", "snapshot", "settime"}
    BY <1>0 DEF Arming, AloneInv, Threads
  <1>02. Arming' <=> \/ fired'
                     \/ pc'[Loop] \in {"collect", "repeat", "snapshot", "settime"}
    BY <1>0 DEF Arming, AloneInv, Threads
  <1>1. CASE Snapshot(Loop)
    <2>1. UNCHANGED <<now, m_arrive_time, m_pending_events, expiry, fired>>
      BY <1>1 DEF Snapshot
    <2>2. CASE m_pending_events = {}
      <3>1. pc' = [pc EXCEPT ![Loop] = return[Loop]]
        BY <1>1, <2>2 DEF Snapshot
      <3>2. pc'[Loop] # "settime"
        BY <1>0, <3>1
      <3> QED
        BY <2>1, <2>2, <3>2 DEF OneThreadInv, InTime
    <2>3. CASE m_pending_events # {}
      <3>1. /\ pc' = [pc EXCEPT ![Loop] = "settime"]
            /\ \E x \in Firsts(m_pending_events) : first' = [first EXCEPT ![Loop] = x.ev]
        BY <1>1, <2>3 DEF Snapshot
      <3>2. pc'[Loop] = "settime"
        BY <1>0, <3>1
      <3>3. \A x \in m_pending_events : m_arrive_time[first'[Loop]] <= x.at
        <4>1. PICK y \in Firsts(m_pending_events) : first' = [first EXCEPT ![Loop] = y.ev]
          BY <3>1
        <4>2. y \in m_pending_events /\ \A x \in m_pending_events : y.at <= x.at
          BY DEF Firsts
        <4>3. first'[Loop] = y.ev
          BY <1>0, <4>1
        <4>4. m_arrive_time[y.ev] = y.at
          BY <4>2 DEF OneThreadInv
        <4> QED
          BY <4>2, <4>3, <4>4
      <3>4. Arming'
        BY <1>02, <3>2
      <3> QED
        BY <2>1, <3>3, <3>4 DEF OneThreadInv, InTime, Firsts
    <2> QED
      BY <2>2, <2>3
  <1>2. CASE SetTime(Loop)
    <2>1. /\ UNCHANGED <<now, m_arrive_time, m_pending_events, fired>>
          /\ pc[Loop] = "settime" /\ pc' = [pc EXCEPT ![Loop] = return[Loop]]
          /\ expiry' = IF m_arrive_time[first[Loop]] > now
                       THEN m_arrive_time[first[Loop]] ELSE now + Retry
      BY <1>2 DEF SetTime
    <2>2. \A x \in m_pending_events : m_arrive_time[first[Loop]] <= x.at
      BY <2>1 DEF OneThreadInv
    <2>3. m_arrive_time[first[Loop]] \in Nat
      BY <1>0, <2>1 DEF TimerInv
    <2>4. expiry' # 0 /\ (expiry' = m_arrive_time[first[Loop]] \/ expiry' = now + Retry)
      <3> DEFINE arrive == m_arrive_time[first[Loop]]
      <3>1. /\ expiry' = IF arrive > now THEN arrive ELSE now + Retry
            /\ arrive \in Nat
        BY <2>1, <2>3
      <3> HIDE DEF arrive
      <3>2. expiry' # 0 /\ (expiry' = arrive \/ expiry' = now + Retry)
        BY <1>0, <3>1
      <3> QED
        BY <3>2 DEF arrive
    <2>6. \A x \in m_pending_events :
            expiry' # 0 /\ (expiry' <= x.at \/ expiry' <= now + Retry)
      BY <1>0, <2>2, <2>4
    <2>7. pc'[Loop] # "settime"
      BY <1>0, <2>1
    <2> QED
      BY <2>1, <2>6, <2>7 DEF OneThreadInv, InTime
  <1>3. ASSUME NEW e \in Events, addTimerEvent(Loop, e) PROVE OneThreadInv'
    <2>1. PICK built \in 0..now : Insert(Loop, e, built + m_interval[e], pc[Loop])
      BY <1>3 DEF addTimerEvent
    <2>2. /\ built + m_interval[e] \in Nat /\ pc[Loop] \in {"idle", "run", "repeat"}
          /\ e \notin added
      BY <1>0, <1>3 DEF addTimerEvent, MayCall
    <2>3. \A x \in m_pending_events : x.ev # e
      BY <2>2 DEF BatchInv
    <2> DEFINE at == built + m_interval[e]
    <2>4. Insert(Loop, e, at, pc[Loop]) /\ at \in Nat
      BY <2>1, <2>2
    <2> HIDE DEF at
    <2> QED
      BY <2>2, <2>3, <2>4, InsertInTime
  <1>4. CASE Repeat
    <2> DEFINE e == Head(tmps)
               at == now + m_interval[e]
    <2>1. /\ pc[Loop] = "repeat" /\ tmps \in Seq(Events) /\ tmps # <<>>
      BY <1>4 DEF Repeat, TimerInv, TypeOK
    <2>2. e \in Events /\ e = tmps[1] /\ 1 \in 1..Len(tmps)
      BY <2>1
    <2>3. \A x \in m_pending_events : x.ev # e
      BY <2>2 DEF BatchInv
    <2>4. CASE e \in Repeated
      <3>1. Insert(Loop, e, at, pc[Loop]) /\ at \in Nat
        BY <1>0, <1>4, <2>1, <2>2, <2>4 DEF Repeat
      <3> HIDE DEF e, at
      <3> QED
        BY <2>1, <2>2, <2>3, <3>1, InsertInTime
    <2>5. CASE e \notin Repeated
      <3>1. UNCHANGED <<now, m_arrive_time, m_pending_events, expiry, fired, pc, first>>
        BY <1>4, <2>5 DEF Repeat
      <3>2. Arming'
        BY <1>02, <2>1, <3>1
      <3> QED
        BY <2>1, <3>1, <3>2 DEF OneThreadInv, InTime
    <2> QED
      BY <2>4, <2>5
  <1>5. CASE \/ \E t \in Threads, e \in Events : deleteTimerEvent(t, e)
           \/ \E e \in Events : setCancled(e)
    <2>1. /\ m_pending_events' \subseteq m_pending_events
          /\ UNCHANGED <<now, m_arrive_time, expiry, fired, pc, first>>
      BY <1>5 DEF deleteTimerEvent, setCancled
    <2>2. /\ Arming' <=> Arming
          /\ \A x \in m_pending_events' : x \in m_pending_events
      BY <2>1 DEF Arming
    <2>3. InTime'
      BY <2>1, <2>2 DEF OneThreadInv, InTime
    <2> QED
      BY <2>1, <2>2, <2>3 DEF OneThreadInv
  <1>6. CASE Fire \/ Drain \/ Rearm
    <2>1. UNCHANGED <<now, m_arrive_time, m_pending_events, first>>
      BY <1>6 DEF Fire, Drain, Rearm, batch, history
    <2>2. \/ pc' = pc /\ fired' = TRUE
          \/ pc'[Loop] \in {"collect", "snapshot"}
      BY <1>0, <1>6 DEF Fire, Drain, Rearm, Call
    <2>3. Arming'
      BY <1>02, <2>2
    <2> QED
      BY <2>1, <2>2, <2>3 DEF OneThreadInv, InTime, Firsts
  <1>7. CASE Collect
    <2>1. /\ m_pending_events' \subseteq m_pending_events
          /\ m_arrive_time' = m_arrive_time /\ pc'[Loop] = "repeat"
      BY <1>0, <1>7 DEF Collect
    <2>2. Arming'
      BY <1>02, <2>1
    <2> QED
      BY <2>1, <2>2 DEF OneThreadInv, InTime
  <1>8. CASE Run
    <2>1. /\ UNCHANGED <<now, m_arrive_time, m_pending_events, expiry, fired, first>>
          /\ pc[Loop] = "run" /\ pc'[Loop] \in {"run", "idle"}
      BY <1>0, <1>8 DEF Run
    <2>2. ~Arming' => ~Arming
      BY <1>01, <1>02, <2>1
    <2> QED
      BY <2>1, <2>2 DEF OneThreadInv, InTime
  <1>9. CASE Tick
    <2>1. /\ now' = now + 1
          /\ UNCHANGED <<m_arrive_time, m_pending_events, expiry, fired, first, pc>>
      BY <1>9 DEF Tick
    <2>2. Arming' <=> Arming
      BY <2>1 DEF Arming
    <2>3. \A x \in m_pending_events : x.at \in Nat
      BY <1>0 DEF Entries
    <2>4. ASSUME ~Arming, NEW x \in m_pending_events
          PROVE  expiry # 0 /\ (expiry <= x.at \/ expiry <= now' + Retry)
      <3>1. expiry # 0 /\ (expiry <= x.at \/ expiry <= now + Retry)
        BY <2>4 DEF OneThreadInv, InTime
      <3> QED
        BY <1>0, <2>1, <2>3, <3>1
    <2>5. InTime'
      BY <2>1, <2>2, <2>4 DEF InTime
    <2> QED
      BY <2>1, <2>5 DEF OneThreadInv, Firsts
  <1>10. CASE UNCHANGED vars
    BY <1>10 DEF vars, OneThreadInv, InTime, Arming, Firsts
  <1>11. ASSUME NEW c \in Callers
         PROVE  /\ ~Snapshot(c) /\ ~SetTime(c)
                /\ \A e \in Events : ~addTimerEvent(c, e)
    <2>1. pc[c] = "idle" /\ c # Loop
      BY DEF AloneInv
    <2>2. ~Snapshot(c) /\ ~SetTime(c)
      BY <2>1 DEF Snapshot, SetTime
    <2>3. \A e \in Events : ~addTimerEvent(c, e)
      BY <2>1 DEF addTimerEvent
    <2> QED
      BY <2>2, <2>3
  <1>12. \A t \in Threads : t = Loop \/ t \in Callers
    BY DEF Threads
  <1>13. CASE \E t \in Threads : Snapshot(t) \/ SetTime(t)
    BY <1>1, <1>2, <1>11, <1>12, <1>13
  <1>14. CASE \E t \in Threads, e \in Events : addTimerEvent(t, e)
    BY <1>3, <1>11, <1>12, <1>14
  <1>15. CASE Next
    BY <1>4, <1>5, <1>6, <1>7, <1>8, <1>9, <1>13, <1>14, <1>15 DEF Next
  <1> QED
    BY <1>10, <1>15

LEMMA StepAlone ==
  ASSUME TimerInv, AloneInv, users' \subseteq {Loop}, [Next]_vars
  PROVE  AloneInv'
  <1> USE TimerAssumption
  <1> SUFFICES ASSUME NEW c \in Callers PROVE pc'[c] = "idle"
    BY DEF AloneInv
  <1>1. /\ pc \in [Threads -> Points] /\ Loop \in Threads /\ c \in Threads
        /\ c # Loop /\ pc[c] = "idle"
    BY DEF TimerInv, TypeOK, Threads, AloneInv
  <1>2. ASSUME NEW t \in Threads, Snapshot(t) \/ SetTime(t) PROVE pc'[c] = "idle"
    <2>1. pc[t] # "idle"
      BY <1>2 DEF Snapshot, SetTime
    <2>2. \/ pc' = [pc EXCEPT ![t] = return[t]]
          \/ pc' = [pc EXCEPT ![t] = "settime"]
      BY <1>2 DEF Snapshot, SetTime
    <2>3. t # c
      BY <1>1, <2>1
    <2>4. pc'[c] = pc[c]
      BY <1>1, <2>2, <2>3
    <2> QED
      BY <1>1, <2>4
  <1>3. ASSUME NEW t \in Threads, NEW e \in Events, addTimerEvent(t, e)
        PROVE  pc'[c] = "idle"
    <2>1. t = Loop
      BY <1>3 DEF addTimerEvent
    <2>2. \E at, back : Insert(Loop, e, at, back)
      BY <1>3, <2>1 DEF addTimerEvent
    <2> QED
      BY <1>1, <2>2 DEF Insert, Call
  <1>4. CASE Repeat
    <2>1. \/ pc' = pc
          \/ \E e, at, back : Insert(Loop, e, at, back)
      BY <1>4 DEF Repeat
    <2> QED
      BY <1>1, <2>1 DEF Insert, Call
  <1>5. ASSUME NEW t \in Threads, NEW e \in Events, deleteTimerEvent(t, e)
        PROVE  pc'[c] = "idle"
    BY <1>1, <1>5 DEF deleteTimerEvent
  <1>6. ASSUME NEW e \in Events, setCancled(e) PROVE pc'[c] = "idle"
    BY <1>1, <1>6 DEF setCancled
  <1>7. CASE Fire \/ Tick
    BY <1>1, <1>7 DEF Fire, Tick
  <1>8. CASE Drain \/ Collect \/ Rearm \/ Run
    <2>1. \/ pc' = pc
          \/ \E p \in Points : pc' = [pc EXCEPT ![Loop] = p]
      BY <1>8 DEF Drain, Collect, Rearm, Run, Call, Points
    <2> QED
      BY <1>1, <2>1
  <1>9. CASE UNCHANGED vars
    BY <1>1, <1>9 DEF vars
  <1> QED
    BY <1>2, <1>3, <1>4, <1>5, <1>6, <1>7, <1>8, <1>9 DEF Next

LEMMA UsersGrow ==
  ASSUME [Next]_vars
  PROVE  users \subseteq users'
  BY DEF Next, vars, Snapshot, SetTime, addTimerEvent, deleteTimerEvent, setCancled,
         Fire, Drain, Collect, Repeat, Rearm, Run, Tick, history

\* A Timer only its loop's thread adds events to is in time, whoever deletes
\* some: the stale copy that resetArriveTime arms from needs a second thread
\* that adds.
THEOREM InTimeAlone == Spec => []InTimeUntilShared
  <1> DEFINE Inv == users \subseteq {Loop} => OneThreadInv /\ AloneInv
  <1>1. Init => Inv
    BY DEF Init, OneThreadInv, InTime, AloneInv, Threads
  <1>2. Init => BatchInv
    BY DEF Init, BatchInv, Distinct
  <1>3. Init => Ordered
    BY DEF Init, Ordered
  <1>4. Spec => []BatchInv
    BY <1>2, Typing, StepBatch, PTL DEF Spec
  <1>5. Spec => []Ordered
    BY <1>3, Typing, StepOrdered, PTL DEF Spec
  <1>6. TimerInv /\ BatchInv /\ Ordered /\ Inv /\ [Next]_vars => Inv'
    BY StepInTime, StepAlone, UsersGrow
  <1>7. Inv => InTimeUntilShared
    BY DEF OneThreadInv, InTimeUntilShared
  <1> HIDE DEF Inv
  <1> QED
    BY <1>1, <1>4, <1>5, <1>6, <1>7, Typing, PTL DEF Spec
=============================================================================
