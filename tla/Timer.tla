------------------------------- MODULE Timer -------------------------------
(***************************************************************************)
(* rocket/net/timer.cc and timer_event.h: the timer events of one          *)
(* EventLoop, kept in a multimap and triggered by one timerfd.             *)
(*                                                                         *)
(* The loop's thread runs onTimer; it and other threads add and delete     *)
(* events (EventLoop::addTimerEvent hands the call straight to the Timer). *)
(* A section guarded by m_mutex is one step; what the guard's second       *)
(* unlock can do to that is the subject of modules ScopeMutex and          *)
(* EventLoop.  Between sections every interleaving is possible.            *)
(***************************************************************************)
EXTENDS Integers, Sequences, FiniteSets

CONSTANTS
  Loop,       \* the loop's thread
  Callers,    \* other threads that add and delete timer events
  Events,     \* TimerEvents
  m_interval, \* the interval of each
  Repeated,   \* those with m_is_repeated
  Retry,      \* the 100 ms of resetArriveTime
  MaxNow,     \* bound: the clock
  None

ASSUME TimerAssumption ==
  /\ Loop \notin Callers
  /\ m_interval \in [Events -> Nat]
  /\ Repeated \subseteq Events
  /\ Retry \in Nat \ {0}
  /\ MaxNow \in Nat
  /\ None \notin Events

VARIABLES
  now,              \* getNowMs(), and the timerfd's clock
  m_arrive_time, m_is_cancled,   \* of each event
  m_pending_events, \* entries: key and event
  expiry,           \* when the timerfd expires; 0: not armed
  fired,            \* the loop has queued onTimer for the expired timerfd
  pc,               \* where each thread is
  return,           \* where its resetArriveTime returns to
  first,            \* the first event of its copy tmp, read after the unlock
  tmps, tasks,      \* onTimer's events to repeat and callbacks to run
  added,            \* events somebody has created and added
  users,            \* history: threads that have added one
  deleted,          \* history: events deleteTimerEvent has returned for
  lateRuns          \* history: runs of each event's callback after that

vars == <<now, m_arrive_time, m_is_cancled, m_pending_events, expiry, fired, pc,
          return, first, tmps, tasks, added, users, deleted, lateRuns>>

Threads == Callers \cup {Loop}
Points == {"idle", "collect", "repeat", "run", "snapshot", "settime"}
Entries == [at : Nat, ev : Events]

TypeOK ==
  /\ now \in 0..MaxNow
  /\ m_arrive_time \in [Events -> Nat]
  /\ m_is_cancled \in [Events -> BOOLEAN]
  /\ m_pending_events \subseteq Entries /\ IsFiniteSet(m_pending_events)
  /\ expiry \in Nat
  /\ fired \in BOOLEAN
  /\ pc \in [Threads -> Points]
  /\ return \in [Threads -> Points]
  /\ first \in [Threads -> Events \cup {None}]
  /\ tmps \in Seq(Events)
  /\ tasks \in Seq(Events)
  /\ added \subseteq Events
  /\ users \subseteq Threads
  /\ deleted \subseteq Events
  /\ lateRuns \in [Events -> Nat]

Init ==
  /\ now = 0
  /\ m_arrive_time = [e \in Events |-> 0]
  /\ m_is_cancled = [e \in Events |-> FALSE]
  /\ m_pending_events = {}
  /\ expiry = 0
  /\ fired = FALSE
  /\ pc = [t \in Threads |-> "idle"]
  /\ return = [t \in Threads |-> "idle"]
  /\ first = [t \in Threads |-> None]
  /\ tmps = <<>>
  /\ tasks = <<>>
  /\ added = {}
  /\ users = {}
  /\ deleted = {}
  /\ lateRuns = [e \in Events |-> 0]

batch == <<tmps, tasks>>
history == <<added, users, deleted, lateRuns>>

\* The entries begin() may be: a key's entries are in the order of insertion.
Firsts(entries) == {x \in entries : \A y \in entries : x.at <= y.at}

-----------------------------------------------------------------------------
(* resetArriveTime, called with the mutex released.                        *)

Call(t, target, back) ==
  /\ pc' = [pc EXCEPT ![t] = target]
  /\ return' = [return EXCEPT ![t] = back]

\* It copies the pending events and unlocks...
Snapshot(t) ==
  /\ pc[t] = "snapshot"
  /\ IF m_pending_events = {}
     THEN pc' = [pc EXCEPT ![t] = return[t]] /\ UNCHANGED first
     ELSE /\ pc' = [pc EXCEPT ![t] = "settime"]
          /\ \E x \in Firsts(m_pending_events) : first' = [first EXCEPT ![t] = x.ev]
  /\ UNCHANGED <<now, m_arrive_time, m_is_cancled, m_pending_events, expiry,
                 fired, return, batch, history>>

\* ...and arms the timerfd for the first of the copy.
SetTime(t) ==
  /\ pc[t] = "settime"
  /\ LET arrive == m_arrive_time[first[t]]
     IN  expiry' = IF arrive > now THEN arrive ELSE now + Retry
  /\ pc' = [pc EXCEPT ![t] = return[t]]
  /\ first' = [first EXCEPT ![t] = None]
  /\ UNCHANGED <<now, m_arrive_time, m_is_cancled, m_pending_events, fired,
                 return, batch, history>>

-----------------------------------------------------------------------------
(* addTimerEvent and deleteTimerEvent.                                     *)

\* Defects: the timerfd is set again for the first event only, or only for an
\* earlier one.
InsertKeepsExpiry(t, e, at, back) ==
  /\ m_arrive_time' = [m_arrive_time EXCEPT ![e] = at]
  /\ m_pending_events' = m_pending_events \cup {[at |-> at, ev |-> e]}
  /\ IF m_pending_events = {} THEN Call(t, "snapshot", back) ELSE Call(t, back, back)
  /\ UNCHANGED <<now, m_is_cancled, expiry, fired, first>>

InsertIgnoresEmpty(t, e, at, back) ==
  /\ m_arrive_time' = [m_arrive_time EXCEPT ![e] = at]
  /\ m_pending_events' = m_pending_events \cup {[at |-> at, ev |-> e]}
  /\ IF \E x \in Firsts(m_pending_events) : m_arrive_time[x.ev] > at
     THEN Call(t, "snapshot", back) ELSE Call(t, back, back)
  /\ UNCHANGED <<now, m_is_cancled, expiry, fired, first>>

\* When the map is empty or its first event is later than the new one, the
\* timerfd is set again.
Insert(t, e, at, back) ==
  /\ m_arrive_time' = [m_arrive_time EXCEPT ![e] = at]
  /\ m_pending_events' = m_pending_events \cup {[at |-> at, ev |-> e]}
  /\ IF \/ m_pending_events = {}
        \/ \E x \in Firsts(m_pending_events) : m_arrive_time[x.ev] > at
     THEN Call(t, "snapshot", back)
     ELSE Call(t, back, back)
  /\ UNCHANGED <<now, m_is_cancled, expiry, fired, first>>

\* A thread may call them when it is in no Timer function, and a callback may
\* when onTimer runs it.
MayCall(t) == pc[t] = "idle" \/ (t = Loop /\ pc[t] = "run")

\* An event created now or earlier is added.
addTimerEvent(t, e) ==
  /\ MayCall(t)
  /\ e \notin added
  /\ added' = added \cup {e}
  /\ users' = users \cup {t}
  /\ \E built \in 0..now : Insert(t, e, built + m_interval[e], pc[t])
  /\ UNCHANGED <<batch, deleted, lateRuns>>

deleteTimerEvent(t, e) ==
  /\ MayCall(t)
  /\ e \in added \ deleted
  /\ m_is_cancled' = [m_is_cancled EXCEPT ![e] = TRUE]
  /\ m_pending_events' = m_pending_events \ {[at |-> m_arrive_time[e], ev |-> e]}
  /\ deleted' = deleted \cup {e}
  /\ UNCHANGED <<now, m_arrive_time, expiry, fired, pc, return, first, batch,
                 added, users, lateRuns>>

\* The read callback of an RPC cancels its timeout and leaves it in the map.
setCancled(e) ==
  /\ MayCall(Loop)
  /\ e \in added
  /\ ~m_is_cancled[e]
  /\ m_is_cancled' = [m_is_cancled EXCEPT ![e] = TRUE]
  /\ UNCHANGED <<now, m_arrive_time, m_pending_events, expiry, fired, pc,
                 return, first, batch, history>>

-----------------------------------------------------------------------------
(* onTimer.                                                                *)

Due == expiry # 0 /\ expiry <= now

\* epoll reports the timerfd and the loop queues onTimer.
Fire ==
  /\ Due
  /\ ~fired
  /\ fired' = TRUE
  /\ UNCHANGED <<now, m_arrive_time, m_is_cancled, m_pending_events, expiry, pc,
                 return, first, batch, history>>

\* onTimer reads the timerfd until EAGAIN.
Drain ==
  /\ pc[Loop] = "idle"
  /\ fired
  /\ fired' = FALSE
  /\ expiry' = IF Due THEN 0 ELSE expiry
  /\ pc' = [pc EXCEPT ![Loop] = "collect"]
  /\ UNCHANGED <<now, m_arrive_time, m_is_cancled, m_pending_events, return,
                 first, batch, history>>

\* The orders in which a set of entries may be listed by key.
ByKey(entries) ==
  {s \in [1..Cardinality(entries) -> entries] :
     \A i, j \in DOMAIN s : i < j => s[i] # s[j] /\ s[i].at <= s[j].at}

\* Defect: cancelled events are taken too.
CollectCancelled ==
  /\ pc[Loop] = "collect"
  /\ LET due == {x \in m_pending_events : x.at <= now}
     IN  /\ \E s \in ByKey(due) :
              /\ tasks' = [i \in DOMAIN s |-> s[i].ev]
              /\ tmps' = tasks'
         /\ m_pending_events' = m_pending_events \ due
  /\ pc' = [pc EXCEPT ![Loop] = "repeat"]
  /\ UNCHANGED <<now, m_arrive_time, m_is_cancled, expiry, fired, return, first,
                 history>>

\* It takes the entries that are due out of the map, keeping those that are
\* not cancelled.
Collect ==
  /\ pc[Loop] = "collect"
  /\ LET due == {x \in m_pending_events : x.at <= now}
         live == {x \in due : ~m_is_cancled[x.ev]}
     IN  /\ \E s \in ByKey(live) :
              /\ tasks' = [i \in DOMAIN s |-> s[i].ev]
              /\ tmps' = tasks'
         /\ m_pending_events' = m_pending_events \ due
  /\ pc' = [pc EXCEPT ![Loop] = "repeat"]
  /\ UNCHANGED <<now, m_arrive_time, m_is_cancled, expiry, fired, return, first,
                 history>>

\* It adds the repeated ones again for their next time...
Repeat ==
  /\ pc[Loop] = "repeat"
  /\ tmps # <<>>
  /\ tmps' = Tail(tmps)
  /\ LET e == Head(tmps)
     IN  IF e \in Repeated
         THEN Insert(Loop, e, now + m_interval[e], "repeat")
         ELSE UNCHANGED <<now, m_arrive_time, m_is_cancled, m_pending_events,
                          expiry, fired, pc, return, first>>
  /\ UNCHANGED <<tasks, history>>

\* ...sets the timerfd...
Rearm ==
  /\ pc[Loop] = "repeat"
  /\ tmps = <<>>
  /\ Call(Loop, "snapshot", "run")
  /\ UNCHANGED <<now, m_arrive_time, m_is_cancled, m_pending_events, expiry,
                 fired, first, batch, history>>

\* ...and runs the callbacks it took, whatever has become of their events.
Run ==
  /\ pc[Loop] = "run"
  /\ IF tasks = <<>>
     THEN pc' = [pc EXCEPT ![Loop] = "idle"] /\ UNCHANGED <<tasks, lateRuns>>
     ELSE /\ tasks' = Tail(tasks)
          /\ lateRuns' = IF Head(tasks) \in deleted
                         THEN [lateRuns EXCEPT ![Head(tasks)] = @ + 1] ELSE lateRuns
          /\ UNCHANGED pc
  /\ UNCHANGED <<now, m_arrive_time, m_is_cancled, m_pending_events, expiry,
                 fired, return, first, tmps, added, users, deleted>>

Tick ==
  /\ now < MaxNow
  /\ now' = now + 1
  /\ UNCHANGED <<m_arrive_time, m_is_cancled, m_pending_events, expiry, fired,
                 pc, return, first, batch, history>>

Next ==
  \/ \E t \in Threads : Snapshot(t) \/ SetTime(t)
  \/ \E t \in Threads, e \in Events : addTimerEvent(t, e) \/ deleteTimerEvent(t, e)
  \/ \E e \in Events : setCancled(e)
  \/ Fire \/ Drain \/ Collect \/ Repeat \/ Rearm \/ Run
  \/ Tick

Spec == Init /\ [][Next]_vars

-----------------------------------------------------------------------------
\* A thread holds a first event exactly while it is about to arm the timerfd,
\* only the loop's thread is ever inside onTimer, and no callback runs before
\* the repeated events are back in the map.
TimerInv ==
  /\ TypeOK
  /\ \A t \in Threads : pc[t] = "settime" <=> first[t] # None
  /\ \A t \in Callers : /\ pc[t] \in {"idle", "snapshot", "settime"}
                        /\ return[t] = "idle"
  /\ return[Loop] \in {"idle", "repeat", "run"}
  /\ tmps # <<>> => \/ pc[Loop] = "repeat"
                   \/ /\ pc[Loop] \in {"snapshot", "settime"}
                      /\ return[Loop] = "repeat"

\* Some thread is on its way to arm the timerfd, or onTimer is.
Arming ==
  \/ fired
  \/ pc[Loop] \in {"collect", "repeat"}
  \/ \E t \in Threads : pc[t] \in {"snapshot", "settime"}

\* No timer event is forgotten: as long as one is pending the timerfd is armed,
\* or a thread that will arm it is under way, whatever the threads' interleaving.
NeverForgotten == m_pending_events # {} => expiry # 0 \/ Arming

\* No timer event is late: with every thread out of the Timer, the timerfd is
\* armed for the first pending event, or at most Retry from now.  "The fd
\* becomes readable at the given time" (timer.cc:101); "if it is not set, the
\* new event would not be triggered at its time" (timer.cc:120).
InTime ==
  ~Arming => \A x \in m_pending_events :
               expiry # 0 /\ (expiry <= x.at \/ expiry <= now + Retry)

\* The same as long as only the loop's thread has added events, whoever else
\* deletes some: the stale copy needs a second thread in addTimerEvent.
InTimeUntilShared == users \subseteq {Loop} => InTime

\* deleteTimerEvent does not recall a callback onTimer has already taken, but
\* there is at most one such run, however often the event repeats.
DeletedRunsOnce == \A e \in Events : lateRuns[e] <= 1
=============================================================================
