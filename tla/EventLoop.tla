----------------------------- MODULE EventLoop -----------------------------
(***************************************************************************)
(* rocket/net/eventloop.cc: one EventLoop, the thread that loops on it and *)
(* the threads that hand it work.                                          *)
(*                                                                         *)
(* Other threads call addTask(cb, true), addEpollEvent, deleteEpollEvent   *)
(* and stop.  The loop swaps the pending queue out, runs what it took,     *)
(* waits in epoll_wait and queues the handlers of the ready descriptors.   *)
(* Both sides guard the queue with a ScopeMutex they unlock() themselves,  *)
(* so every step of the guard is a step here: see module ScopeMutex.       *)
(*                                                                         *)
(* A handler is queued and run the same way whether it is the read or the  *)
(* write handler, so an Fd stands for a descriptor with one of the two     *)
(* conditions; error handlers are never registered (fd_event.cc:38-42).    *)
(***************************************************************************)
EXTENDS Integers, Sequences, FiniteSets

CONSTANTS
  Posters,    \* threads other than the loop's
  Stoppers,   \* those of them that call stop()
  Loop,       \* the thread that constructed the EventLoop and runs loop()
  Fds,        \* descriptors registered and removed from other threads
  WakeFd,     \* m_wakeup_fd, an eventfd
  MaxPosts,   \* bound: tasks added by each poster
  MaxEvents   \* g_epoll_max_events

\* loop()'s guard, named apart from the guards of addTask, which are named by
\* their threads.
LoopScope == "loop()"

ASSUME LoopAssumption ==
  /\ Loop \notin Posters
  /\ LoopScope \notin Posters \cup {Loop}
  /\ Stoppers \subseteq Posters
  /\ WakeFd \notin Fds
  /\ MaxPosts \in Nat
  /\ MaxEvents \in Nat \ {0}

VARIABLES
  pc,              \* where each thread is
  arg,             \* the cb of the addTask each thread is in
  m_mutex,         \* the pthread mutex: locked or not
  m_pending_tasks,
  tem_tasks,       \* loop()'s local queue
  wakeup_fd,       \* the eventfd's counter is not zero
  m_stop_flag,
  m_listen_fds,    \* also the kernel's interest set: both change together
  ready,           \* descriptors with data to read, or room to write
  hung,            \* descriptors in error (EPOLLERR)
  events,          \* result_events still to be handled
  posted, ran,     \* history: tasks added, and number of the last one run
  wanted,          \* history: descriptors the posted calls want registered
  drained,         \* history: the eventfd was read since the last swap
  stolen           \* history: a guard has released another thread's lock

vars == <<pc, arg, m_mutex, m_pending_tasks, tem_tasks, wakeup_fd, m_stop_flag,
          m_listen_fds, ready, hung, events, posted, ran, wanted, drained,
          stolen>>

Threads == Posters \cup {Loop}

\* A task: who added it, its number among that thread's tasks, what it does.
\* Handlers queued by the loop itself are not numbered.
Tasks == [by : Threads, n : 0..MaxPosts, op : {"user", "add", "del", "handler"},
          fd : Fds \cup {WakeFd}]

Handler(f) == [by |-> Loop, n |-> 0, op |-> "handler", fd |-> f]

\* Program points.  push_*: inside addTask; swap_*: the guard of loop().
PosterPoints == {"idle", "push_lock", "push", "push_unlock", "push_wakeup",
                 "push_dtor", "stop_wakeup"}
LoopPoints == {"top", "swap_lock", "swap", "swap_unlock", "run", "wait",
               "dispatch", "push_lock", "push", "push_unlock", "push_dtor",
               "swap_dtor", "ended"}

TypeOK ==
  /\ pc \in [Threads -> PosterPoints \cup LoopPoints]
  /\ arg \in [Threads -> Tasks]
  /\ m_mutex \in BOOLEAN
  /\ m_pending_tasks \in Seq(Tasks)
  /\ tem_tasks \in Seq(Tasks)
  /\ wakeup_fd \in BOOLEAN
  /\ m_stop_flag \in BOOLEAN
  /\ m_listen_fds \subseteq Fds \cup {WakeFd}
  /\ ready \subseteq Fds
  /\ hung \subseteq Fds
  /\ events \subseteq [fd : Fds \cup {WakeFd}, in : BOOLEAN, err : BOOLEAN]
  /\ posted \in [Posters -> 0..MaxPosts]
  /\ ran \in [Posters -> 0..MaxPosts]
  /\ wanted \subseteq Fds \cup {WakeFd}
  /\ drained \in BOOLEAN
  /\ stolen \in BOOLEAN

\* The constructor, run in the loop's thread, registers the eventfd.
Init ==
  /\ pc = [t \in Threads |-> IF t = Loop THEN "top" ELSE "idle"]
  /\ arg = [t \in Threads |-> Handler(WakeFd)]
  /\ m_mutex = FALSE
  /\ m_pending_tasks = <<>>
  /\ tem_tasks = <<>>
  /\ wakeup_fd = FALSE
  /\ m_stop_flag = FALSE
  /\ m_listen_fds = {WakeFd}
  /\ ready = {}
  /\ hung = {}
  /\ events = {}
  /\ posted = [p \in Posters |-> 0]
  /\ ran = [p \in Posters |-> 0]
  /\ wanted = {}
  /\ drained = FALSE
  /\ stolen = FALSE

queueVars == <<m_pending_tasks, tem_tasks, posted, ran, wanted>>
epollVars == <<m_listen_fds, ready, hung, events>>
wakeVars == <<wakeup_fd, m_stop_flag, drained>>

\* What the callbacks of addEpollEvent and deleteEpollEvent do to a set of
\* registered descriptors: ADD_TO_EPOLL, DEL_TO_EPOLL.
Register(cb, fds) ==
  IF cb.op = "add" THEN fds \cup {cb.fd}
  ELSE IF cb.op = "del" THEN fds \ {cb.fd}
  ELSE fds

Goto(t, here, there) == pc[t] = here /\ pc' = [pc EXCEPT ![t] = there]

-----------------------------------------------------------------------------
(* The guard on m_mutex, used by addTask and by loop().                    *)

\* t is between its guard's lock() and its unlock().
InSection(t) == pc[t] \in {"push", "push_unlock", "swap", "swap_unlock"}

Alone(t) == \A u \in Threads \ {t} : ~InSection(u)

Acquire(t, here, there) ==
  /\ Goto(t, here, there)
  /\ ~m_mutex
  /\ m_mutex' = TRUE
  /\ UNCHANGED <<arg, stolen, queueVars, epollVars, wakeVars>>

\* Defect: unlock() never reaches the mutex.
UnlockFlagOnly(t, here, there) ==
  /\ Goto(t, here, there)
  /\ UNCHANGED <<arg, m_mutex, stolen, queueVars, epollVars, wakeVars>>

Unlock(t, here, there) ==
  /\ Goto(t, here, there)
  /\ m_mutex' = FALSE
  /\ UNCHANGED <<arg, stolen, queueVars, epollVars, wakeVars>>

\* The destructor unlocks once more.
Destroy(t, here, there) ==
  /\ Goto(t, here, there)
  /\ m_mutex' = FALSE
  /\ stolen' = (stolen \/ ~Alone(t))
  /\ UNCHANGED <<arg, queueVars, epollVars, wakeVars>>

-----------------------------------------------------------------------------
(* addTask(cb, is_wakeup): posters pass true, the loop thread false.       *)

\* A poster calls addTask, addEpollEvent or deleteEpollEvent; the last two
\* see that they are not in the loop's thread and call addTask.
CallAddTask(p) ==
  /\ posted[p] < MaxPosts
  /\ Goto(p, "idle", "push_lock")
  /\ \E op \in {"user", "add", "del"}, f \in Fds :
       arg' = [arg EXCEPT ![p] =
                 [by |-> p, n |-> posted[p] + 1, op |-> op, fd |-> f]]
  /\ UNCHANGED <<m_mutex, stolen, queueVars, epollVars, wakeVars>>

PushLock(t) == Acquire(t, "push_lock", "push")

\* Defect: the task goes to the front of the queue.
PushFront(t) ==
  /\ Goto(t, "push", "push_unlock")
  /\ m_pending_tasks' = <<arg[t]>> \o m_pending_tasks
  /\ posted' = [p \in Posters |-> IF p = t THEN posted[p] + 1 ELSE posted[p]]
  /\ wanted' = Register(arg[t], wanted)
  /\ arg' = [arg EXCEPT ![t] = Handler(WakeFd)]
  /\ UNCHANGED <<m_mutex, stolen, tem_tasks, ran, epollVars, wakeVars>>

\* Two threads on the same std::queue are a data race: the push may be lost.
Push(t) ==
  /\ Goto(t, "push", "push_unlock")
  /\ \/ m_pending_tasks' = Append(m_pending_tasks, arg[t])
     \/ ~Alone(t) /\ UNCHANGED m_pending_tasks
  /\ posted' = [p \in Posters |-> IF p = t THEN posted[p] + 1 ELSE posted[p]]
  /\ wanted' = Register(arg[t], wanted)
  /\ arg' = [arg EXCEPT ![t] = Handler(WakeFd)]
  /\ UNCHANGED <<m_mutex, stolen, tem_tasks, ran, epollVars, wakeVars>>

\* Defect: nobody wakes the loop.
PushUnlockNeverWakes(t) == Unlock(t, "push_unlock", "push_dtor")

PushUnlock(t) ==
  Unlock(t, "push_unlock", IF t = Loop THEN "push_dtor" ELSE "push_wakeup")

\* WakeUpFdEvent::wakeup writes the eventfd.
PushWakeup(p) ==
  /\ Goto(p, "push_wakeup", "push_dtor")
  /\ wakeup_fd' = TRUE
  /\ UNCHANGED <<arg, m_mutex, stolen, queueVars, epollVars, m_stop_flag, drained>>

PushDestroy(t) ==
  Destroy(t, "push_dtor", IF t = Loop THEN "dispatch" ELSE "idle")

-----------------------------------------------------------------------------
(* stop().                                                                 *)

\* Defect: stop() does not wake the loop.
CallStopQuietly(p) ==
  /\ p \in Stoppers
  /\ ~m_stop_flag
  /\ pc[p] = "idle"
  /\ m_stop_flag' = TRUE
  /\ UNCHANGED <<pc, arg, m_mutex, stolen, queueVars, epollVars, wakeup_fd, drained>>

CallStop(p) ==
  /\ p \in Stoppers
  /\ ~m_stop_flag
  /\ Goto(p, "idle", "stop_wakeup")
  /\ m_stop_flag' = TRUE
  /\ UNCHANGED <<arg, m_mutex, stolen, queueVars, epollVars, wakeup_fd, drained>>

StopWakeup(p) ==
  /\ Goto(p, "stop_wakeup", "idle")
  /\ wakeup_fd' = TRUE
  /\ UNCHANGED <<arg, m_mutex, stolen, queueVars, epollVars, m_stop_flag, drained>>

-----------------------------------------------------------------------------
(* loop().                                                                 *)

\* Defect: the loop does not look at the flag.
TestStopNever ==
  /\ Goto(Loop, "top", "swap_lock")
  /\ UNCHANGED <<arg, m_mutex, stolen, queueVars, epollVars, wakeVars>>

TestStop ==
  /\ Goto(Loop, "top", IF m_stop_flag THEN "ended" ELSE "swap_lock")
  /\ UNCHANGED <<arg, m_mutex, stolen, queueVars, epollVars, wakeVars>>

SwapLock == Acquire(Loop, "swap_lock", "swap")

\* Defect: the queue is copied, not swapped.
SwapCopies ==
  /\ Goto(Loop, "swap", "swap_unlock")
  /\ tem_tasks' = m_pending_tasks
  /\ drained' = FALSE
  /\ UNCHANGED <<arg, m_mutex, m_pending_tasks, stolen, posted, ran, wanted,
                 epollVars, wakeup_fd, m_stop_flag>>

\* m_pending_tasks.swap(tem_tasks).
Swap ==
  /\ Goto(Loop, "swap", "swap_unlock")
  /\ tem_tasks' = m_pending_tasks
  /\ m_pending_tasks' = <<>>
  /\ drained' = FALSE
  /\ UNCHANGED <<arg, m_mutex, stolen, posted, ran, wanted, epollVars,
                 wakeup_fd, m_stop_flag>>

SwapUnlock == Unlock(Loop, "swap_unlock", "run")

\* The task is a change of the epoll, the eventfd's read callback, a handler
\* that reads or writes until EAGAIN, or user code.
RunTask ==
  /\ pc[Loop] = "run"
  /\ tem_tasks # <<>>
  /\ LET cb == Head(tem_tasks) IN
       /\ m_listen_fds' = Register(cb, m_listen_fds)
       /\ IF cb.op = "handler" /\ cb.fd = WakeFd
          THEN wakeup_fd' = FALSE /\ drained' = TRUE
          ELSE UNCHANGED <<wakeup_fd, drained>>
       /\ ready' = IF cb.op = "handler" THEN ready \ {cb.fd} ELSE ready
       /\ ran' = [p \in Posters |-> IF p = cb.by THEN cb.n ELSE ran[p]]
  /\ tem_tasks' = Tail(tem_tasks)
  /\ UNCHANGED <<pc, arg, m_mutex, m_pending_tasks, m_stop_flag, hung, events,
                 posted, wanted, stolen>>

RunDone ==
  /\ Goto(Loop, "run", "wait")
  /\ tem_tasks = <<>>
  /\ UNCHANGED <<arg, m_mutex, stolen, queueVars, epollVars, wakeVars>>

\* What epoll_wait would report.
Reportable ==
  {e \in [fd : m_listen_fds, in : BOOLEAN, err : BOOLEAN] :
     /\ e.in = (IF e.fd = WakeFd THEN wakeup_fd ELSE e.fd \in ready)
     /\ e.err = (e.fd \in hung)
     /\ e.in \/ e.err}

\* epoll_wait returns as many descriptors as the array holds.
EpollReturns ==
  /\ Goto(Loop, "wait", "dispatch")
  /\ events' \in SUBSET Reportable
  /\ events' # {}
  /\ Cardinality(events') =
       IF Cardinality(Reportable) < MaxEvents THEN Cardinality(Reportable)
                                              ELSE MaxEvents
  /\ UNCHANGED <<arg, m_mutex, stolen, queueVars, m_listen_fds, ready, hung, wakeVars>>

\* Defect: epoll_wait without a time limit.
EpollWaitsForever == FALSE /\ UNCHANGED vars

\* Ten seconds with nothing to report, or a signal.
EpollTimeout ==
  /\ Goto(Loop, "wait", "dispatch")
  /\ Reportable = {}
  /\ UNCHANGED <<arg, m_mutex, stolen, queueVars, epollVars, wakeVars>>

\* One pass of the for loop: the handler goes through addTask, a descriptor
\* in error is removed from the epoll.
Dispatch ==
  \E e \in events :
    /\ Goto(Loop, "dispatch", IF e.in THEN "push_lock" ELSE "dispatch")
    /\ events' = events \ {e}
    /\ m_listen_fds' = IF e.err THEN m_listen_fds \ {e.fd} ELSE m_listen_fds
    /\ arg' = IF e.in THEN [arg EXCEPT ![Loop] = Handler(e.fd)] ELSE arg
    /\ UNCHANGED <<m_mutex, stolen, queueVars, ready, hung, wakeVars>>

DispatchDone ==
  /\ Goto(Loop, "dispatch", "swap_dtor")
  /\ events = {}
  /\ UNCHANGED <<arg, m_mutex, stolen, queueVars, epollVars, wakeVars>>

\* End of the iteration: the guard declared at its top is destroyed.
SwapDestroy == Destroy(Loop, "swap_dtor", "top")

-----------------------------------------------------------------------------
(* The peers and the kernel.                                               *)

Arrive(f) ==
  /\ f \notin ready
  /\ ready' = ready \cup {f}
  /\ UNCHANGED <<pc, arg, m_mutex, stolen, queueVars, m_listen_fds, hung, events,
                 wakeVars>>

HangUp(f) ==
  /\ f \notin hung
  /\ hung' = hung \cup {f}
  /\ UNCHANGED <<pc, arg, m_mutex, stolen, queueVars, m_listen_fds, ready, events,
                 wakeVars>>

-----------------------------------------------------------------------------
LoopStep ==
  \/ TestStop \/ SwapLock \/ Swap \/ SwapUnlock \/ RunTask \/ RunDone
  \/ EpollReturns \/ EpollTimeout \/ Dispatch \/ DispatchDone \/ SwapDestroy
  \/ PushLock(Loop) \/ Push(Loop) \/ PushUnlock(Loop) \/ PushDestroy(Loop)

\* The steps of a call a poster has begun.
PosterStep(p) ==
  \/ PushLock(p) \/ Push(p) \/ PushUnlock(p) \/ PushWakeup(p) \/ PushDestroy(p)
  \/ StopWakeup(p)

Next ==
  \/ LoopStep
  \/ \E p \in Posters : PosterStep(p) \/ CallAddTask(p) \/ CallStop(p)
  \/ \E f \in Fds : Arrive(f) \/ HangUp(f)

\* Threads are scheduled and epoll_wait times out; nobody has to call or to
\* send anything.
Fairness ==
  /\ WF_vars(LoopStep)
  /\ \A p \in Posters : WF_vars(PosterStep(p))

SafeSpec == Init /\ [][Next]_vars

Spec == SafeSpec /\ Fairness

-----------------------------------------------------------------------------
(* Properties.  Those about the queue hold until a guard releases a lock   *)
(* that is not its own; from there on the program races on a std::queue.   *)

\* Each thread is where its code can be, pushes its next task, and loop()'s
\* local queue is empty outside the part of the loop that runs it.
ThreadsInv ==
  /\ pc[Loop] \in LoopPoints
  /\ \A p \in Posters : pc[p] \in PosterPoints
  /\ \A t \in Threads : pc[t] \in {"push_lock", "push"} =>
       /\ arg[t].by = t
       /\ t = Loop => arg[t].op = "handler"
       /\ t \in Posters => arg[t].n = posted[t] + 1
  /\ pc[Loop] \notin {"swap_unlock", "run"} => tem_tasks = <<>>

LoopInv == TypeOK /\ ThreadsInv

\* Tasks not run yet, oldest first.
Queue == tem_tasks \o m_pending_tasks

\* addTask locks "when it adds a task to the queue", loop() locks "the taking
\* of the tasks" (eventloop.cc:205, :111): one thread at a time.
QueueExclusive == \A t, u \in Threads : InSection(t) /\ InSection(u) => t = u

\* Until a destructor steals the lock, the queue is accessed by one thread
\* at a time and only under the lock.
ExclusiveUntilStolen ==
  ~stolen => /\ QueueExclusive
             /\ \A t \in Threads : InSection(t) => m_mutex

\* The tasks of p in q are those numbered from + 1 to to, oldest first.
HoldsExactly(q, p, from, to) ==
  /\ from <= to
  /\ \A i \in 1..Len(q) : q[i].by = p => q[i].n \in from + 1 .. to
  /\ \A i, j \in 1..Len(q) :
       i < j /\ q[i].by = p /\ q[j].by = p => q[i].n < q[j].n
  /\ \A n \in from + 1 .. to : \E i \in 1..Len(q) : q[i].by = p /\ q[i].n = n

\* No task of a poster is lost, repeated or overtaken by a later one, across
\* the swap and the two queues: those not run yet are exactly the ones added
\* after the last one run, in order.
TasksConserved == 
  ~stolen => \A p \in Posters : HoldsExactly(Queue, p, ran[p], posted[p])

\* The registrations the epoll will have once the queue is run are those the
\* calls asked for, in the order the calls added them: the last queued add or
\* delete of a descriptor decides, or what m_listen_fds has if there is none.
\* A descriptor in error is excepted, the loop removes it by itself.
RegistrationFollowsCalls ==
  ~stolen => \A f \in Fds \ hung :
    LET changes == {i \in 1..Len(Queue) : /\ Queue[i].fd = f
                                          /\ Queue[i].op \in {"add", "del"}}
    IN  \/ changes = {} /\ (f \in wanted <=> f \in m_listen_fds)
        \/ \E i \in changes : /\ \A j \in changes : j <= i
                              /\ f \in wanted <=> Queue[i].op = "add"

\* Some poster has queued a task and not written the eventfd yet.
AboutToWake == \E p \in Posters : pc[p] \in {"push_unlock", "push_wakeup"}

\* A poster's task in the pending queue has the eventfd readable, or a poster
\* about to write it, unless the loop has read the eventfd since it took the
\* queue: that read is the only way the loop can go to sleep on a task.
WakeupCoversTasks ==
  ~stolen =>
    \A i \in 1..Len(m_pending_tasks) :
      m_pending_tasks[i].by \in Posters =>
        wakeup_fd \/ drained \/ AboutToWake

\* The same of stop(): once the flag is set, either the loop will test it
\* without sleeping, or the wake-up was read in the iteration in progress.
WakeupCoversStop ==
  m_stop_flag =>
    \/ wakeup_fd
    \/ \E p \in Posters : pc[p] = "stop_wakeup"
    \/ drained /\ pc[Loop] \notin {"swap_lock", "swap"}
    \/ pc[Loop] \in {"top", "ended"}

\* Every task added is run, thanks to the time limit of epoll_wait, unless
\* stop() ends the loop first: what is pending then is dropped.
TasksRun ==
  \A p \in Posters : \A n \in 1..MaxPosts :
    posted[p] >= n ~> ran[p] >= n \/ m_stop_flag \/ stolen

\* stop() ends the loop.
StopEndsLoop == m_stop_flag ~> pc[Loop] = "ended" \/ stolen

\* The guards on m_mutex: one per poster, in addTask, and the loop's two, in
\* loop() and in the addTask it calls before the first one is destroyed.
Guards == Threads \cup {LoopScope}

Stage(g) ==
  LET t == IF g = LoopScope THEN Loop ELSE g
      waiting == IF g = LoopScope THEN {"swap_lock"} ELSE {"push_lock"}
      held == IF g = LoopScope THEN {"swap", "swap_unlock"}
                               ELSE {"push", "push_unlock"}
      out == IF g = LoopScope THEN {"top", "ended"}
             ELSE {"idle", "stop_wakeup", "top", "swap_lock", "swap", "swap_unlock",
                   "run", "wait", "dispatch", "swap_dtor", "ended"}
  IN  CASE pc[t] \in waiting -> "waiting"
        [] pc[t] \in held -> "held"
        [] pc[t] \in out -> "out"
        [] OTHER -> "released"

\* EventLoop uses its mutex exactly as module ScopeMutex describes, every
\* guard calling unlock().
MutexImpl ==
  INSTANCE ScopeMutex WITH
    Explicit <- Guards,
    scope <- [g \in Guards |-> Stage(g)],
    m_is_lock <- [g \in Guards |-> Stage(g) \in {"held", "released"}],
    locked <- m_mutex

UsesScopeMutex == MutexImpl!SafeSpec

\* While a thread waits for the queue's mutex some thread gets it, although each
\* guard releases twice, whoever the second release belongs to.
QueueWaitersProgress == MutexImpl!WaitersProgress

\* The loop is a task queue that runs each thread's tasks once and in order.
QueueImpl == INSTANCE TaskQueue WITH undefined <- stolen

ImplementsTaskQueue == QueueImpl!Spec
=============================================================================
