------------------------------ MODULE IOThread ------------------------------
(***************************************************************************)
(* rocket/net/io_thread.cc and io_thread_group.cc: the threads of a group, *)
(* each with an EventLoop of its own, and the thread that owns them.       *)
(*                                                                         *)
(* An IOThread is built in two threads: the owner waits on the init        *)
(* semaphore until Main has an EventLoop, Main waits on the start          *)
(* semaphore until the owner calls start().  What the loop does once it    *)
(* runs is module EventLoop's; here it runs until its stop flag is set.    *)
(***************************************************************************)
EXTENDS Naturals

CONSTANT Size   \* how many threads the group has: Config::m_io_threads

ASSUME SizeAssumption == Size \in Nat

IOThreads == 1..Size

VARIABLES
  owner,              \* where the owner is, see OwnerPoints
  current,            \* the thread the owner builds, starts or destroys
  pc,                 \* where each IO thread is
  m_event_loop,       \* IOThread::m_event_loop is set
  m_init_semaphore,
  m_start_semaphore,
  m_stop_flag         \* of each thread's EventLoop

threadVars == <<pc, m_event_loop, m_init_semaphore, m_start_semaphore, m_stop_flag>>

\* "create", "wait_init": inside a constructor; "idle": all are built, or the
\* owner is between two calls; "start": inside IOThreadGroup::start; "join":
\* inside a destructor.  What comes after "started" is the server's.
OwnerPoints == {"create", "wait_init", "idle", "start", "started", "join"}

\* "unborn" before pthread_create, "returned" after Main, "joined" once the
\* destructor is over.
ThreadPoints == {"unborn", "main", "post_init", "wait_start", "loop", "returned", "joined"}

ThreadsTypeOK ==
  /\ current \in 1..Size + 1
  /\ pc \in [IOThreads -> ThreadPoints]
  /\ m_event_loop \in [IOThreads -> BOOLEAN]
  /\ m_init_semaphore \in [IOThreads -> 0..1]
  /\ m_start_semaphore \in [IOThreads -> 0..1]
  /\ m_stop_flag \in [IOThreads -> BOOLEAN]

ThreadsInit ==
  /\ owner = IF Size = 0 THEN "idle" ELSE "create"
  /\ current = 1
  /\ pc = [i \in IOThreads |-> "unborn"]
  /\ m_event_loop = [i \in IOThreads |-> FALSE]
  /\ m_init_semaphore = [i \in IOThreads |-> 0]
  /\ m_start_semaphore = [i \in IOThreads |-> 0]
  /\ m_stop_flag = [i \in IOThreads |-> FALSE]

-----------------------------------------------------------------------------
(* The owner.                                                              *)

\* The constructor creates the thread, with both semaphores at 0, and waits.
Create ==
  /\ owner = "create"
  /\ pc' = [pc EXCEPT ![current] = "main"]
  /\ owner' = "wait_init"
  /\ UNCHANGED <<current, m_event_loop, m_init_semaphore, m_start_semaphore, m_stop_flag>>

\* Built(k): the constructors of the first k threads have returned.
Built(k) ==
  /\ current' = IF k = Size THEN 1 ELSE k + 1
  /\ owner' = IF k = Size THEN "idle" ELSE "create"

\* Defect: the constructor does not wait for the new thread.
WaitInitNever ==
  /\ owner = "wait_init"
  /\ Built(current)
  /\ UNCHANGED threadVars

WaitInit ==
  /\ owner = "wait_init"
  /\ m_init_semaphore[current] > 0
  /\ m_init_semaphore' = [m_init_semaphore EXCEPT ![current] = @ - 1]
  /\ Built(current)
  /\ UNCHANGED <<pc, m_event_loop, m_start_semaphore, m_stop_flag>>

\* IOThreadGroup::start posts one thread's start semaphore after the other.
CallStart ==
  /\ owner = "idle"
  /\ owner' = IF Size = 0 THEN "started" ELSE "start"
  /\ UNCHANGED <<current, threadVars>>

\* Defect: the last thread of the group is not started.
StartAllButLast ==
  /\ owner = "start"
  /\ m_start_semaphore' =
       IF current < Size THEN [m_start_semaphore EXCEPT ![current] = @ + 1]
                         ELSE m_start_semaphore
  /\ current' = current + 1
  /\ owner' = IF current = Size THEN "started" ELSE "start"
  /\ UNCHANGED <<pc, m_event_loop, m_init_semaphore, m_stop_flag>>

Start ==
  /\ owner = "start"
  /\ m_start_semaphore' = [m_start_semaphore EXCEPT ![current] = @ + 1]
  /\ current' = current + 1
  /\ owner' = IF current = Size THEN "started" ELSE "start"
  /\ UNCHANGED <<pc, m_event_loop, m_init_semaphore, m_stop_flag>>

\* Defect: the destructor does not stop the loop.
DestroyQuietly(i) ==
  /\ owner \in {"idle", "started"}
  /\ pc[i] # "joined"
  /\ current' = i
  /\ owner' = "join"
  /\ UNCHANGED threadVars

\* ~IOThread: stop the loop, destroy both semaphores, join.  A thread that waits
\* on the destroyed start semaphore goes on waiting: glibc's sem_destroy does
\* nothing.
Destroy(i) ==
  /\ owner \in {"idle", "started"}
  /\ pc[i] # "joined"
  /\ m_stop_flag' = [m_stop_flag EXCEPT ![i] = TRUE]
  /\ current' = i
  /\ owner' = "join"
  /\ UNCHANGED <<pc, m_event_loop, m_init_semaphore, m_start_semaphore>>

\* pthread_join returns and the destructor deletes the loop.
Join ==
  /\ owner = "join"
  /\ pc[current] = "returned"
  /\ pc' = [pc EXCEPT ![current] = "joined"]
  /\ m_event_loop' = [m_event_loop EXCEPT ![current] = FALSE]
  /\ owner' = "started"
  /\ UNCHANGED <<current, m_init_semaphore, m_start_semaphore, m_stop_flag>>

-----------------------------------------------------------------------------
(* IOThread::Main.                                                         *)

Goto(i, here, there) == pc[i] = here /\ pc' = [pc EXCEPT ![i] = there]

NewLoop(i) ==
  /\ Goto(i, "main", "post_init")
  /\ m_event_loop' = [m_event_loop EXCEPT ![i] = TRUE]
  /\ UNCHANGED <<owner, current, m_init_semaphore, m_start_semaphore, m_stop_flag>>

PostInit(i) ==
  /\ Goto(i, "post_init", "wait_start")
  /\ m_init_semaphore' = [m_init_semaphore EXCEPT ![i] = @ + 1]
  /\ UNCHANGED <<owner, current, m_event_loop, m_start_semaphore, m_stop_flag>>

WaitStart(i) ==
  /\ Goto(i, "wait_start", "loop")
  /\ m_start_semaphore[i] > 0
  /\ m_start_semaphore' = [m_start_semaphore EXCEPT ![i] = @ - 1]
  /\ UNCHANGED <<owner, current, m_event_loop, m_init_semaphore, m_stop_flag>>

LoopEnds(i) ==
  /\ Goto(i, "loop", "returned")
  /\ m_stop_flag[i]
  /\ UNCHANGED <<owner, current, m_event_loop, m_init_semaphore, m_start_semaphore,
                 m_stop_flag>>

Main(i) == NewLoop(i) \/ PostInit(i) \/ WaitStart(i) \/ LoopEnds(i)

-----------------------------------------------------------------------------
\* The owner is past the constructor of thread i.
Constructed(i) == owner \notin {"create", "wait_init"} \/ i < current

\* Nobody gets at the EventLoop of a thread that has not built it yet, or whose
\* destructor has deleted it.
LoopPublished == \A i \in IOThreads : Constructed(i) => m_event_loop[i] <=> pc[i] # "joined"

\* A destructor returns if its thread was started: stop() reaches a thread in
\* any place before or inside its loop.  A thread that was never started waits
\* for ever, and the destructor with it.
DestructorReturns ==
  \A i \in IOThreads :
    owner = "join" /\ current = i ~> pc[i] = "joined" \/ pc[i] = "wait_start"
=============================================================================
