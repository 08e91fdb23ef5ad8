----------------------------- MODULE TcpServer ------------------------------
(***************************************************************************)
(* rocket/net/tcp/tcp_server.cc with tcp_acceptor.cc, fd_event_group.cc    *)
(* and the IOThreadGroup below it: the main thread accepts a connection,   *)
(* gives it to the next IO thread and registers it there by a task, while  *)
(* that thread is already reading from it.                                 *)
(*                                                                         *)
(* A connection is the number of its accept().  Its requests and answers   *)
(* are module TcpConnection's; here its peer only connects and closes.     *)
(* The IO thread's queue is used as module TaskQueue promises.             *)
(***************************************************************************)
EXTENDS IOThread, Sequences

CONSTANTS
  MaxClients,   \* bound: connections made to the server
  MaxFds        \* descriptors left for connections, RLIMIT_NOFILE

ASSUME ServerAssumption == MaxClients \in Nat /\ MaxFds \in Nat

Connections == 1..MaxClients

VARIABLES
  program,      \* "server": a TcpServer owns the group; "threads": the owner
                \* uses IOThread's own interface, and may destroy a thread
  arrived,      \* connections established by the kernel, accepted or not
  m_index,      \* of the IOThreadGroup
  io_thread,    \* the thread each accepted connection was given to
  accepting,    \* how far onAccept is with its last connection
  pending,      \* the addEpollEvent tasks queued for each thread's loop
  registered,   \* connections in their thread's epoll
  peer_closed,
  m_state,
  m_client      \* TcpServer::m_client, which keeps a TcpConnection alive

connVars == <<accepting, pending, registered, peer_closed, m_state, m_client>>
serverVars == <<program, arrived, m_index, io_thread, connVars>>
vars == <<owner, current, threadVars, serverVars>>

Accepted == 1..Len(io_thread)

TypeOK ==
  /\ ThreadsTypeOK
  /\ owner \in OwnerPoints \cup {"dead"}
  /\ program \in {"server", "threads"}
  /\ arrived \in 0..MaxClients
  /\ Len(io_thread) <= arrived
  /\ m_index \in 0..Size
  /\ io_thread \in Seq(IOThreads)
  /\ accepting \in {"none", "accepted", "constructed", "connected"}
  /\ pending \in [IOThreads -> Seq(Connections)]
  /\ registered \subseteq Connections
  /\ peer_closed \subseteq Connections
  /\ m_state \in [Connections -> {"NotConnected", "Connected", "Closed"}]
  /\ m_client \subseteq Connections

Init ==
  /\ ThreadsInit
  /\ program \in {"server", "threads"}
  /\ arrived = 0
  /\ m_index = 0
  /\ io_thread = <<>>
  /\ accepting = "none"
  /\ pending = [i \in IOThreads |-> <<>>]
  /\ registered = {}
  /\ peer_closed = {}
  /\ m_state = [c \in Connections |-> "NotConnected"]
  /\ m_client = {}

Alive == owner # "dead"

-----------------------------------------------------------------------------
(* The peers.                                                              *)

\* The acceptor listens from TcpServer's constructor on: a connection is made
\* by the kernel, and waits for accept().
Arrive ==
  /\ program = "server"
  /\ arrived < MaxClients
  /\ arrived' = arrived + 1
  /\ UNCHANGED <<owner, current, threadVars, program, m_index, io_thread, connVars>>

PeerCloses(c) ==
  /\ c \in 1..arrived \ peer_closed
  /\ peer_closed' = peer_closed \cup {c}
  /\ UNCHANGED <<owner, current, threadVars, program, arrived, m_index, io_thread,
                 accepting, pending, registered, m_state, m_client>>

-----------------------------------------------------------------------------
(* onAccept, in the main thread's loop.                                    *)

\* Defect: the index wraps one thread early.
NextIndexWrapsEarly == IF m_index + 1 >= Size THEN 1 ELSE m_index + 1

\* What IOThreadGroup::getIOThread leaves in m_index: one past the thread it
\* returns, and the number of that thread here.
NextIndex == IF m_index = Size THEN 1 ELSE m_index + 1

CallOnAccept ==
  /\ program = "server" /\ owner = "started"
  /\ accepting = "none"
  /\ Len(io_thread) < arrived

\* No connection closes its descriptor: each accept() takes one for good.
CanAccept == Len(io_thread) < MaxFds /\ Size > 0

Accept ==
  /\ CallOnAccept
  /\ CanAccept
  /\ io_thread' = Append(io_thread, NextIndex)
  /\ m_index' = NextIndex
  /\ accepting' = "accepted"
  /\ UNCHANGED <<owner, current, threadVars, program, arrived, pending, registered,
                 peer_closed, m_state, m_client>>

\* accept() returns -1, which is only logged, and getFdEvent(-1) reads the
\* element before the vector's first; an empty group has no first thread.
AcceptDies ==
  /\ CallOnAccept
  /\ ~CanAccept
  /\ owner' = "dead"
  /\ UNCHANGED <<current, threadVars, serverVars>>

\* The connection onAccept is about.
New == Len(io_thread)

\* TcpConnection's constructor: listenRead, by a task for the IO thread.
Construct ==
  /\ accepting = "accepted"
  /\ pending' = [pending EXCEPT ![io_thread[New]] = Append(@, New)]
  /\ accepting' = "constructed"
  /\ UNCHANGED <<owner, current, threadVars, program, arrived, m_index, io_thread,
                 registered, peer_closed, m_state, m_client>>

SetState ==
  /\ accepting = "constructed"
  /\ m_state' = [m_state EXCEPT ![New] = "Connected"]
  /\ accepting' = "connected"
  /\ UNCHANGED <<owner, current, threadVars, program, arrived, m_index, io_thread,
                 pending, registered, peer_closed, m_client>>

Insert ==
  /\ accepting = "connected"
  /\ m_client' = m_client \cup {New}
  /\ accepting' = "none"
  /\ UNCHANGED <<owner, current, threadVars, program, arrived, m_index, io_thread,
                 pending, registered, peer_closed, m_state>>

-----------------------------------------------------------------------------
(* The IO threads' loops.                                                  *)

\* loop() takes the queued tasks and runs them: each adds a descriptor to the
\* epoll.
RunTasks(i) ==
  /\ pc[i] = "loop"
  /\ pending[i] # <<>>
  /\ registered' = registered \cup {pending[i][k] : k \in DOMAIN pending[i]}
  /\ pending' = [pending EXCEPT ![i] = <<>>]
  /\ UNCHANGED <<owner, current, threadVars, program, arrived, m_index, io_thread,
                 accepting, peer_closed, m_state, m_client>>

\* Defect: onRead of the end of the stream does not ask for the state.
ReadEndUnchecked(c) ==
  /\ c \in registered \cap peer_closed
  /\ pc[io_thread[c]] = "loop"
  /\ registered' = registered \ {c}
  /\ m_state' = [m_state EXCEPT ![c] = "Closed"]
  /\ UNCHANGED <<owner, current, threadVars, program, arrived, m_index, io_thread,
                 accepting, pending, peer_closed, m_client>>

\* onRead reads the end of the stream and calls clear().  Until setState it
\* returns at once, and the epoll reports the descriptor again.
ReadEnd(c) ==
  /\ c \in registered \cap peer_closed
  /\ pc[io_thread[c]] = "loop"
  /\ m_state[c] = "Connected"
  /\ registered' = registered \ {c}
  /\ m_state' = [m_state EXCEPT ![c] = "Closed"]
  /\ UNCHANGED <<owner, current, threadVars, program, arrived, m_index, io_thread,
                 accepting, pending, peer_closed, m_client>>

-----------------------------------------------------------------------------
OwnerNext ==
  \/ Create \/ WaitInit \/ CallStart \/ Start \/ Join
  \/ program = "threads" /\ \E i \in IOThreads : Destroy(i)

OnAccept == Accept \/ AcceptDies \/ Construct \/ SetState \/ Insert

IONext(i) == RunTasks(i) \/ \E c \in Accepted : io_thread[c] = i /\ ReadEnd(c)

ThreadsNext == (OwnerNext \/ \E i \in IOThreads : Main(i)) /\ UNCHANGED serverVars

Next ==
  /\ Alive
  /\ \/ ThreadsNext
     \/ Arrive
     \/ \E c \in Connections : PeerCloses(c)
     \/ OnAccept
     \/ \E i \in IOThreads : IONext(i)

\* Every thread is scheduled.  Only a server must call start().
Fairness ==
  /\ WF_vars(Alive /\ (Create \/ WaitInit \/ Start \/ Join) /\ UNCHANGED serverVars)
  /\ WF_vars(Alive /\ program = "server" /\ CallStart /\ UNCHANGED serverVars)
  /\ WF_vars(Alive /\ OnAccept)
  /\ \A i \in IOThreads : WF_vars(Alive /\ Main(i) /\ UNCHANGED serverVars)
  /\ \A i \in IOThreads : WF_vars(Alive /\ IONext(i))

Spec == Init /\ [][Next]_vars /\ Fairness

-----------------------------------------------------------------------------
(* Properties.                                                             *)

\* Connections are dealt out in turn: any Size consecutive ones go to Size
\* different threads, so that no IO thread ever has two more than another.
Balanced ==
  \A j, k \in Accepted : j < k /\ k - j < Size => io_thread[j] # io_thread[k]

\* The handlers in an epoll, and the tasks that put them there, hold a bare
\* pointer to the connection: somebody keeps it alive, m_client or onAccept's
\* own pointer.
HandlersAlive ==
  \A c \in Connections :
    c \in registered \/ (\E i \in IOThreads : \E k \in DOMAIN pending[i] : pending[i][k] = c)
      => c \in m_client \/ (c = New /\ accepting # "none")

\* The main thread's setState and the IO thread's clear() do not overtake each
\* other: a connection that was closed is not connected again, nor registered.
ClosedForGood ==
  [][\A c \in Connections :
       m_state[c] = "Closed" => m_state'[c] = "Closed" /\ c \notin registered']_vars

\* Every connection, also one that was made before start(), reaches the epoll
\* of an IO thread, unless the process has died of a failed accept().
ConnectionsServed ==
  \A c \in Connections : arrived >= c ~> c \in registered \/ m_state[c] = "Closed" \/ ~Alive
=============================================================================
