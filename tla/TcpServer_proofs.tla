--------------------------- MODULE TcpServer_proofs ---------------------------
(* TcpServer for every number of IO threads, connections and descriptors.    *)
EXTENDS TcpServer, TLAPS

-----------------------------------------------------------------------------
(* The threads.                                                            *)

\* What each thread has done by its place in Main, and how far the owner is
\* with those it has not built yet, or not started yet.
ThreadsInv ==
  /\ ThreadsTypeOK
  /\ owner \in OwnerPoints \cup {"dead"}
  /\ owner \in {"create", "wait_init", "start", "join"} => current \in IOThreads
  /\ owner = "idle" => current = 1
  /\ \A i \in IOThreads :
       /\ m_event_loop[i] <=> pc[i] \in {"post_init", "wait_start", "loop", "returned"}
       /\ pc[i] \in {"unborn", "main", "post_init"} => m_init_semaphore[i] = 0
       /\ m_init_semaphore[i] > 0 => pc[i] # "main"
       /\ owner \in {"create", "wait_init"} =>
            /\ i > current => pc[i] = "unborn"
            /\ i < current => pc[i] \notin {"unborn", "main"}
       /\ owner = "create" /\ i = current => pc[i] = "unborn"
       /\ owner \notin {"create", "wait_init"} => pc[i] \notin {"unborn", "main"}
       /\ owner \in {"create", "wait_init", "idle"} => m_start_semaphore[i] = 0
       /\ owner = "start" /\ i >= current => m_start_semaphore[i] = 0

LEMMA StepOwner ==
  ASSUME ThreadsInv, OwnerNext
  PROVE  ThreadsInv'
  <1> USE SizeAssumption DEF IOThreads
  <1>1. CASE Create
    <2>1. /\ current \in IOThreads /\ pc[current] = "unborn" /\ owner = "create"
          /\ owner' = "wait_init" /\ pc' = [pc EXCEPT ![current] = "main"]
          /\ current' = current /\ m_event_loop' = m_event_loop /\ m_stop_flag' = m_stop_flag
          /\ m_init_semaphore' = m_init_semaphore /\ m_start_semaphore' = m_start_semaphore
      BY <1>1 DEF Create, ThreadsInv
    <2>2. pc' \in [IOThreads -> ThreadPoints] /\ pc'[current] = "main"
      BY <2>1 DEF ThreadsInv, ThreadsTypeOK, ThreadPoints
    <2>3. \A i \in IOThreads : i # current => pc'[i] = pc[i]
      BY <2>1 DEF ThreadsInv, ThreadsTypeOK
    <2>4. ThreadsTypeOK'
      BY <2>1, <2>2 DEF ThreadsInv, ThreadsTypeOK
    <2>5. ~m_event_loop[current] /\ m_init_semaphore[current] = 0
      BY <2>1 DEF ThreadsInv
    <2> QED
      BY <2>1, <2>2, <2>3, <2>4, <2>5 DEF ThreadsInv, OwnerPoints
  <1>2. CASE WaitInit
    <2>1. /\ owner = "wait_init" /\ current \in IOThreads
          /\ m_init_semaphore[current] > 0 /\ pc[current] \in {"wait_start", "loop", "returned", "joined"}
          /\ pc' = pc /\ m_event_loop' = m_event_loop /\ m_stop_flag' = m_stop_flag
          /\ m_start_semaphore' = m_start_semaphore
          /\ m_init_semaphore' = [m_init_semaphore EXCEPT ![current] = @ - 1]
      BY <1>2 DEF WaitInit, ThreadsInv, ThreadsTypeOK, ThreadPoints
    <2>2. m_init_semaphore' \in [IOThreads -> 0..1]
      BY <2>1 DEF ThreadsInv, ThreadsTypeOK
    <2>3. \A i \in IOThreads : m_init_semaphore'[i] <= m_init_semaphore[i]
      <3>1. m_init_semaphore \in [IOThreads -> 0..1]
        BY DEF ThreadsInv, ThreadsTypeOK
      <3> QED
        BY <2>1, <3>1
    <2>4. CASE current = Size
      <3>1. owner' = "idle" /\ current' = 1
        BY <1>2, <2>4 DEF WaitInit, Built
      <3>2. \A i \in IOThreads : pc[i] \notin {"unborn", "main"}
        BY <2>1, <2>4 DEF ThreadsInv
      <3> QED
        BY <2>1, <2>2, <2>3, <3>1, <3>2 DEF ThreadsInv, ThreadsTypeOK, OwnerPoints
    <2>5. CASE current # Size
      <3>1. owner' = "create" /\ current' = current + 1
        BY <1>2, <2>5 DEF WaitInit, Built
      <3>2. /\ current' \in IOThreads /\ pc[current'] = "unborn"
            /\ \A i \in IOThreads : i > current' => pc[i] = "unborn"
            /\ \A i \in IOThreads : i < current' => pc[i] \notin {"unborn", "main"}
        BY <2>1, <2>5, <3>1 DEF ThreadsInv
      <3> QED
        BY <2>1, <2>2, <2>3, <3>1, <3>2 DEF ThreadsInv, ThreadsTypeOK, OwnerPoints
    <2> QED
      BY <2>4, <2>5
  <1>3. CASE CallStart
    BY <1>3 DEF CallStart, threadVars, ThreadsInv, ThreadsTypeOK, OwnerPoints, ThreadPoints
  <1>4. CASE Start
    BY <1>4 DEF Start, ThreadsInv, ThreadsTypeOK, OwnerPoints, ThreadPoints
  <1>5. CASE Join
    BY <1>5 DEF Join, ThreadsInv, ThreadsTypeOK, OwnerPoints, ThreadPoints
  <1>6. ASSUME NEW i \in IOThreads, Destroy(i) PROVE ThreadsInv'
    BY <1>6 DEF Destroy, ThreadsInv, ThreadsTypeOK, OwnerPoints, ThreadPoints
  <1> QED
    BY <1>1, <1>2, <1>3, <1>4, <1>5, <1>6 DEF OwnerNext

LEMMA StepMain ==
  ASSUME ThreadsInv, NEW t \in IOThreads, Main(t)
  PROVE  ThreadsInv'
  <1> USE SizeAssumption DEF IOThreads, Goto
  <1>1. CASE NewLoop(t)
    BY <1>1 DEF NewLoop, ThreadsInv, ThreadsTypeOK, OwnerPoints, ThreadPoints
  <1>2. CASE PostInit(t)
    BY <1>2 DEF PostInit, ThreadsInv, ThreadsTypeOK, OwnerPoints, ThreadPoints
  <1>3. CASE WaitStart(t)
    BY <1>3 DEF WaitStart, ThreadsInv, ThreadsTypeOK, OwnerPoints, ThreadPoints
  <1>4. CASE LoopEnds(t)
    BY <1>4 DEF LoopEnds, ThreadsInv, ThreadsTypeOK, OwnerPoints, ThreadPoints
  <1> QED
    BY <1>1, <1>2, <1>3, <1>4 DEF Main

LEMMA StepThreads ==
  ASSUME ThreadsInv, [Next]_vars
  PROVE  ThreadsInv'
  <1>1. ASSUME UNCHANGED <<owner, current, threadVars>> PROVE ThreadsInv'
    BY <1>1 DEF ThreadsInv, ThreadsTypeOK, threadVars
  <1>2. CASE ThreadsNext
    BY <1>2, StepOwner, StepMain DEF ThreadsNext
  <1>3. CASE AcceptDies
    BY <1>3, SizeAssumption
       DEF AcceptDies, CallOnAccept, ThreadsInv, ThreadsTypeOK, threadVars, OwnerPoints
  <1>4. CASE Arrive \/ (\E c \in Connections : PeerCloses(c)) \/ UNCHANGED vars
    BY <1>1, <1>4 DEF Arrive, PeerCloses, vars
  <1>5. CASE Accept \/ Construct \/ SetState \/ Insert
    BY <1>1, <1>5 DEF Accept, Construct, SetState, Insert
  <1>6. ASSUME NEW i \in IOThreads, IONext(i) PROVE ThreadsInv'
    BY <1>1, <1>6 DEF IONext, RunTasks, ReadEnd
  <1> QED
    BY <1>2, <1>3, <1>4, <1>5, <1>6 DEF Next, OnAccept
-----------------------------------------------------------------------------
(* The connections.                                                        *)

Queued(i, c) == \E k \in DOMAIN pending[i] : pending[i][k] = c

\* The threads were dealt out downwards from m_index and round again.
DealInv ==
  /\ io_thread \in Seq(IOThreads)
  /\ m_index \in 0..Size
  /\ \A k \in Accepted :
       LET ago == Len(io_thread) - k
       IN  /\ ago < m_index => io_thread[k] = m_index - ago
           /\ m_index <= ago /\ ago < Size => io_thread[k] = m_index + Size - ago
  /\ Balanced

LEMMA StepDeal ==
  ASSUME DealInv, [Next]_vars
  PROVE  DealInv'
  <1>1. ASSUME UNCHANGED <<m_index, io_thread>> PROVE DealInv'
    BY <1>1 DEF DealInv, Balanced, Accepted
  <1>2. CASE Accept
    <2> DEFINE n == Len(io_thread)
               next == NextIndex
    <2>1. /\ Size \in Nat /\ Size > 0 /\ m_index \in 0..Size /\ n \in Nat
          /\ next \in IOThreads /\ io_thread \in Seq(IOThreads)
      BY <1>2, SizeAssumption DEF Accept, CanAccept, NextIndex, IOThreads, DealInv
    <2>2. io_thread' = Append(io_thread, next) /\ m_index' = next
      BY <1>2 DEF Accept
    <2>3. /\ io_thread' \in Seq(IOThreads) /\ Len(io_thread') = n + 1
          /\ io_thread'[n + 1] = next
          /\ \A k \in 1..n : io_thread'[k] = io_thread[k] /\ io_thread[k] \in IOThreads
      BY <2>1, <2>2
    <2>4. \A k \in 1..n :
            /\ n - k < m_index => io_thread[k] = m_index - (n - k)
            /\ m_index <= n - k /\ n - k < Size => io_thread[k] = m_index + Size - (n - k)
      BY DEF DealInv, Accepted
    <2>5. next = IF m_index = Size THEN 1 ELSE m_index + 1
      BY DEF NextIndex
    <2>6. m_index' \in 0..Size
      BY <2>1, <2>2 DEF IOThreads
    <2>7. ASSUME NEW k \in 1..n + 1
          PROVE  /\ n + 1 - k < next => io_thread'[k] = next - (n + 1 - k)
                 /\ next <= n + 1 - k /\ n + 1 - k < Size
                      => io_thread'[k] = next + Size - (n + 1 - k)
      <3> HIDE DEF n, next
      <3>1. CASE k = n + 1
        <4>1. n + 1 - k = 0
          BY <2>1, <3>1
        <4>2. next \in 1..Size
          BY <2>1, <2>2, <2>5 DEF IOThreads
        <4>3. io_thread'[k] = next
          BY <2>3, <3>1
        <4> QED
          BY <4>1, <4>2, <4>3
      <3>2. CASE k \in 1..n
        <4>1. /\ io_thread'[k] = io_thread[k]
              /\ n - k < m_index => io_thread[k] = m_index - (n - k)
              /\ m_index <= n - k /\ n - k < Size => io_thread[k] = m_index + Size - (n - k)
          BY <2>3, <2>4, <3>2
        <4> QED
          BY <2>1, <2>5, <3>2, <4>1 DEF IOThreads
      <3> QED
        BY <2>1, <3>1, <3>2
    <2>8. ASSUME NEW j \in 1..n + 1, NEW k \in 1..n + 1, j < k, k - j < Size
          PROVE  io_thread'[j] # io_thread'[k]
      <3> HIDE DEF n, next
      <3>1. CASE k \in 1..n
        <4>1. j \in 1..n
          BY <2>1, <2>8, <3>1
        <4>2. io_thread[j] # io_thread[k]
          BY <2>8, <3>1, <4>1 DEF DealInv, Balanced, Accepted, n
        <4> QED
          BY <2>3, <3>1, <4>1, <4>2
      <3>2. CASE k = n + 1
        <4>1. j \in 1..n /\ n - j <= Size - 2
          BY <2>1, <2>8, <3>2
        <4>2. /\ io_thread'[j] = io_thread[j]
              /\ n - j < m_index => io_thread[j] = m_index - (n - j)
              /\ m_index <= n - j /\ n - j < Size => io_thread[j] = m_index + Size - (n - j)
          BY <2>3, <2>4, <4>1
        <4>3. io_thread'[k] = next
          BY <2>3, <3>2
        <4> QED
          BY <2>1, <2>5, <4>1, <4>2, <4>3
      <3> QED
        BY <2>1, <3>1, <3>2
    <2> QED
      BY <2>2, <2>3, <2>6, <2>7, <2>8 DEF DealInv, Balanced, Accepted
  <1>3. CASE ThreadsNext \/ Arrive \/ (\E c \in Connections : PeerCloses(c)) \/ UNCHANGED vars
    BY <1>1, <1>3 DEF ThreadsNext, serverVars, Arrive, PeerCloses, vars
  <1>4. CASE AcceptDies \/ Construct \/ SetState \/ Insert
    BY <1>1, <1>4 DEF AcceptDies, serverVars, Construct, SetState, Insert
  <1>5. ASSUME NEW i \in IOThreads, IONext(i) PROVE DealInv'
    BY <1>1, <1>5 DEF IONext, RunTasks, ReadEnd
  <1> QED
    BY <1>2, <1>3, <1>4, <1>5 DEF Next, OnAccept

\* Where a connection's handlers are, by how far onAccept and the peer are with
\* it: queued once, for its own thread, before they are registered, and gone for
\* good when it is closed.
ConnInv ==
  /\ program \in {"server", "threads"}
  /\ arrived \in 0..MaxClients /\ Len(io_thread) <= arrived
  /\ accepting \in {"none", "accepted", "constructed", "connected"}
  /\ accepting # "none" => Len(io_thread) > 0
  /\ pending \in [IOThreads -> Seq(Connections)]
  /\ peer_closed \subseteq Connections
  /\ m_state \in [Connections -> {"NotConnected", "Connected", "Closed"}]
  /\ m_client \subseteq Connections
  /\ registered \subseteq Accepted
  /\ \A c \in Accepted : c \in m_client \/ (c = New /\ accepting # "none")
  /\ \A i \in IOThreads : \A c \in Connections :
       Queued(i, c) => /\ c \in Accepted /\ io_thread[c] = i /\ c \notin registered
                       /\ m_state[c] # "Closed"
                       /\ ~(c = New /\ accepting = "accepted")
  /\ \A c \in Connections :
       m_state[c] # "NotConnected" =>
         c \in Accepted /\ (c = New => accepting \in {"connected", "none"})
  /\ \A c \in Connections : m_state[c] = "Closed" => c \notin registered
  /\ accepting = "accepted" => New \notin registered

LEMMA StepAccept ==
  ASSUME DealInv, ConnInv, Accept
  PROVE  ConnInv'
  <1> DEFINE n == Len(io_thread)
  <1>1. /\ n \in Nat /\ n + 1 <= arrived /\ arrived' = arrived /\ n + 1 \in Connections
        /\ accepting = "none" /\ accepting' = "accepted"
        /\ UNCHANGED <<program, pending, registered, peer_closed, m_state, m_client>>
        /\ io_thread \in Seq(IOThreads)
    BY ServerAssumption DEF Accept, CallOnAccept, ConnInv, DealInv, Connections
  <1>2. NextIndex \in IOThreads
    BY SizeAssumption DEF Accept, CanAccept, NextIndex, IOThreads, DealInv
  <1>3. io_thread' = Append(io_thread, NextIndex)
    BY DEF Accept
  <1>4. /\ Len(io_thread') = n + 1 /\ New = n /\ New' = n + 1
        /\ Accepted = 1..n /\ Accepted' = 1..n + 1
        /\ \A c \in 1..n : io_thread'[c] = io_thread[c]
    BY <1>1, <1>2, <1>3 DEF New, Accepted
  <1>5. n + 1 \notin registered /\ registered \subseteq Accepted'
    BY <1>1, <1>4 DEF ConnInv
  <1>6. \A c \in Accepted' : c \in m_client' \/ c = New'
    BY <1>1, <1>4 DEF ConnInv
  <1>7. \A i \in IOThreads : \A c \in Connections :
          Queued(i, c)' => /\ c \in Accepted' /\ io_thread'[c] = i /\ c \notin registered'
                           /\ m_state'[c] # "Closed" /\ c # New'
    BY <1>1, <1>4 DEF ConnInv, Queued
  <1>8. \A c \in Connections : m_state'[c] # "NotConnected" => c \in Accepted' /\ c # New'
    BY <1>1, <1>4 DEF ConnInv
  <1>9. \A c \in Connections : m_state'[c] = "Closed" => c \notin registered'
    BY <1>1 DEF ConnInv
  <1>10. /\ program' \in {"server", "threads"} /\ arrived' \in 0..MaxClients
         /\ Len(io_thread') <= arrived' /\ Len(io_thread') > 0
         /\ pending' \in [IOThreads -> Seq(Connections)] /\ peer_closed' \subseteq Connections
         /\ m_state' \in [Connections -> {"NotConnected", "Connected", "Closed"}]
         /\ m_client' \subseteq Connections
    BY <1>1, <1>4 DEF ConnInv
  <1> HIDE DEF n
  <1> QED
    BY <1>1, <1>4, <1>5, <1>6, <1>7, <1>8, <1>9, <1>10 DEF ConnInv

LEMMA StepConstruct ==
  ASSUME DealInv, ConnInv, Construct
  PROVE  ConnInv'
  <1> DEFINE t == io_thread[New]
  <1>1. /\ New \in Accepted /\ New \in Connections /\ t \in IOThreads
        /\ New' = New /\ Accepted' = Accepted
        /\ accepting = "accepted" /\ accepting' = "constructed"
        /\ UNCHANGED <<program, arrived, io_thread, registered, peer_closed, m_state, m_client>>
    BY ServerAssumption DEF Construct, ConnInv, DealInv, New, Accepted, Connections
  <1>2. /\ pending' = [pending EXCEPT ![t] = Append(@, New)]
        /\ pending \in [IOThreads -> Seq(Connections)]
    BY DEF Construct, ConnInv
  <1>3. pending' \in [IOThreads -> Seq(Connections)]
    BY <1>1, <1>2
  <1>4. ASSUME NEW i \in IOThreads, NEW c \in Connections, Queued(i, c)'
        PROVE  Queued(i, c) \/ (i = t /\ c = New)
    <2>1. CASE i = t
      <3>1. pending'[i] = Append(pending[t], New) /\ pending[t] \in Seq(Connections)
        BY <1>1, <1>2, <2>1
      <3>2. PICK k \in DOMAIN pending'[i] : pending'[i][k] = c
        BY <1>4 DEF Queued
      <3> HIDE DEF t
      <3>3. k \in 1..Len(pending[t]) \/ k = Len(pending[t]) + 1
        BY <3>1, <3>2
      <3> QED
        BY <2>1, <3>1, <3>2, <3>3 DEF Queued
    <2>2. CASE i # t
      BY <1>1, <1>2, <1>4, <2>2 DEF Queued
    <2> QED
      BY <2>1, <2>2
  <1>5. m_state[New] # "Closed" /\ New \notin registered
    BY <1>1 DEF ConnInv
  <1>6. \A i \in IOThreads : \A c \in Connections :
          Queued(i, c)' => /\ c \in Accepted' /\ io_thread'[c] = i /\ c \notin registered'
                           /\ m_state'[c] # "Closed"
    BY <1>1, <1>4, <1>5 DEF ConnInv
  <1> QED
    BY <1>1, <1>3, <1>6 DEF ConnInv

LEMMA StepSetState ==
  ASSUME ConnInv, SetState
  PROVE  ConnInv'
  <1>1. /\ New \in Accepted /\ New \in Connections
        /\ New' = New /\ Accepted' = Accepted
        /\ accepting = "constructed" /\ accepting' = "connected"
        /\ UNCHANGED <<program, arrived, io_thread, registered, pending, peer_closed, m_client>>
    BY ServerAssumption DEF SetState, ConnInv, New, Accepted, Connections
  <1>2. /\ m_state' \in [Connections -> {"NotConnected", "Connected", "Closed"}]
        /\ m_state'[New] = "Connected"
        /\ \A c \in Connections : c # New => m_state'[c] = m_state[c]
    BY <1>1 DEF SetState, ConnInv
  <1>3. \A i \in IOThreads : \A c \in Connections :
          Queued(i, c)' => /\ c \in Accepted' /\ io_thread'[c] = i /\ c \notin registered'
                           /\ m_state'[c] # "Closed"
    BY <1>1, <1>2 DEF ConnInv, Queued
  <1> QED
    BY <1>1, <1>2, <1>3 DEF ConnInv

LEMMA StepInsert ==
  ASSUME ConnInv, Insert
  PROVE  ConnInv'
  <1>1. /\ New \in Accepted /\ New \in Connections
        /\ New' = New /\ Accepted' = Accepted
        /\ accepting = "connected" /\ accepting' = "none"
        /\ m_client' = m_client \cup {New}
        /\ UNCHANGED <<program, arrived, io_thread, registered, pending, peer_closed, m_state>>
    BY ServerAssumption DEF Insert, ConnInv, New, Accepted, Connections
  <1>2. \A i \in IOThreads : \A c \in Connections : Queued(i, c)' <=> Queued(i, c)
    BY <1>1 DEF Queued
  <1> QED
    BY <1>1, <1>2 DEF ConnInv

LEMMA StepRunTasks ==
  ASSUME ConnInv, NEW t \in IOThreads, RunTasks(t)
  PROVE  ConnInv'
  <1>1. /\ New' = New /\ Accepted' = Accepted
        /\ pending \in [IOThreads -> Seq(Connections)]
        /\ pending' = [pending EXCEPT ![t] = <<>>]
        /\ UNCHANGED <<program, arrived, io_thread, accepting, peer_closed, m_state, m_client>>
    BY DEF RunTasks, ConnInv, New, Accepted
  <1>2. \A c \in Connections : c \in registered' <=> c \in registered \/ Queued(t, c)
    BY DEF RunTasks, Queued
  <1>3. registered' \subseteq Connections
    <2>1. \A k \in DOMAIN pending[t] : pending[t][k] \in Connections
      BY <1>1
    <2>2. registered \subseteq Connections
      BY ServerAssumption DEF ConnInv, Accepted, Connections
    <2> QED
      BY <2>1, <2>2 DEF RunTasks
  <1>4. pending' \in [IOThreads -> Seq(Connections)]
    BY <1>1
  <1>5. ASSUME NEW i \in IOThreads, NEW c \in Connections, Queued(i, c)'
        PROVE  Queued(i, c) /\ i # t
    BY <1>1, <1>5 DEF Queued
  <1>6. registered' \subseteq Accepted
    BY <1>2, <1>3 DEF ConnInv
  <1>7. \A c \in Connections : m_state[c] = "Closed" => c \notin registered'
    BY <1>2 DEF ConnInv
  <1>8. accepting = "accepted" => New \notin registered'
    BY <1>2, <1>3 DEF ConnInv
  <1>9. \A i \in IOThreads : \A c \in Connections :
          Queued(i, c)' => /\ c \in Accepted /\ io_thread[c] = i /\ c \notin registered'
                           /\ m_state[c] # "Closed" /\ ~(c = New /\ accepting = "accepted")
    BY <1>2, <1>5 DEF ConnInv
  <1> QED
    BY <1>1, <1>4, <1>6, <1>7, <1>8, <1>9 DEF ConnInv

LEMMA StepReadEnd ==
  ASSUME ConnInv, NEW d, ReadEnd(d)
  PROVE  ConnInv'
  <1>1. /\ New' = New /\ Accepted' = Accepted /\ d \in registered /\ d \in Connections
        /\ m_state[d] = "Connected"
        /\ registered' = registered \ {d}
        /\ UNCHANGED <<program, arrived, io_thread, accepting, pending, peer_closed, m_client>>
    BY ServerAssumption DEF ReadEnd, ConnInv, New, Accepted, Connections
  <1>2. /\ m_state' \in [Connections -> {"NotConnected", "Connected", "Closed"}]
        /\ m_state'[d] = "Closed"
        /\ \A c \in Connections : c # d => m_state'[c] = m_state[c]
    BY <1>1 DEF ReadEnd, ConnInv
  <1>3. \A i \in IOThreads : \A c \in Connections : Queued(i, c)' <=> Queued(i, c)
    BY <1>1 DEF Queued
  <1>4. \A i \in IOThreads : ~Queued(i, d)
    BY <1>1 DEF ConnInv
  <1> QED
    BY <1>1, <1>2, <1>3, <1>4 DEF ConnInv

LEMMA StepConn ==
  ASSUME DealInv, ConnInv, [Next]_vars
  PROVE  ConnInv'
  <1>1. ASSUME UNCHANGED <<program, io_thread, accepting, pending, registered, peer_closed,
                           m_state, m_client>>,
               arrived' \in 0..MaxClients, arrived' >= arrived
        PROVE  ConnInv'
    <2>1. New' = New /\ Accepted' = Accepted
      BY <1>1 DEF New, Accepted
    <2>2. \A i \in IOThreads : \A c \in Connections : Queued(i, c)' <=> Queued(i, c)
      BY <1>1 DEF Queued
    <2>3. Len(io_thread') <= arrived'
      <3>1. Len(io_thread) \in Nat /\ Len(io_thread) <= arrived /\ arrived \in Nat
        BY DEF DealInv, ConnInv
      <3> QED
        BY <1>1, <3>1
    <2> QED
      BY <1>1, <2>1, <2>2, <2>3 DEF ConnInv
  <1>2. arrived \in 0..MaxClients
    BY DEF ConnInv
  <1>3. CASE ThreadsNext \/ AcceptDies \/ UNCHANGED vars
    BY <1>1, <1>2, <1>3 DEF ThreadsNext, AcceptDies, serverVars, connVars, vars
  <1>4. CASE Arrive
    BY <1>1, <1>2, <1>4, ServerAssumption DEF Arrive, connVars
  <1>5. ASSUME NEW c \in Connections, PeerCloses(c) PROVE ConnInv'
    <2>1. /\ New' = New /\ Accepted' = Accepted /\ peer_closed' \subseteq Connections
          /\ UNCHANGED <<program, arrived, io_thread, accepting, pending, registered, m_state,
                         m_client>>
      BY <1>5 DEF PeerCloses, ConnInv, New, Accepted
    <2>2. \A i \in IOThreads : \A x \in Connections : Queued(i, x)' <=> Queued(i, x)
      BY <2>1 DEF Queued
    <2> QED
      BY <2>1, <2>2 DEF ConnInv
  <1>6. ASSUME NEW i \in IOThreads, IONext(i) PROVE ConnInv'
    BY <1>6, StepRunTasks, StepReadEnd DEF IONext
  <1> QED
    BY <1>3, <1>4, <1>5, <1>6, StepAccept, StepConstruct, StepSetState, StepInsert
       DEF Next, OnAccept

-----------------------------------------------------------------------------
IInv == ThreadsInv /\ DealInv /\ ConnInv

LEMMA Invariant == Spec => []IInv
  <1>1. Init => IInv
    <2> SUFFICES ASSUME Init PROVE IInv
      OBVIOUS
    <2>1. ThreadsInv
      BY SizeAssumption
         DEF Init, ThreadsInit, ThreadsInv, ThreadsTypeOK, OwnerPoints, ThreadPoints, IOThreads
    <2>2. io_thread = <<>> /\ Accepted = {}
      BY DEF Init, Accepted
    <2>3. DealInv
      BY <2>2, SizeAssumption DEF Init, DealInv, Balanced
    <2>4. pending \in [IOThreads -> Seq(Connections)]
      BY DEF Init
    <2>5. ConnInv
      BY <2>2, <2>4, ServerAssumption DEF Init, ConnInv, Queued
    <2> QED
      BY <2>1, <2>3, <2>5 DEF IInv
  <1>2. IInv /\ [Next]_vars => IInv'
    BY StepThreads, StepDeal, StepConn DEF IInv
  <1> QED
    BY <1>1, <1>2, PTL DEF Spec

\* The variables keep their types.
THEOREM Typing == Spec => []TypeOK
  <1>1. IInv => TypeOK
    BY ServerAssumption
       DEF IInv, ThreadsInv, DealInv, ConnInv, TypeOK, Accepted, Connections
  <1> QED
    BY <1>1, Invariant, PTL

\* Nobody gets at an EventLoop before its thread has built it, however many
\* threads the group has and in whatever order they run.
THEOREM LoopsPublished == Spec => []LoopPublished
  <1>1. IInv => LoopPublished
    BY SizeAssumption
       DEF IInv, ThreadsInv, ThreadsTypeOK, ThreadPoints, LoopPublished, Constructed, IOThreads
  <1> QED
    BY <1>1, Invariant, PTL

\* The group deals connections out in turn, for any size of it.
THEOREM DealtInTurn == Spec => []Balanced
  <1>1. IInv => Balanced
    BY DEF IInv, DealInv
  <1> QED
    BY <1>1, Invariant, PTL

\* No handler and no task is left with a connection nobody holds.
THEOREM HandlersHaveConnection == Spec => []HandlersAlive
  <1>1. IInv => HandlersAlive
    BY ServerAssumption DEF IInv, ConnInv, HandlersAlive, Queued, Connections, Accepted
  <1> QED
    BY <1>1, Invariant, PTL

\* setState, the IO thread's tasks and clear() do not overtake each other.
THEOREM ClosedStaysClosed == Spec => ClosedForGood
  <1>1. ASSUME IInv, IInv', [Next]_vars, NEW c \in Connections, m_state[c] = "Closed"
        PROVE  m_state'[c] = "Closed" /\ c \notin registered'
    <2>1. m_state'[c] = "Closed"
      <3>1. CASE SetState
        BY <1>1, <3>1 DEF SetState, IInv, ConnInv
      <3>2. ASSUME NEW d, ReadEnd(d) PROVE m_state'[c] = "Closed"
        BY <1>1, <3>2 DEF ReadEnd, IInv, ConnInv
      <3>3. ASSUME UNCHANGED m_state PROVE m_state'[c] = "Closed"
        BY <1>1, <3>3
      <3>4. CASE ThreadsNext \/ Arrive \/ (\E d \in Connections : PeerCloses(d)) \/ UNCHANGED vars
        BY <3>3, <3>4 DEF ThreadsNext, serverVars, connVars, Arrive, PeerCloses, vars
      <3>5. CASE Accept \/ AcceptDies \/ Construct \/ Insert
        BY <3>3, <3>5 DEF Accept, AcceptDies, serverVars, connVars, Construct, Insert
      <3>6. ASSUME NEW i \in IOThreads, IONext(i) PROVE m_state'[c] = "Closed"
        BY <3>2, <3>3, <3>6 DEF IONext, RunTasks
      <3> QED
        BY <1>1, <3>1, <3>4, <3>5, <3>6 DEF Next, OnAccept
    <2> QED
      BY <1>1, <2>1 DEF IInv, ConnInv
  <1>2. IInv /\ IInv' /\ [Next]_vars
          => \A c \in Connections :
               m_state[c] = "Closed" => m_state'[c] = "Closed" /\ c \notin registered'
    BY <1>1
  <1> QED
    BY <1>2, Invariant, PTL DEF Spec, ClosedForGood
=============================================================================
