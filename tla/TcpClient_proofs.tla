-------------------------- MODULE TcpClient_proofs --------------------------
(* Safety of TcpClient for any number of clients and messages; and of the     *)
(* mutex of mutex.h, for any number of guards.                                *)
EXTENDS TcpClient, TLAPS

FdEvents == [events : SUBSET {"IN", "OUT"}, read : Callbacks, write : Callbacks]
Epolls == [listed : BOOLEAN, kernel : BOOLEAN, events : SUBSET {"IN", "OUT"}]

-----------------------------------------------------------------------------
\* What ToSet returns for the sequences that the connection builds.
LEMMA ToSetFacts ==
  ASSUME NEW S, NEW s \in Seq(S)
  PROVE  /\ ToSet(s) \subseteq S
         /\ ToSet(<<>>) = {}
         /\ ToSet(s) = {} <=> s = <<>>
         /\ \A n \in 0..Len(s) : ToSet(SubSeq(s, 1, n)) \subseteq ToSet(s)
  <1>1. ToSet(s) \subseteq S /\ ToSet(<<>>) = {}
    BY DEF ToSet
  <1>2. ToSet(s) = {} <=> s = <<>>
    <2>1. CASE s = <<>>
      BY <1>1, <2>1
    <2>2. CASE s # <<>>
      <3>1. 1 \in DOMAIN s
        BY <2>2
      <3>2. s[1] \in ToSet(s)
        BY <3>1 DEF ToSet
      <3> QED
        BY <2>2, <3>2
    <2> QED
      BY <2>1, <2>2
  <1>3. ASSUME NEW n \in 0..Len(s)
        PROVE  ToSet(SubSeq(s, 1, n)) \subseteq ToSet(s)
    <2>1. ASSUME NEW i \in DOMAIN SubSeq(s, 1, n)
          PROVE  SubSeq(s, 1, n)[i] \in ToSet(s)
      <3>1. i \in DOMAIN s /\ SubSeq(s, 1, n)[i] = s[i]
        OBVIOUS
      <3> QED
        BY <3>1 DEF ToSet
    <2> QED
      BY <2>1 DEF ToSet
  <1> QED
    BY <1>1, <1>2, <1>3

\* The messages of two queues, one behind the other.
LEMMA ToSetConcat ==
  ASSUME NEW S, NEW s \in Seq(S), NEW t \in Seq(S)
  PROVE  ToSet(s \o t) = ToSet(s) \cup ToSet(t)
  <1>1. ASSUME NEW i \in DOMAIN (s \o t)
        PROVE  (s \o t)[i] \in ToSet(s) \cup ToSet(t)
    BY DEF ToSet
  <1>2. ASSUME NEW i \in DOMAIN s
        PROVE  s[i] \in ToSet(s \o t)
    <2>1. i \in DOMAIN (s \o t) /\ (s \o t)[i] = s[i]
      OBVIOUS
    <2> QED
      BY <2>1 DEF ToSet
  <1>3. ASSUME NEW i \in DOMAIN t
        PROVE  t[i] \in ToSet(s \o t)
    <2>1. Len(s) + i \in DOMAIN (s \o t) /\ (s \o t)[Len(s) + i] = t[i]
      OBVIOUS
    <2> QED
      BY <2>1 DEF ToSet
  <1> QED
    BY <1>1, <1>2, <1>3 DEF ToSet

\* What the loop has left to run after its next task.
LEMMA TailFacts ==
  ASSUME NEW S, NEW s \in Seq(S), s # <<>>
  PROVE  /\ Tail(s) \in Seq(S)
         /\ Len(Tail(s)) = Len(s) - 1
         /\ Head(s) = s[1] /\ Head(s) \in S
         /\ Len(s) \in Nat \ {0}
         /\ \A i \in 1..Len(Tail(s)) : i + 1 \in 1..Len(s) /\ Tail(s)[i] = s[i + 1]
  OBVIOUS

\* Calls of writeMessage and readMessage leave the FdEvent with the union of
\* the events, and the callback of the last call for each.
LEMMA TalkedFacts ==
  ASSUME client \in 0..MaxClients,
         NEW f \in FdEvents, NEW ms, NEW rs
  PROVE  /\ Talked(f, ms, rs) \in FdEvents
         /\ f.events \subseteq Talked(f, ms, rs).events
         /\ Talked(f, ms, rs).read = IF rs = {} THEN f.read ELSE Callback("onRead")
         /\ Talked(f, ms, rs).write = IF ms = <<>> THEN f.write ELSE Callback("onWrite")
         /\ "IN" \in Talked(f, ms, rs).events <=> "IN" \in f.events \/ rs # {}
         /\ "OUT" \in Talked(f, ms, rs).events <=> "OUT" \in f.events \/ ms # <<>>
  BY DEF Talked, Listen, FdEvents, Callback, Callbacks

\* addEpollEvent and deleteEpollEvent keep the registration well-formed.
LEMMA EpollFacts ==
  ASSUME NEW ep \in Epolls, NEW f \in FdEvents
  PROVE  /\ Added(ep, f) \in Epolls /\ Deleted(ep) \in Epolls
         /\ \/ Added(ep, f) = ep /\ ~ep.kernel
            \/ Added(ep, f).kernel /\ Added(ep, f).events = f.events
         /\ ~Deleted(ep).kernel /\ Deleted(ep).events = {}
  <1>1. ep.listed \in BOOLEAN /\ ep.kernel \in BOOLEAN /\ f.events \in SUBSET {"IN", "OUT"}
    BY DEF FdEvents, Epolls
  <1>2. /\ Deleted(ep) \in Epolls /\ ~Deleted(ep).kernel /\ Deleted(ep).events = {}
    BY DEF Deleted, Epolls
  <1>3. CASE ep.listed /\ ~ep.kernel
    BY <1>2, <1>3 DEF Added
  <1>4. CASE ~(ep.listed /\ ~ep.kernel)
    <2>1. Added(ep, f) = [listed |-> TRUE, kernel |-> TRUE, events |-> f.events]
      BY <1>4 DEF Added
    <2> QED
      BY <1>1, <1>2, <2>1 DEF Epolls
  <1> QED
    BY <1>3, <1>4

\* cancleListen clears a flag and keeps the callbacks.
LEMMA CancleFacts ==
  ASSUME NEW f \in FdEvents, NEW e
  PROVE  /\ CancleListen(f, e) \in FdEvents
         /\ CancleListen(f, e).events = f.events \ {e}
         /\ CancleListen(f, e).read = f.read
         /\ CancleListen(f, e).write = f.write
  BY DEF CancleListen, FdEvents

\* What epoll_wait queues: the read callback, then the write callback.
LEMMA EpollTasks ==
  ASSUME NEW R, NEW r \in Callbacks, NEW w \in Callbacks, NEW q,
         q = (IF "IN" \in R THEN <<r>> ELSE <<>>) \o (IF "OUT" \in R THEN <<w>> ELSE <<>>)
  PROVE  /\ q \in Seq(Callbacks)
         /\ \A i \in 1..Len(q) : \/ "IN" \in R /\ q[i] = r
                                 \/ "OUT" \in R /\ q[i] = w /\ i = Len(q)
  <1>1. CASE "IN" \in R /\ "OUT" \in R
    <2>1. q = <<r>> \o <<w>>
      BY <1>1, Zenon
    <2>2. q \in Seq(Callbacks) /\ Len(q) = 2 /\ q[1] = r /\ q[2] = w
      BY <2>1
    <2>3. \A i \in 1..Len(q) : q[i] = r \/ (q[i] = w /\ i = Len(q))
      <3>1. \A i \in 1..2 : i = 1 \/ i = 2
        OBVIOUS
      <3> QED
        BY <2>2, <3>1
    <2> QED
      BY <1>1, <2>2, <2>3
  <1>2. CASE "IN" \in R /\ "OUT" \notin R
    <2>1. q = <<r>>
      BY <1>2
    <2> QED
      BY <1>2, <2>1
  <1>3. CASE "IN" \notin R /\ "OUT" \in R
    <2>1. q = <<w>>
      BY <1>3
    <2> QED
      BY <1>3, <2>1
  <1>4. CASE "IN" \notin R /\ "OUT" \notin R
    <2>1. q = <<>>
      BY <1>4
    <2> QED
      BY <1>4, <2>1
  <1> QED
    BY <1>1, <1>2, <1>3, <1>4

\* The messages of a connect callback are sequences of messages.
LEMMA ScriptFacts ==
  ASSUME NEW s \in Scripts
  PROVE  /\ s.writes \in Seq(Messages) /\ s.reads \in SUBSET Messages
         /\ s = Nothing <=> s.writes = <<>> /\ s.reads = {}
  <1>1. /\ s = [writes |-> s.writes, reads |-> s.reads]
        /\ s.writes \in SeqOf(Messages, 2) /\ s.reads \in SUBSET Messages
    BY DEF Scripts
  <1>2. s.writes \in Seq(Messages)
    <2>1. PICK m \in 0..2 : s.writes \in [1..m -> Messages]
      BY <1>1, Zenon DEF SeqOf
    <2> QED
      BY <2>1
  <1> QED
    BY <1>1, <1>2 DEF Nothing

\* Each handler keeps the connection, its FdEvent and the registration
\* well-formed.
LEMMA TypeStep == TypeOK /\ [Next]_vars => TypeOK'
  <1> USE ClientAssumption
  <1> SUFFICES ASSUME TypeOK, [Next]_vars PROVE TypeOK'
    OBVIOUS
  <1>t. /\ client \in 0..MaxClients /\ alive \in BOOLEAN
        /\ script \in Scripts /\ on_written \in {"nothing", "read", "write"}
        /\ fd_event \in FdEvents /\ epoll \in Epolls
        /\ m_write_dones \in Seq(Messages) /\ m_out_buffer \in Seq(Messages)
        /\ m_read_dones \in SUBSET Messages
        /\ tasks \in Seq(Callbacks)
        /\ connected \in Times /\ written \in [AllMessages -> Times]
    BY DEF TypeOK, FdEvents, Epolls
  <1>k. \A kind \in {"none", "onConnect", "onRead", "onWrite"} : Callback(kind) \in Callbacks
    BY <1>t DEF Callback, Callbacks
  <1>n. \A n \in Times : More(n) \in Times
    BY DEF Times, More
  <1>s. script.writes \in Seq(Messages) /\ script.reads \in SUBSET Messages
    BY <1>t, ScriptFacts
  \* The connection after a connect callback, and after write callbacks.
  <1>c. ASSUME NEW ok \in BOOLEAN, NEW ep \in Epolls, ConnectDone(ok, ep)
        PROVE  /\ phase' = "done" /\ connected' \in Times
               /\ m_write_dones' \in Seq(Messages) /\ m_read_dones' \in SUBSET Messages
               /\ fd_event' \in FdEvents /\ epoll' \in Epolls
    <2>1. PICK s \in {script, Nothing} :
            /\ m_write_dones' = m_write_dones \o s.writes
            /\ m_read_dones' = m_read_dones \cup s.reads
            /\ fd_event' = Talked(fd_event, s.writes, s.reads)
            /\ epoll' = IF s = Nothing THEN ep ELSE Added(ep, fd_event')
      BY <1>c, Zenon DEF ConnectDone
    <2>2. s.writes \in Seq(Messages) /\ s.reads \in SUBSET Messages
      <3>1. <<>> \in Seq(Messages)
        OBVIOUS
      <3>2. Nothing.writes \in Seq(Messages) /\ Nothing.reads \in SUBSET Messages
        BY <3>1 DEF Nothing
      <3> QED
        BY <1>s, <3>2, Zenon
    <2>3. fd_event' \in FdEvents
      BY <1>t, <2>1, TalkedFacts
    <2>4. Added(ep, fd_event') \in Epolls
      BY <2>3, EpollFacts
    <2> QED
      BY <1>c, <1>t, <1>n, <2>1, <2>2, <2>3, <2>4 DEF ConnectDone
  <1>w. ASSUME NEW f \in FdEvents, NEW ep \in Epolls, WriteDones(f, ep)
        PROVE  /\ m_write_dones' \in Seq(Messages) /\ m_read_dones' \in SUBSET Messages
               /\ fd_event' \in FdEvents /\ epoll' \in Epolls
               /\ written' \in [AllMessages -> Times]
    <2> DEFINE ran == ToSet(m_write_dones)
               reads == IF on_written = "read" THEN ran ELSE {}
               writes == IF on_written = "write" /\ ran # {} THEN <<Late>> ELSE <<>>
    <2>1. /\ written' = [m \in AllMessages |->
                           IF m \in ran \cup ToSet(writes) THEN More(written[m]) ELSE written[m]]
          /\ m_write_dones' = <<>>
          /\ m_read_dones' = m_read_dones \cup reads
          /\ fd_event' = Talked(f, writes, reads)
          /\ epoll' = IF reads = {} /\ writes = <<>> THEN ep ELSE Added(ep, fd_event')
      BY <1>w, Zenon DEF WriteDones
    <2>2. ran \subseteq Messages
      BY <1>t, ToSetFacts
    <2>3. fd_event' \in FdEvents
      BY <1>t, <2>1, TalkedFacts
    <2>4. Added(ep, fd_event') \in Epolls
      BY <2>3, EpollFacts
    <2>5. \A m \in AllMessages : written[m] \in Times /\ More(written[m]) \in Times
      BY <1>t, <1>n
    <2> HIDE DEF ran, writes
    <2>6. written' \in [AllMessages -> Times]
      BY <2>1, <2>5
    <2> QED
      BY <1>t, <2>1, <2>2, <2>3, <2>4, <2>6
  <1>q. tasks # <<>> => Tail(tasks) \in Seq(Callbacks)
    BY <1>t, TailFacts
  <1>1. CASE NewClient
    <2>1. client' \in 0..MaxClients
      BY <1>1, <1>t DEF NewClient
    <2>2. written' \in [AllMessages -> Times] /\ connected' \in Times
      BY <1>1 DEF NewClient, NoCalls, Times
    <2>3. m_write_dones' \in Seq(Messages) /\ m_out_buffer' \in Seq(Messages)
      BY <1>1 DEF NewClient
    <2> QED
      BY <1>1, <2>1, <2>2, <2>3 DEF NewClient, TypeOK
  <1>2. CASE Connect
    <2>1. CASE ConnectLater
      <3>1. fd_event' \in FdEvents
        BY <1>t, <1>k, <2>1 DEF ConnectLater, Listen, FdEvents
      <3>2. epoll' \in Epolls
        BY <1>t, <2>1, <3>1, EpollFacts DEF ConnectLater
      <3> QED
        BY <1>2, <2>1, <3>1, <3>2
        DEF Connect, ConnectLater, TypeOK, FdEvents, Epolls, app, peer
    <2>2. ASSUME NEW ok \in BOOLEAN, ConnectNow(ok) PROVE TypeOK'
      <3>1. ConnectDone(ok, epoll)
        BY <2>2 DEF ConnectNow
      <3>2. /\ phase' = "done" /\ connected' \in Times
            /\ m_write_dones' \in Seq(Messages) /\ m_read_dones' \in SUBSET Messages
            /\ fd_event' \in FdEvents /\ epoll' \in Epolls
        BY <1>t, <1>c, <3>1
      <3>3. /\ socket' \in {"connected", "unconnected"}
            /\ m_state' \in {"NotConnected", "Connected", "Closed"}
        BY <2>2 DEF ConnectNow, TypeOK
      <3> QED
        BY <1>2, <3>2, <3>3 DEF Connect, TypeOK, FdEvents, Epolls, app, peer
    <2> QED
      BY <1>2, <2>1, <2>2 DEF Connect
  <1>3. CASE Destroy
    <2>1. epoll' \in Epolls
      BY <1>3, <1>t DEF Destroy, Epolls
    <2> QED
      BY <1>3, <2>1 DEF Destroy, TypeOK, Epolls, connection, peer
  <1>4. CASE EpollWait
    <2>1. /\ fd_event.read \in Callbacks /\ fd_event.write \in Callbacks
      BY <1>t DEF FdEvents
    <2>2. tasks' = (IF "IN" \in Ready \cap epoll.events THEN <<fd_event.read>> ELSE <<>>)
                     \o (IF "OUT" \in Ready \cap epoll.events THEN <<fd_event.write>> ELSE <<>>)
      BY <1>4 DEF EpollWait
    <2>3. tasks' \in Seq(Callbacks)
      BY <2>1, <2>2, EpollTasks
    <2>4. epoll' \in Epolls
      BY <1>4, <1>t, EpollFacts DEF EpollWait
    <2> QED
      BY <1>4, <2>3, <2>4 DEF EpollWait, TypeOK, Epolls, app, connection, peer
  <1>5. CASE RunTask
    <2>1. CASE OnConnect
      <3>1. PICK ok \in BOOLEAN :
              /\ socket' = IF ok THEN "connected" ELSE "unconnected"
              /\ m_state' = IF ok THEN "Connected" ELSE m_state
              /\ ConnectDone(ok, Deleted(epoll))
        BY <2>1, Zenon DEF OnConnect
      <3>2. /\ phase' = "done" /\ connected' \in Times
            /\ m_write_dones' \in Seq(Messages) /\ m_read_dones' \in SUBSET Messages
            /\ fd_event' \in FdEvents /\ epoll' \in Epolls
        BY <1>t, <1>c, <3>1, EpollFacts
      <3> QED
        BY <1>q, <2>1, <3>1, <3>2
        DEF OnConnect, Runs, TypeOK, FdEvents, Epolls, app, peer
    <2>2. CASE OnWriteAll
      <3> DEFINE f == CancleListen(fd_event, "OUT")
      <3>1. f \in FdEvents /\ Added(epoll, f) \in Epolls
        BY <1>t, CancleFacts, EpollFacts
      <3>2. /\ m_write_dones' \in Seq(Messages) /\ m_read_dones' \in SUBSET Messages
            /\ fd_event' \in FdEvents /\ epoll' \in Epolls
            /\ written' \in [AllMessages -> Times]
        BY <1>w, <2>2, <3>1 DEF OnWriteAll
      <3>3. m_out_buffer' \in Seq(Messages) /\ m_out_buffer' = m_out_buffer \o m_write_dones
        BY <1>t, <2>2 DEF OnWriteAll
      <3>4. ToSet(m_out_buffer') \subseteq Messages
        BY <3>3, ToSetFacts
      <3> QED
        BY <1>q, <2>2, <3>2, <3>3, <3>4
        DEF OnWriteAll, Runs, TypeOK, FdEvents, Epolls, app
    <2>3. CASE OnWritePart
      <3>1. /\ m_write_dones' \in Seq(Messages) /\ m_read_dones' \in SUBSET Messages
            /\ fd_event' \in FdEvents /\ epoll' \in Epolls
            /\ written' \in [AllMessages -> Times]
        BY <1>t, <1>w, <2>3 DEF OnWritePart
      <3>2. m_out_buffer' \in Seq(Messages) /\ m_out_buffer' = m_out_buffer \o m_write_dones
        BY <1>t, <2>3 DEF OnWritePart
      <3>3. ASSUME NEW n \in 0..Len(m_out_buffer') - 1
            PROVE  ToSet(SubSeq(m_out_buffer', 1, n)) \subseteq Messages
        <4>1. n \in 0..Len(m_out_buffer')
          BY <3>2
        <4> QED
          BY <3>2, <4>1, ToSetFacts
      <3>4. sent' \subseteq Messages
        BY <2>3, <3>3 DEF OnWritePart, TypeOK
      <3> QED
        BY <1>q, <2>3, <3>1, <3>2, <3>4
        DEF OnWritePart, Runs, TypeOK, FdEvents, Epolls, app
    <2>4. CASE OnWriteIdle \/ OnReadIdle \/ RunStale
      <3>1. /\ UNCHANGED <<app, phase, socket, full, fd_event, epoll, connection, peer,
                           connected, written, left>>
            /\ tasks' \in Seq(Callbacks)
            /\ undefined' \in BOOLEAN
        BY <1>q, <2>4 DEF OnWriteIdle, OnReadIdle, RunStale, Runs, TypeOK
      <3> QED
        BY <3>1 DEF TypeOK, app, connection, peer
    <2>5. CASE OnRead
      BY <1>q, <2>5 DEF OnRead, Runs, TypeOK, app, connection
    <2>6. CASE OnReadEnd
      <3>1. fd_event' \in FdEvents /\ epoll' \in Epolls
        BY <1>t, <2>6, CancleFacts, EpollFacts DEF OnReadEnd
      <3> QED
        BY <1>q, <2>6, <3>1 DEF OnReadEnd, Runs, TypeOK, FdEvents, Epolls, app
    <2> QED
      BY <1>5, <2>1, <2>2, <2>3, <2>4, <2>5, <2>6 DEF RunTask
  <1>6. CASE ConnectEnds
    BY <1>6 DEF ConnectEnds, TypeOK, app, connection, peer
  <1>7. CASE PeerReads
    <2>1. /\ full' \in BOOLEAN
          /\ UNCHANGED <<client, alive, script, on_written, phase, socket, fd_event, epoll,
                         tasks, connection, peer, connected, written, left, undefined>>
      BY <1>7 DEF PeerReads, app
    <2> QED
      BY <2>1 DEF TypeOK, connection, peer
  <1>8. CASE PeerAnswers
    BY <1>8 DEF PeerAnswers, TypeOK, app, connection
  <1>9. CASE PeerCloses
    BY <1>9 DEF PeerCloses, TypeOK, app, connection
  <1>10. CASE UNCHANGED vars
    BY <1>10 DEF vars, TypeOK, app, connection, peer
  <1> QED
    BY <1>1, <1>2, <1>3, <1>4, <1>5, <1>6, <1>7, <1>8, <1>9, <1>10 DEF Next

\* Types: each handler of the client, and each callback it leaves behind, keeps
\* the connection, its FdEvent and the registration well-formed.
THEOREM Typing == Spec => []TypeOK
  <1> USE ClientAssumption
  <1>1. Init => TypeOK
    <2> SUFFICES ASSUME Init PROVE TypeOK
      OBVIOUS
    <2>1. Callback("none") \in Callbacks /\ client \in 0..MaxClients
      BY DEF Init, Callback, Callbacks
    <2>2. script \in Scripts
      <3>1. <<>> \in [1..0 -> Messages]
        OBVIOUS
      <3>2. <<>> \in SeqOf(Messages, 2) /\ IsInjective(<<>>)
        BY <3>1 DEF SeqOf, IsInjective
      <3> QED
        BY <3>2 DEF Init, Nothing, Scripts
    <2>3. written \in [AllMessages -> Times]
      BY DEF Init, NoCalls, Times
    <2>4. /\ fd_event \in FdEvents /\ epoll \in Epolls
      BY <2>1 DEF Init, FdEvents, Epolls
    <2>5. /\ tasks \in Seq(Callbacks)
          /\ m_write_dones \in Seq(Messages) /\ m_out_buffer \in Seq(Messages)
      BY DEF Init
    <2>6. /\ alive \in BOOLEAN /\ full \in BOOLEAN /\ peer_closed \in BOOLEAN
          /\ undefined \in BOOLEAN
          /\ on_written = "nothing" /\ phase = "new" /\ socket = "closed"
          /\ m_state = "NotConnected"
          /\ m_read_dones = {} /\ sent = {} /\ answers = {} /\ left = {}
      BY Zenon DEF Init
    <2>7. connected \in Times
      BY DEF Init, Times
    <2> QED
      BY <2>1, <2>2, <2>3, <2>4, <2>5, <2>6, <2>7 DEF TypeOK, FdEvents, Epolls
  <1> QED
    BY <1>1, TypeStep, PTL DEF Spec

-----------------------------------------------------------------------------
(* Whose callbacks the loop holds.                                          *)

\* The kernel has only what a living client registered.
Registered ==
  /\ epoll.kernel => alive
  /\ ~epoll.kernel => epoll.events = {}
  /\ epoll.events \subseteq fd_event.events

\* No callback is of a client to come, and the callbacks that connect or write
\* end a turn of the loop.
Owned ==
  /\ fd_event.read.of <= client /\ fd_event.write.of <= client
  /\ fd_event.read.kind \in {"none", "onRead"}
  /\ \A i \in 1..Len(tasks) : tasks[i].of <= client
TalksLast ==
  \A i \in 1..Len(tasks) : tasks[i].kind \in {"onConnect", "onWrite"} => i = Len(tasks)

\* A client that has not called connect() has no callback anywhere.
Fresh ==
  phase = "new" /\ alive =>
    /\ fd_event.read.of < client /\ fd_event.write.of < client
    /\ \A i \in 1..Len(tasks) : tasks[i].of < client

\* As long as every client was destroyed in time, the callbacks are of the
\* present one, and nothing outlives it.
InTime == left \cap {"task", "listening"} = {}
OwnCallbacks ==
  InTime =>
    /\ ~undefined
    /\ \A i \in 1..Len(tasks) : tasks[i].of = client
    /\ "IN" \in fd_event.events => fd_event.read.of = client
    /\ "OUT" \in fd_event.events => fd_event.write.of = client
    /\ ~alive => tasks = <<>> /\ fd_event.events = {}

OwnerInv == TypeOK /\ Registered /\ Owned /\ TalksLast /\ Fresh /\ OwnCallbacks

\* What a callback of the living client may do to the FdEvent and to the
\* registration.
Touched ==
  /\ fd_event' \in FdEvents
  /\ fd_event'.read \in {fd_event.read, Callback("onRead")}
  /\ fd_event'.write \in {fd_event.write, Callback("onWrite")}
  /\ "IN" \in fd_event'.events => "IN" \in fd_event.events \/ fd_event'.read = Callback("onRead")
  /\ "OUT" \in fd_event'.events => "OUT" \in fd_event.events \/ fd_event'.write = Callback("onWrite")
Follows ==
  /\ ~epoll'.kernel => epoll'.events = {}
  /\ epoll'.events \subseteq fd_event'.events

LEMMA FieldTypes ==
  ASSUME TypeOK
  PROVE  /\ client \in 0..MaxClients /\ client \in Nat
         /\ fd_event \in FdEvents /\ epoll \in Epolls
         /\ fd_event.read \in Callbacks /\ fd_event.write \in Callbacks
         /\ fd_event.read.of \in Nat /\ fd_event.write.of \in Nat
         /\ fd_event.events \subseteq {"IN", "OUT"}
         /\ tasks \in Seq(Callbacks) /\ Len(tasks) \in Nat
         /\ \A i \in 1..Len(tasks) : tasks[i] \in Callbacks /\ tasks[i].of \in Nat
         /\ \A kind : Callback(kind).of = client /\ Callback(kind).kind = kind
  <1>1. /\ client \in 0..MaxClients /\ client \in Nat
        /\ fd_event \in FdEvents /\ epoll \in Epolls
        /\ tasks \in Seq(Callbacks) /\ Len(tasks) \in Nat
    BY ClientAssumption DEF TypeOK, FdEvents, Epolls
  <1>2. \A c \in Callbacks : c.of \in Nat
    BY ClientAssumption DEF Callbacks
  <1>3. /\ fd_event.read \in Callbacks /\ fd_event.write \in Callbacks
        /\ fd_event.events \subseteq {"IN", "OUT"}
    BY <1>1 DEF FdEvents
  <1>4. \A i \in 1..Len(tasks) : tasks[i] \in Callbacks
    BY <1>1
  <1> QED
    BY <1>1, <1>2, <1>3, <1>4 DEF Callback

\* The connect callback touches the FdEvent only by talking.
LEMMA ConnectDoneTouches ==
  ASSUME TypeOK, NEW ok \in BOOLEAN, NEW ep \in Epolls,
         ep.events \subseteq fd_event.events, ~ep.kernel => ep.events = {},
         ConnectDone(ok, ep)
  PROVE  Touched /\ Follows /\ phase' = "done"
  <1>1. PICK s \in {script, Nothing} :
          /\ fd_event' = Talked(fd_event, s.writes, s.reads)
          /\ epoll' = IF s = Nothing THEN ep ELSE Added(ep, fd_event')
    BY Zenon DEF ConnectDone
  <1>2. client \in 0..MaxClients /\ fd_event \in FdEvents /\ epoll \in Epolls
    BY FieldTypes
  <1>3. Touched /\ fd_event.events \subseteq fd_event'.events
    BY <1>1, <1>2, TalkedFacts DEF Touched
  <1>4. CASE s = Nothing
    BY <1>1, <1>3, <1>4 DEF Follows, ConnectDone
  <1>5. CASE s # Nothing
    <2>1. epoll' = Added(ep, fd_event') /\ fd_event' \in FdEvents
      BY <1>1, <1>3, <1>5 DEF Touched
    <2>2. \/ epoll' = ep /\ ~ep.kernel
          \/ epoll'.kernel /\ epoll'.events = fd_event'.events
      BY <2>1, EpollFacts
    <2> QED
      BY <1>3, <2>2 DEF Follows, ConnectDone
  <1> QED
    BY <1>4, <1>5

\* So do the write callbacks, on what onWrite leaves.
LEMMA WriteDonesTouches ==
  ASSUME TypeOK, NEW f \in FdEvents, NEW ep \in Epolls,
         f.events \subseteq fd_event.events,
         f.read = fd_event.read, f.write = fd_event.write,
         ep.events \subseteq f.events, ~ep.kernel => ep.events = {},
         WriteDones(f, ep)
  PROVE  Touched /\ Follows
  <1>1. PICK reads, writes :
          /\ fd_event' = Talked(f, writes, reads)
          /\ epoll' = IF reads = {} /\ writes = <<>> THEN ep ELSE Added(ep, fd_event')
    BY Zenon DEF WriteDones
  <1>2. client \in 0..MaxClients /\ fd_event \in FdEvents /\ epoll \in Epolls
    BY FieldTypes
  <1>3. Touched /\ f.events \subseteq fd_event'.events
    BY <1>1, <1>2, TalkedFacts DEF Touched
  <1>4. CASE reads = {} /\ writes = <<>>
    BY <1>1, <1>3, <1>4 DEF Follows
  <1>5. CASE ~(reads = {} /\ writes = <<>>)
    <2>1. epoll' = Added(ep, fd_event') /\ fd_event' \in FdEvents
      BY <1>1, <1>3, <1>5 DEF Touched
    <2>2. \/ epoll' = ep /\ ~ep.kernel
          \/ epoll'.kernel /\ epoll'.events = fd_event'.events
      BY <2>1, EpollFacts
    <2> QED
      BY <1>3, <2>2 DEF Follows
  <1> QED
    BY <1>4, <1>5

\* A task that the loop runs is the living client's, or everything but the
\* queue stays as it was.
LEMMA RunSteps ==
  ASSUME TypeOK, Registered, RunTask
  PROVE  /\ tasks # <<>> /\ tasks' = Tail(tasks)
         /\ UNCHANGED <<client, alive, script, left>>
         /\ \/ /\ alive /\ Head(tasks).of = client
               /\ undefined' = undefined
               /\ Touched /\ Follows
               /\ phase' \in {phase, "done"}
            \/ /\ ~alive \/ Head(tasks).of # client
               /\ UNCHANGED <<phase, fd_event, epoll>>
  <1> USE DEF app
  <1>1. /\ fd_event \in FdEvents /\ epoll \in Epolls
        /\ \A kind : Callback(kind).of = client
    BY FieldTypes
  <1>2. ASSUME fd_event' = fd_event, epoll' = epoll PROVE Touched /\ Follows
    BY <1>1, <1>2 DEF Touched, Follows, Registered
  <1>3. CASE OnConnect
    <2>1. PICK ok \in BOOLEAN : ConnectDone(ok, Deleted(epoll))
      BY <1>3, Zenon DEF OnConnect
    <2>2. /\ Deleted(epoll) \in Epolls /\ Deleted(epoll).events = {}
      BY <1>1, EpollFacts
    <2>3. Touched /\ Follows /\ phase' = "done"
      BY <2>1, <2>2, ConnectDoneTouches
    <2> QED
      BY <1>1, <1>3, <2>3 DEF OnConnect, Runs
  <1>4. CASE OnWriteAll
    <2> DEFINE f == CancleListen(fd_event, "OUT")
               ep == Added(epoll, f)
    <2>1. /\ f \in FdEvents /\ f.events \subseteq fd_event.events
          /\ f.read = fd_event.read /\ f.write = fd_event.write
      BY <1>1, CancleFacts
    <2>2. /\ ep \in Epolls
          /\ \/ ep = epoll /\ ~epoll.kernel
             \/ ep.kernel /\ ep.events = f.events
      BY <1>1, <2>1, EpollFacts
    <2>3. ep.events \subseteq f.events /\ (~ep.kernel => ep.events = {})
      BY <2>2 DEF Registered
    <2>4. WriteDones(f, ep)
      BY <1>4 DEF OnWriteAll
    <2>5. Touched /\ Follows
      BY <2>1, <2>2, <2>3, <2>4, WriteDonesTouches
    <2> QED
      BY <1>1, <1>4, <2>5 DEF OnWriteAll, Runs
  <1>5. CASE OnWritePart
    <2>1. Touched /\ Follows
      BY <1>1, <1>5, WriteDonesTouches DEF OnWritePart, Registered
    <2> QED
      BY <1>1, <1>5, <2>1 DEF OnWritePart, Runs
  <1>6. CASE OnWriteIdle \/ OnReadIdle
    BY <1>1, <1>2, <1>6 DEF OnWriteIdle, OnReadIdle, Runs
  <1>7. CASE OnRead
    BY <1>1, <1>2, <1>7 DEF OnRead, Runs
  <1>8. CASE OnReadEnd
    <2> DEFINE g == CancleListen(fd_event, "IN")
    <2>1. /\ g \in FdEvents /\ g.events \subseteq fd_event.events
          /\ g.read = fd_event.read /\ g.write = fd_event.write
      BY <1>1, CancleFacts
    <2>2. fd_event' = CancleListen(g, "OUT") /\ epoll' = Deleted(epoll)
      BY <1>8 DEF OnReadEnd
    <2>3. /\ fd_event' \in FdEvents /\ fd_event'.events \subseteq g.events
          /\ fd_event'.read = g.read /\ fd_event'.write = g.write
      BY <2>1, <2>2, CancleFacts
    <2>4. Touched
      BY <2>1, <2>3 DEF Touched
    <2>5. Follows
      BY <1>1, <2>2, EpollFacts DEF Follows
    <2> QED
      BY <1>1, <1>8, <2>4, <2>5 DEF OnReadEnd, Runs
  <1>9. CASE RunStale
    BY <1>9 DEF RunStale
  <1> QED
    BY <1>3, <1>4, <1>5, <1>6, <1>7, <1>8, <1>9 DEF RunTask

\* The steps of the kernel and of the peer do not see the callbacks.
Outside == ConnectEnds \/ PeerReads \/ PeerAnswers \/ PeerCloses \/ UNCHANGED vars
LEMMA OutsideSteps ==
  ASSUME Outside
  PROVE  UNCHANGED <<app, phase, fd_event, epoll, tasks, connection, sent, connected,
                     written, left, undefined>>
  BY DEF Outside, ConnectEnds, PeerReads, PeerAnswers, PeerCloses, vars, peer

LEMMA OwnerStep == OwnerInv /\ [Next]_vars => OwnerInv'
  <1> SUFFICES ASSUME OwnerInv, [Next]_vars PROVE OwnerInv'
    OBVIOUS
  <1> USE DEF OwnerInv
  <1>t. TypeOK'
    BY TypeStep
  <1>f. /\ client \in Nat /\ fd_event \in FdEvents /\ epoll \in Epolls
        /\ fd_event.read \in Callbacks /\ fd_event.write \in Callbacks
        /\ fd_event.read.of \in Nat /\ fd_event.write.of \in Nat
        /\ fd_event.events \subseteq {"IN", "OUT"}
        /\ tasks \in Seq(Callbacks) /\ Len(tasks) \in Nat
        /\ \A i \in 1..Len(tasks) : tasks[i].of \in Nat
        /\ \A kind : Callback(kind).of = client /\ Callback(kind).kind = kind
    BY FieldTypes
  <1>p. client' \in Nat /\ fd_event' \in FdEvents
    BY <1>t, ClientAssumption DEF TypeOK, FdEvents
  <1>1. CASE NewClient
    <2>1. /\ ~alive /\ client' = client + 1 /\ alive' = TRUE /\ phase' = "new"
          /\ UNCHANGED <<fd_event, epoll, tasks, left, undefined>>
      BY <1>1 DEF NewClient
    <2>2. Registered'
      BY <2>1 DEF Registered
    <2>3. Owned' /\ TalksLast' /\ Fresh'
      BY <1>f, <2>1 DEF Owned, TalksLast, Fresh
    <2>4. OwnCallbacks'
      <3>1. InTime' = InTime
        BY <2>1 DEF InTime
      <3>2. InTime => tasks = <<>> /\ fd_event.events = {} /\ ~undefined
        BY <2>1 DEF OwnCallbacks
      <3> QED
        BY <2>1, <3>1, <3>2 DEF OwnCallbacks
    <2> QED
      BY <1>t, <2>2, <2>3, <2>4
  <1>2. CASE Connect
    <2>1. alive /\ phase = "new" /\ UNCHANGED <<client, alive, tasks, left, undefined>>
      BY <1>2 DEF Connect, app
    <2>2. /\ fd_event'.read \in {fd_event.read, Callback("onRead")}
          /\ fd_event'.write \in {fd_event.write, Callback("onWrite"), Callback("onConnect")}
          /\ "IN" \in fd_event'.events =>
               "IN" \in fd_event.events \/ fd_event'.read = Callback("onRead")
          /\ "OUT" \in fd_event'.events =>
               "OUT" \in fd_event.events \/ fd_event'.write # fd_event.write
          /\ Follows
          /\ phase' # "new"
      <3>0. fd_event.write # Callback("onWrite")
        BY <1>f, <2>1 DEF Fresh
      <3>1. CASE ConnectLater
        <4>1. fd_event' = Listen(fd_event, "OUT", "onConnect") /\ epoll' = Added(epoll, fd_event')
          BY <3>1 DEF ConnectLater
        <4>2. /\ fd_event'.read = fd_event.read /\ fd_event'.write = Callback("onConnect")
              /\ fd_event'.events = fd_event.events \cup {"OUT"}
              /\ fd_event' \in FdEvents
          BY <1>f, <1>p, <4>1 DEF Listen, FdEvents
        <4>3. \/ epoll' = epoll /\ ~epoll.kernel
              \/ epoll'.kernel /\ epoll'.events = fd_event'.events
          BY <1>f, <4>1, <4>2, EpollFacts
        <4>4. Follows
          BY <4>2, <4>3 DEF Follows, Registered
        <4>5. fd_event'.write # fd_event.write
          BY <1>f, <2>1, <4>2 DEF Fresh
        <4> QED
          BY <3>1, <4>2, <4>4, <4>5 DEF ConnectLater
      <3>2. ASSUME NEW ok \in BOOLEAN, ConnectNow(ok)
            PROVE  Touched /\ Follows /\ phase' = "done"
        BY <1>f, <3>2, ConnectDoneTouches DEF ConnectNow, Registered
      <3> QED
        BY <1>2, <3>0, <3>1, <3>2 DEF Connect, Touched
    <2>3. Registered'
      BY <2>1, <2>2 DEF Registered, Follows
    <2>4. Owned' /\ TalksLast' /\ Fresh'
      BY <1>f, <2>1, <2>2 DEF Owned, TalksLast, Fresh
    <2>5. OwnCallbacks'
      BY <1>f, <2>1, <2>2 DEF OwnCallbacks, InTime
    <2> QED
      BY <1>t, <2>3, <2>4, <2>5
  <1>3. CASE Destroy
    <2>1. /\ alive' = FALSE
          /\ epoll' = [epoll EXCEPT !.kernel = FALSE, !.events = {}]
          /\ UNCHANGED <<client, fd_event, tasks, phase, undefined>>
          /\ left \subseteq left'
          /\ tasks # <<>> => "task" \in left'
          /\ fd_event.events # {} => "listening" \in left'
      BY <1>3 DEF Destroy
    <2>2. ~epoll'.kernel /\ epoll'.events = {}
      BY <1>f, <2>1 DEF Epolls
    <2>3. Registered'
      BY <2>1, <2>2 DEF Registered
    <2>4. Owned' /\ TalksLast' /\ Fresh'
      BY <2>1 DEF Owned, TalksLast, Fresh
    <2>5. OwnCallbacks'
      BY <2>1 DEF OwnCallbacks, InTime
    <2> QED
      BY <1>t, <2>3, <2>4, <2>5
  <1>4. CASE EpollWait
    <2>1. /\ epoll.kernel /\ alive
          /\ epoll' \in {epoll, Deleted(epoll)}
          /\ UNCHANGED <<client, alive, phase, fd_event, left, undefined>>
      BY <1>4 DEF EpollWait, Registered, app
    <2>2. tasks' = (IF "IN" \in Ready \cap epoll.events THEN <<fd_event.read>> ELSE <<>>)
                     \o (IF "OUT" \in Ready \cap epoll.events THEN <<fd_event.write>> ELSE <<>>)
      BY <1>4 DEF EpollWait
    <2>3. \A i \in 1..Len(tasks') :
            \/ "IN" \in Ready \cap epoll.events /\ tasks'[i] = fd_event.read
            \/ "OUT" \in Ready \cap epoll.events /\ tasks'[i] = fd_event.write /\ i = Len(tasks')
      BY <1>f, <2>2, EpollTasks
    <2>4. Registered'
      <3>1. ~Deleted(epoll).kernel /\ Deleted(epoll).events = {}
        BY <1>f, EpollFacts
      <3> QED
        BY <2>1, <3>1 DEF Registered
    <2>5. Owned' /\ TalksLast' /\ Fresh'
      BY <1>f, <2>1, <2>3 DEF Owned, TalksLast, Fresh
    <2>6. OwnCallbacks'
      BY <1>f, <2>1, <2>3 DEF OwnCallbacks, InTime, Registered
    <2> QED
      BY <1>t, <2>4, <2>5, <2>6
  <1>5. CASE RunTask
    <2>1. /\ tasks # <<>> /\ tasks' = Tail(tasks)
          /\ UNCHANGED <<client, alive, left>>
          /\ \/ /\ alive /\ Head(tasks).of = client
                /\ undefined' = undefined
                /\ Touched /\ Follows
                /\ phase' \in {phase, "done"}
             \/ /\ ~alive \/ Head(tasks).of # client
                /\ UNCHANGED <<phase, fd_event, epoll>>
      BY <1>5, RunSteps
    <2>2. /\ Len(tasks') = Len(tasks) - 1 /\ Head(tasks) = tasks[1]
          /\ Len(tasks) \in Nat \ {0}
          /\ \A i \in 1..Len(tasks') : i + 1 \in 1..Len(tasks) /\ tasks'[i] = tasks[i + 1]
      BY <1>f, <2>1, TailFacts
    <2>3. 1 \in 1..Len(tasks)
      BY <2>2
    <2>4. Registered'
      BY <2>1 DEF Registered, Follows
    <2>5. TalksLast' /\ Owned'
      <3>1. TalksLast'
        <4> SUFFICES ASSUME NEW i \in 1..Len(tasks'),
                            tasks'[i].kind \in {"onConnect", "onWrite"}
                     PROVE  i = Len(tasks')
          BY DEF TalksLast
        <4>1. i + 1 \in 1..Len(tasks) /\ tasks'[i] = tasks[i + 1]
          BY <2>2
        <4>2. i + 1 = Len(tasks)
          BY <4>1 DEF TalksLast
        <4> QED
          BY <2>2, <4>2
      <3>2. \A i \in 1..Len(tasks') : tasks'[i].of <= client'
        BY <2>1, <2>2 DEF Owned
      <3> QED
        BY <1>f, <2>1, <3>1, <3>2 DEF Owned, Touched
    <2>6. Fresh'
      <3>1. SUFFICES ASSUME phase' = "new", alive'
                     PROVE  Fresh'
        BY DEF Fresh
      <3>2. phase = "new" /\ alive /\ Head(tasks).of # client
        BY <1>f, <2>1, <2>2, <2>3, <3>1 DEF Fresh
      <3> QED
        BY <2>1, <2>2, <3>2 DEF Fresh
    <2>7. OwnCallbacks'
      <3>1. SUFFICES ASSUME InTime PROVE OwnCallbacks'
        BY <2>1 DEF OwnCallbacks, InTime
      <3>2. alive /\ Head(tasks).of = client
        BY <2>1, <2>2, <2>3, <3>1 DEF OwnCallbacks
      <3>3. \A i \in 1..Len(tasks') : tasks'[i].of = client'
        BY <2>1, <2>2, <3>1 DEF OwnCallbacks
      <3> QED
        BY <1>f, <2>1, <3>1, <3>2, <3>3 DEF OwnCallbacks, Touched
    <2> QED
      BY <1>t, <2>4, <2>5, <2>6, <2>7
  <1>6. CASE Outside
    BY <1>t, <1>6, OutsideSteps
    DEF Registered, Owned, TalksLast, Fresh, OwnCallbacks, InTime, app
  <1> QED
    BY <1>1, <1>2, <1>3, <1>4, <1>5, <1>6 DEF Next, Outside

\* Who owns the callbacks that the loop and the FdEvent hold.
LEMMA OwnerInvariant == Spec => []OwnerInv
  <1>1. Init => Registered /\ Owned /\ TalksLast /\ Fresh /\ OwnCallbacks
    BY DEF Init, Registered, Owned, TalksLast, Fresh, OwnCallbacks, Callback
  <1>2. Init /\ TypeOK => OwnerInv
    BY <1>1 DEF OwnerInv
  <1> QED
    BY <1>2, OwnerStep, Typing, PTL DEF Spec

\* A callback of a destroyed client is called only if a task of its was queued,
\* or its FdEvent listened, when ~TcpClient ran.
THEOREM StaleNeedsLeftovers == Spec => []StaleCallbacks
  <1>1. OwnerInv => StaleCallbacks
    BY DEF OwnerInv, OwnCallbacks, InTime, StaleCallbacks
  <1> QED
    BY <1>1, OwnerInvariant, PTL

-----------------------------------------------------------------------------
(* The connect callback.                                                    *)

ReadsOnly == script.writes = <<>> /\ script.reads # {}

\* Before connect() ends nothing has been called.
NotYet == phase # "done" => connected = 0 /\ m_write_dones = <<>> /\ written = NoCalls

\* After it the connect callback is queued nowhere, and is out of the FdEvent
\* or out of the loop's reach; unless the callback only read.
Once ==
  phase = "done" /\ ~ReadsOnly =>
    /\ \A i \in 1..Len(tasks) : tasks[i] # Callback("onConnect")
    /\ \/ fd_event.write # Callback("onConnect")
       \/ tasks = <<>> /\ ~epoll.kernel

OnceInv == OwnerInv /\ NotYet /\ Once /\ ConnectCallbackOnce

\* The loop's next task is the last of the turn when it connects or writes.
LEMMA TalkEndsTurn ==
  ASSUME TypeOK, TalksLast, NEW kind \in {"onConnect", "onWrite"}, Runs(kind)
  PROVE  tasks' = <<>> /\ tasks[1] = Callback(kind) /\ 1 \in 1..Len(tasks)
  <1>1. /\ tasks # <<>> /\ tasks' = Tail(tasks) /\ Head(tasks) = Callback(kind)
        /\ tasks \in Seq(Callbacks) /\ Callback(kind).kind = kind
    BY FieldTypes DEF Runs
  <1>2. Head(tasks) = tasks[1] /\ Len(tasks) \in Nat \ {0}
    BY <1>1
  <1>3. 1 \in 1..Len(tasks) /\ tasks[1].kind \in {"onConnect", "onWrite"}
    BY <1>1, <1>2
  <1>4. Len(tasks) = 1
    BY <1>3 DEF TalksLast
  <1>5. Tail(tasks) \in Seq(Callbacks) /\ Len(Tail(tasks)) = 0
    BY <1>1, <1>4
  <1> QED
    BY <1>1, <1>2, <1>3, <1>5

\* With no write callback queued, calling them changes nothing.
LEMMA EmptyWriteDones ==
  ASSUME TypeOK, NEW f \in FdEvents, NEW ep, m_write_dones = <<>>, WriteDones(f, ep)
  PROVE  written' = written /\ m_write_dones' = <<>>
  <1>1. ToSet(m_write_dones) = {} /\ ToSet(<<>>) = {}
    BY DEF ToSet
  <1>2. /\ written' = [m \in AllMessages |-> written[m]]
        /\ m_write_dones' = <<>>
    BY <1>1 DEF WriteDones
  <1>3. written \in [AllMessages -> Times]
    BY DEF TypeOK
  <1> QED
    BY <1>2, <1>3

\* The background connect ends once; or its callback comes back to a connect
\* callback that only reads.
LEMMA OnConnectFacts ==
  ASSUME OwnerInv, Once, Runs("onConnect")
  PROVE  /\ tasks' = <<>>
         /\ phase = "connecting" \/ (phase = "done" /\ ReadsOnly)
  <1>1. tasks' = <<>> /\ tasks[1] = Callback("onConnect") /\ 1 \in 1..Len(tasks)
    BY TalkEndsTurn DEF OwnerInv
  <1>2. alive /\ Callback("onConnect").of = client /\ client \in Nat
    BY FieldTypes DEF Runs, OwnerInv
  <1>3. phase # "new"
    BY <1>1, <1>2 DEF OwnerInv, Fresh
  <1>4. phase = "done" => ReadsOnly
    BY <1>1 DEF Once
  <1> QED
    BY <1>1, <1>3, <1>4 DEF OwnerInv, TypeOK

\* What a step keeps when it is not the end of connect(): nothing is called, and
\* the connect callback is not put anywhere.
LEMMA RunKeepsConnect ==
  ASSUME OwnerInv, NotYet, Once, ConnectCallbackOnce, RunTask, ~OnConnect
  PROVE  NotYet' /\ Once' /\ ConnectCallbackOnce'
  <1>f. /\ client \in Nat /\ fd_event \in FdEvents /\ epoll \in Epolls
        /\ tasks \in Seq(Callbacks)
        /\ \A kind : Callback(kind).of = client /\ Callback(kind).kind = kind
    BY FieldTypes DEF OwnerInv
  <1>1. UNCHANGED <<client, script, phase, connected>>
    BY DEF RunTask, OnWriteAll, OnWritePart, OnWriteIdle, OnReadIdle, OnRead, OnReadEnd,
           RunStale, app
  <1>2. /\ tasks # <<>> /\ tasks' = Tail(tasks)
        /\ fd_event'.write \in {fd_event.write, Callback("onWrite")}
    BY RunSteps DEF OwnerInv, Touched
  <1>3. \A i \in 1..Len(tasks') : i + 1 \in 1..Len(tasks) /\ tasks'[i] = tasks[i + 1]
    BY <1>f, <1>2, TailFacts
  <1>4. ConnectCallbackOnce'
    BY <1>1 DEF ConnectCallbackOnce
  <1>5. Once'
    <2>1. SUFFICES ASSUME phase = "done", ~ReadsOnly
                   PROVE  /\ \A i \in 1..Len(tasks') : tasks'[i] # Callback("onConnect")
                          /\ fd_event'.write # Callback("onConnect")
      BY <1>1 DEF Once, ReadsOnly, Callback
    <2>2. /\ \A i \in 1..Len(tasks) : tasks[i] # Callback("onConnect")
          /\ fd_event.write # Callback("onConnect")
      BY <1>2, <2>1 DEF Once
    <2>3. Callback("onWrite") # Callback("onConnect")
      BY <1>f
    <2> QED
      BY <1>2, <1>3, <2>2, <2>3
  <1>6. NotYet'
    <2>1. SUFFICES ASSUME m_write_dones = <<>>
                   PROVE  written' = written /\ m_write_dones' = <<>>
      BY <1>1 DEF NotYet, NoCalls
    <2>2. CancleListen(fd_event, "OUT") \in FdEvents
      BY <1>f, CancleFacts
    <2>3. CASE OnWriteAll \/ OnWritePart
      BY <1>f, <2>1, <2>2, <2>3, EmptyWriteDones DEF OnWriteAll, OnWritePart, OwnerInv
    <2>4. CASE OnWriteIdle \/ OnReadIdle \/ OnRead \/ OnReadEnd \/ RunStale
      BY <2>1, <2>4
      DEF OnWriteIdle, OnReadIdle, OnRead, OnReadEnd, RunStale, connection
    <2> QED
      BY <2>3, <2>4 DEF RunTask
  <1> QED
    BY <1>4, <1>5, <1>6

LEMMA OnceStep == OnceInv /\ [Next]_vars => OnceInv'
  <1> SUFFICES ASSUME OnceInv, [Next]_vars PROVE OnceInv'
    OBVIOUS
  <1> USE DEF OnceInv
  <1>t. TypeOK /\ OwnerInv'
    BY OwnerStep DEF OwnerInv
  <1>f. /\ client \in Nat /\ fd_event \in FdEvents /\ epoll \in Epolls
        /\ client \in 0..MaxClients
        /\ fd_event.read \in Callbacks /\ fd_event.write \in Callbacks
        /\ fd_event.write.of \in Nat
        /\ \A i \in 1..Len(tasks) : tasks[i].of \in Nat
        /\ \A kind : Callback(kind).of = client /\ Callback(kind).kind = kind
    BY <1>t, FieldTypes
  <1>1. CASE NewClient
    BY <1>t, <1>1 DEF NewClient, NotYet, Once, ConnectCallbackOnce
  <1>2. CASE Connect
    <2>1. /\ alive /\ phase = "new" /\ UNCHANGED <<client, script, tasks, written>>
          /\ connected = 0 /\ m_write_dones = <<>> /\ written = NoCalls
      BY <1>2 DEF Connect, app, NotYet
    <2>2. CASE ConnectLater
      BY <1>t, <2>1, <2>2 DEF ConnectLater, NotYet, Once, ConnectCallbackOnce, NoCalls
    <2>3. ASSUME NEW ok \in BOOLEAN, ConnectNow(ok)
          PROVE  phase' = "done" /\ connected' = 1 /\ Touched
      <3>1. phase' = "done" /\ connected' = 1
        BY <2>1, <2>3 DEF ConnectNow, ConnectDone, More
      <3>2. Touched
        BY <1>t, <1>f, <2>3, ConnectDoneTouches DEF ConnectNow, OwnerInv, Registered
      <3> QED
        BY <3>1, <3>2
    <2>4. CASE \E ok \in BOOLEAN : ConnectNow(ok)
      <3>1. phase' = "done" /\ connected' = 1
            /\ fd_event'.write \in {fd_event.write, Callback("onWrite")}
        BY <2>3, <2>4 DEF Touched
      <3>2. /\ \A i \in 1..Len(tasks) : tasks[i] # Callback("onConnect")
            /\ fd_event.write # Callback("onConnect")
            /\ Callback("onWrite") # Callback("onConnect")
        BY <1>f, <2>1 DEF OwnerInv, Fresh
      <3>3. Once'
        BY <2>1, <3>1, <3>2 DEF Once, Callback
      <3> QED
        BY <1>t, <3>1, <3>3 DEF NotYet, ConnectCallbackOnce
    <2> QED
      BY <1>2, <2>2, <2>4 DEF Connect
  <1>3. CASE Destroy
    <2>1. /\ UNCHANGED <<client, script, phase, fd_event, tasks, m_write_dones, connected, written>>
          /\ epoll' = [epoll EXCEPT !.kernel = FALSE, !.events = {}]
      BY <1>3 DEF Destroy, connection
    <2>2. ~epoll'.kernel
      BY <1>f, <2>1 DEF Epolls
    <2>3. Once'
      BY <2>1, <2>2 DEF Once, ReadsOnly, Callback
    <2> QED
      BY <1>t, <2>1, <2>3 DEF NotYet, ConnectCallbackOnce, NoCalls
  <1>4. CASE EpollWait
    <2>1. /\ epoll.kernel
          /\ UNCHANGED <<client, script, phase, fd_event, m_write_dones, connected, written>>
      BY <1>4 DEF EpollWait, app, connection
    <2>2. tasks' = (IF "IN" \in Ready \cap epoll.events THEN <<fd_event.read>> ELSE <<>>)
                     \o (IF "OUT" \in Ready \cap epoll.events THEN <<fd_event.write>> ELSE <<>>)
      BY <1>4 DEF EpollWait
    <2>3. \A i \in 1..Len(tasks') : tasks'[i] \in {fd_event.read, fd_event.write}
      BY <1>f, <2>2, EpollTasks
    <2>4. fd_event.read # Callback("onConnect")
      BY <1>f DEF OwnerInv, Owned
    <2>5. Once'
      BY <2>1, <2>3, <2>4 DEF Once, ReadsOnly, Callback
    <2> QED
      BY <1>t, <2>1, <2>5 DEF NotYet, ConnectCallbackOnce, NoCalls
  <1>5. CASE OnConnect
    <2>1. /\ tasks' = <<>>
          /\ phase = "connecting" \/ (phase = "done" /\ ReadsOnly)
      BY <1>5, OnConnectFacts DEF OnConnect
    <2>2. UNCHANGED <<client, script, written>>
      BY <1>5 DEF OnConnect, app
    <2>3. PICK ok \in BOOLEAN : ConnectDone(ok, Deleted(epoll))
      BY <1>5, Zenon DEF OnConnect
    <2>4. PICK s \in {script, Nothing} :
            /\ fd_event' = Talked(fd_event, s.writes, s.reads)
            /\ epoll' = IF s = Nothing THEN Deleted(epoll) ELSE Added(Deleted(epoll), fd_event')
      BY <2>3, Zenon DEF ConnectDone
    <2>5. phase' = "done" /\ connected' = More(connected)
      BY <2>3 DEF ConnectDone
    <2>6. ConnectCallbackOnce'
      <3>1. CASE phase = "connecting"
        <4>1. connected' = 1
          BY <2>5, <3>1 DEF NotYet, More
        <4> QED
          BY <4>1 DEF ConnectCallbackOnce
      <3>2. CASE ReadsOnly
        BY <2>2, <3>2 DEF ConnectCallbackOnce, ReadsOnly
      <3> QED
        BY <2>1, <3>1, <3>2
    <2>7. Once'
      <3>1. SUFFICES ASSUME ~ReadsOnly
                     PROVE  fd_event'.write # Callback("onConnect") \/ ~epoll'.kernel
        BY <2>1, <2>2 DEF Once, ReadsOnly, Callback
      <3>2. CASE s = Nothing
        BY <1>f, <2>4, <3>2, EpollFacts
      <3>3. CASE s # Nothing
        <4>1. s = script /\ script # Nothing
          BY <3>3
        <4>2. script \in Scripts
          BY <1>t DEF TypeOK
        <4>3. script.writes # <<>>
          BY <3>1, <4>1, <4>2, ScriptFacts DEF ReadsOnly
        <4>4. fd_event'.write = Callback("onWrite")
          BY <1>f, <2>4, <4>1, <4>3, TalkedFacts
        <4> QED
          BY <1>f, <4>4
      <3> QED
        BY <3>2, <3>3
    <2> QED
      BY <1>t, <2>5, <2>6, <2>7 DEF NotYet
  <1>6. CASE RunTask /\ ~OnConnect
    BY <1>t, <1>6, RunKeepsConnect
  <1>7. CASE Outside
    BY <1>t, <1>7, OutsideSteps
    DEF NotYet, Once, ConnectCallbackOnce, ReadsOnly, NoCalls, Callback, app, connection
  <1> QED
    BY <1>1, <1>2, <1>3, <1>4, <1>5, <1>6, <1>7 DEF Next, Outside, RunTask

LEMMA OnceInvariant == Spec => []OnceInv
  <1>1. Init => NotYet /\ Once /\ ConnectCallbackOnce
    BY DEF Init, NotYet, Once, ConnectCallbackOnce
  <1>2. Init /\ OwnerInv => OnceInv
    BY <1>1 DEF OnceInv
  <1> QED
    BY <1>2, OnceStep, OwnerInvariant, PTL DEF Spec

\* The connect callback of a client runs once, unless it only reads.
THEOREM ConnectCallbackRunsOnce == Spec => []ConnectCallbackOnce
  <1>1. OnceInv => ConnectCallbackOnce
    BY DEF OnceInv
  <1> QED
    BY <1>1, OnceInvariant, PTL

-----------------------------------------------------------------------------
(* The write callbacks.                                                     *)

Listening == "OUT" \in fd_event.events /\ fd_event.write = Callback("onWrite")

\* While write callbacks are queued, none has run; and none is ever queued for a
\* connect callback that writes nothing.
Waiting == m_write_dones # <<>> => written = NoCalls
OnlyWritten == script.writes = <<>> => m_write_dones = <<>> /\ written = NoCalls

\* onWrite is queued only while it is registered, until clear().
Pending ==
  \A i \in 1..Len(tasks) :
    tasks[i] = Callback("onWrite") => m_state # "Connected" \/ Listening

\* The out buffer keeps every message whose callback ran.
Encoded == \A m \in Messages : written[m] > 0 => m \in ToSet(m_out_buffer)

WrittenInv == OnceInv /\ Waiting /\ OnlyWritten /\ Pending /\ Encoded /\ WriteCallbacks

\* Before connect() ends, and when it ends, nothing has been written.
LEMMA NothingWritten ==
  written = NoCalls => Encoded /\ WriteCallbacks
  BY DEF NoCalls, Encoded, WriteCallbacks, AllMessages

\* The connect callback queues the first write callbacks.
LEMMA ConnectDoneWrites ==
  ASSUME TypeOK, m_write_dones = <<>>, written = NoCalls,
         NEW ok \in BOOLEAN, NEW ep, ConnectDone(ok, ep),
         UNCHANGED <<script, written>>,
         \A i \in 1..Len(tasks') : tasks'[i] # Callback("onWrite")',
         OnceInv'
  PROVE  WrittenInv'
  <1>1. PICK s \in {script, Nothing} : m_write_dones' = m_write_dones \o s.writes
    BY Zenon DEF ConnectDone
  <1>2. script.writes \in Seq(Messages)
    BY ScriptFacts DEF TypeOK
  <1>3. script.writes = <<>> => m_write_dones' = <<>>
    <2>1. Nothing.writes = <<>>
      BY DEF Nothing
    <2>2. <<>> \o <<>> = <<>>
      OBVIOUS
    <2> QED
      BY <1>1, <2>1, <2>2, Zenon
  <1>4. written' = NoCalls'
    BY DEF NoCalls
  <1>5. Encoded' /\ WriteCallbacks'
    BY <1>4 DEF NoCalls, Encoded, WriteCallbacks, AllMessages
  <1>6. Waiting' /\ OnlyWritten' /\ Pending'
    BY <1>3, <1>4 DEF Waiting, OnlyWritten, Pending
  <1> QED
    BY <1>5, <1>6 DEF WrittenInv

\* Each write callback runs for the first time, for a message that the out
\* buffer has taken, or for the late one.
LEMMA WriteDonesOnce ==
  ASSUME TypeOK, Waiting, OnlyWritten, Encoded,
         \A m \in AllMessages : written[m] > 0 => written[m] = 1,
         NEW f \in FdEvents, NEW ep, WriteDones(f, ep),
         m_out_buffer' = m_out_buffer \o m_write_dones, script' = script
  PROVE  /\ Waiting' /\ OnlyWritten' /\ Encoded'
         /\ \A m \in AllMessages : written'[m] > 0 => written'[m] = 1
         /\ f.events \subseteq fd_event'.events
         /\ fd_event'.write \in {f.write, Callback("onWrite")}
  <1> DEFINE ran == ToSet(m_write_dones)
             reads == IF on_written = "read" THEN ran ELSE {}
             writes == IF on_written = "write" /\ ran # {} THEN <<Late>> ELSE <<>>
  <1>1. /\ written' = [m \in AllMessages |->
                         IF m \in ran \cup ToSet(writes) THEN More(written[m]) ELSE written[m]]
        /\ m_write_dones' = <<>>
        /\ fd_event' = Talked(f, writes, reads)
    BY Zenon DEF WriteDones
  <1>2. /\ ran \subseteq Messages /\ ToSet(m_out_buffer') = ToSet(m_out_buffer) \cup ran
        /\ ran = {} <=> m_write_dones = <<>>
    <2>1. m_write_dones \in Seq(Messages) /\ m_out_buffer \in Seq(Messages)
      BY DEF TypeOK
    <2>2. /\ ToSet(m_write_dones) \subseteq Messages
          /\ ToSet(m_write_dones) = {} <=> m_write_dones = <<>>
      BY <2>1, ToSetFacts
    <2>3. ToSet(m_out_buffer \o m_write_dones) = ToSet(m_out_buffer) \cup ToSet(m_write_dones)
      BY <2>1, ToSetConcat
    <2> QED
      BY <2>2, <2>3
  <1>3. /\ ToSet(writes) \subseteq {Late}
        /\ ran = {} => ToSet(writes) = {}
    <2>1. ToSet(<<Late>>) = {Late} /\ ToSet(<<>>) = {}
      BY DEF ToSet
    <2> QED
      BY <2>1
  <1>4. client \in 0..MaxClients
    BY DEF TypeOK
  <1>6. written \in [AllMessages -> Times]
    BY DEF TypeOK
  <1> HIDE DEF ran, reads, writes
  <1>5. /\ f.events \subseteq fd_event'.events
        /\ fd_event'.write \in {f.write, Callback("onWrite")}
    BY <1>1, <1>4, TalkedFacts
  <1>7. CASE ran = {}
    <2>1. written' = [m \in AllMessages |-> written[m]]
      BY <1>1, <1>3, <1>7
    <2>2. written' = written
      BY <1>6, <2>1
    <2>3. m_write_dones' = m_write_dones /\ ToSet(m_out_buffer') = ToSet(m_out_buffer)
      BY <1>1, <1>2, <1>7
    <2>4. Waiting' /\ OnlyWritten' /\ Encoded'
      BY <2>2, <2>3 DEF Waiting, OnlyWritten, Encoded, NoCalls
    <2> QED
      BY <1>5, <2>2, <2>4
  <1>8. CASE ran # {}
    <2>1. m_write_dones # <<>> /\ written = NoCalls /\ script.writes # <<>>
      BY <1>2, <1>8 DEF Waiting, OnlyWritten
    <2>2. \A m \in AllMessages : written[m] = 0
      BY <2>1 DEF NoCalls
    <2>3. \A m \in AllMessages :
            written'[m] = IF m \in ran \cup ToSet(writes) THEN 1 ELSE 0
      BY <1>1, <2>2 DEF More
    <2>4. ASSUME NEW m \in Messages, written'[m] > 0
          PROVE  m \in ToSet(m_out_buffer')
      <3>1. m \in AllMessages /\ m # Late
        BY ClientAssumption DEF AllMessages
      <3>2. m \in ran \cup ToSet(writes)
        BY <2>3, <2>4, <3>1
      <3> QED
        BY <1>2, <1>3, <3>1, <3>2
    <2>5. Waiting' /\ OnlyWritten' /\ Encoded'
      BY <1>1, <2>1, <2>4 DEF Waiting, OnlyWritten, Encoded
    <2> QED
      BY <1>5, <2>3, <2>5
  <1> QED
    BY <1>7, <1>8

\* onWrite writes what its callbacks are called for, or stays registered.
LEMMA OnWriteKeeps ==
  ASSUME WrittenInv, OnceInv', OnWriteAll \/ OnWritePart
  PROVE  WrittenInv'
  <1> USE DEF WrittenInv, OnceInv, OwnerInv
  <1>1. /\ tasks' = <<>> /\ tasks[1] = Callback("onWrite") /\ 1 \in 1..Len(tasks)
    BY TalkEndsTurn DEF OnWriteAll, OnWritePart
  <1>2. Pending'
    BY <1>1 DEF Pending
  <1>3. /\ m_out_buffer' = m_out_buffer \o m_write_dones
        /\ m_state = "Connected"
        /\ UNCHANGED <<client, script, m_state>>
    BY DEF OnWriteAll, OnWritePart, app
  <1>4. \A m \in AllMessages : written[m] > 0 => written[m] = 1
    BY DEF WriteCallbacks
  <1>5. CASE OnWriteAll
    <2> DEFINE f == CancleListen(fd_event, "OUT")
    <2>1. f \in FdEvents
      BY FieldTypes, CancleFacts
    <2>2. WriteDones(f, Added(epoll, f))
      BY <1>5 DEF OnWriteAll
    <2>3. /\ Waiting' /\ OnlyWritten' /\ Encoded'
          /\ \A m \in AllMessages : written'[m] > 0 => written'[m] = 1
      BY <1>3, <1>4, <2>1, <2>2, WriteDonesOnce
    <2>4. ToSet(m_out_buffer') \subseteq sent'
      BY <1>5 DEF OnWriteAll
    <2>5. WriteCallbacks'
      BY <2>3, <2>4 DEF WriteCallbacks, Encoded, AllMessages
    <2> QED
      BY <1>2, <2>3, <2>5
  <1>6. CASE OnWritePart
    <2>1. fd_event \in FdEvents
      BY FieldTypes
    <2>2. /\ Waiting' /\ OnlyWritten' /\ Encoded'
          /\ \A m \in AllMessages : written'[m] > 0 => written'[m] = 1
          /\ fd_event.events \subseteq fd_event'.events
          /\ fd_event'.write \in {fd_event.write, Callback("onWrite")}
      BY <1>3, <1>4, <1>6, <2>1, WriteDonesOnce DEF OnWritePart
    <2>3. Listening
      BY <1>1, <1>3 DEF Pending
    <2>4. Listening'
      BY <1>3, <2>2, <2>3 DEF Listening, Callback
    <2>5. WriteCallbacks'
      BY <2>2, <2>4 DEF WriteCallbacks, Listening
    <2> QED
      BY <1>2, <2>2, <2>5
  <1> QED
    BY <1>5, <1>6

LEMMA WrittenStep == WrittenInv /\ [Next]_vars => WrittenInv'
  <1> SUFFICES ASSUME WrittenInv, [Next]_vars PROVE WrittenInv'
    OBVIOUS
  <1> USE DEF WrittenInv
  <1>t. TypeOK /\ OwnerInv /\ NotYet /\ Once /\ OnceInv'
    BY OnceStep DEF OnceInv, OwnerInv
  <1>f. /\ client \in Nat /\ fd_event \in FdEvents /\ epoll \in Epolls
        /\ fd_event.read \in Callbacks /\ fd_event.write \in Callbacks
        /\ tasks \in Seq(Callbacks)
        /\ \A i \in 1..Len(tasks) : tasks[i].of \in Nat
        /\ \A kind : Callback(kind).of = client /\ Callback(kind).kind = kind
    BY <1>t, FieldTypes
  <1>1. CASE NewClient
    <2>1. /\ client' = client + 1 /\ tasks' = tasks
          /\ m_write_dones' = <<>> /\ written' = NoCalls'
      BY <1>1 DEF NewClient, NoCalls
    <2>2. \A i \in 1..Len(tasks) : tasks[i] # Callback("onWrite")'
      BY <1>f, <1>t, <2>1 DEF OwnerInv, Owned, Callback
    <2>3. Waiting' /\ OnlyWritten' /\ Pending'
      BY <2>1, <2>2 DEF Waiting, OnlyWritten, Pending
    <2>4. Encoded' /\ WriteCallbacks'
      BY <2>1 DEF NoCalls, Encoded, WriteCallbacks, AllMessages
    <2> QED
      BY <1>t, <2>3, <2>4
  <1>2. CASE Connect
    <2>1. /\ alive /\ phase = "new" /\ UNCHANGED <<client, script, tasks, written>>
          /\ m_write_dones = <<>> /\ written = NoCalls
      BY <1>t, <1>2 DEF Connect, app, NotYet
    <2>2. \A i \in 1..Len(tasks') : tasks'[i] # Callback("onWrite")'
      BY <1>f, <1>t, <2>1 DEF OwnerInv, Fresh, Callback
    <2>3. CASE ConnectLater
      <3>1. m_write_dones' = <<>> /\ written' = NoCalls'
        BY <2>1, <2>3 DEF ConnectLater, NoCalls
      <3>2. Waiting' /\ OnlyWritten' /\ Pending'
        BY <2>2, <3>1 DEF Waiting, OnlyWritten, Pending
      <3>3. Encoded' /\ WriteCallbacks'
        BY <3>1 DEF NoCalls, Encoded, WriteCallbacks, AllMessages
      <3> QED
        BY <1>t, <3>2, <3>3
    <2>4. ASSUME NEW ok \in BOOLEAN, ConnectNow(ok) PROVE WrittenInv'
      BY <1>t, <2>1, <2>2, <2>4, ConnectDoneWrites DEF ConnectNow
    <2> QED
      BY <1>2, <2>3, <2>4 DEF Connect
  <1>3. CASE Destroy
    BY <1>t, <1>3
    DEF Destroy, connection, peer, Waiting, OnlyWritten, Pending, Listening, Encoded,
        WriteCallbacks, NoCalls, Callback
  <1>4. CASE EpollWait
    <2>1. UNCHANGED <<client, script, fd_event, connection, sent, written>>
      BY <1>4 DEF EpollWait, app, peer
    <2>2. tasks' = (IF "IN" \in Ready \cap epoll.events THEN <<fd_event.read>> ELSE <<>>)
                     \o (IF "OUT" \in Ready \cap epoll.events THEN <<fd_event.write>> ELSE <<>>)
      BY <1>4 DEF EpollWait
    <2>3. \A i \in 1..Len(tasks') :
            \/ "IN" \in Ready \cap epoll.events /\ tasks'[i] = fd_event.read
            \/ "OUT" \in Ready \cap epoll.events /\ tasks'[i] = fd_event.write /\ i = Len(tasks')
      BY <1>f, <2>2, EpollTasks
    <2>4. fd_event.read # Callback("onWrite")
      BY <1>f, <1>t DEF OwnerInv, Owned
    <2>5. ASSUME NEW i \in 1..Len(tasks'), tasks'[i] = Callback("onWrite")
          PROVE  Listening
      BY <1>t, <2>3, <2>4, <2>5 DEF Listening, OwnerInv, Registered
    <2>6. Pending'
      BY <2>1, <2>5 DEF Pending, Listening, Callback
    <2> QED
      BY <1>t, <2>1, <2>6
      DEF connection, Waiting, OnlyWritten, Encoded, WriteCallbacks, NoCalls, Callback
  <1>5. CASE OnConnect
    <2>1. /\ tasks' = <<>>
          /\ phase = "connecting" \/ (phase = "done" /\ ReadsOnly)
      BY <1>t, <1>5, OnConnectFacts DEF OnConnect
    <2>2. m_write_dones = <<>> /\ written = NoCalls
      BY <1>t, <2>1 DEF NotYet, ReadsOnly, OnlyWritten
    <2>3. PICK ok \in BOOLEAN : ConnectDone(ok, Deleted(epoll))
      BY <1>5, Zenon DEF OnConnect
    <2>4. UNCHANGED <<script, written>>
      BY <1>5 DEF OnConnect, app
    <2>5. \A i \in 1..Len(tasks') : tasks'[i] # Callback("onWrite")'
      BY <2>1
    <2> QED
      BY <1>t, <2>2, <2>3, <2>4, <2>5, ConnectDoneWrites
  <1>6. CASE OnWriteAll \/ OnWritePart
    BY <1>t, <1>6, OnWriteKeeps
  <1>7. CASE OnWriteIdle \/ OnReadIdle \/ OnRead \/ OnReadEnd \/ RunStale
    <2>1. /\ tasks # <<>> /\ tasks' = Tail(tasks)
          /\ UNCHANGED <<client, script, m_write_dones, m_out_buffer, sent, written>>
          /\ \/ UNCHANGED <<fd_event, m_state>>
             \/ m_state' = "Closed"
      BY <1>7
      DEF OnWriteIdle, OnReadIdle, OnRead, OnReadEnd, RunStale, Runs, app, connection, peer
    <2>2. \A i \in 1..Len(tasks') : i + 1 \in 1..Len(tasks) /\ tasks'[i] = tasks[i + 1]
      BY <1>f, <2>1, TailFacts
    <2>3. Pending'
      <3>1. SUFFICES ASSUME UNCHANGED <<fd_event, m_state>>,
                            NEW i \in 1..Len(tasks'), tasks'[i] = Callback("onWrite")
                     PROVE  m_state # "Connected" \/ Listening
        BY <2>1 DEF Pending, Listening, Callback
      <3>2. i + 1 \in 1..Len(tasks) /\ tasks[i + 1] = Callback("onWrite")
        BY <2>2, <3>1
      <3> QED
        BY <3>2 DEF Pending
    <2>4. Waiting' /\ OnlyWritten' /\ Encoded'
      BY <2>1 DEF Waiting, OnlyWritten, Encoded, NoCalls
    <2>5. WriteCallbacks'
      BY <2>1 DEF WriteCallbacks, Callback
    <2> QED
      BY <1>t, <2>3, <2>4, <2>5
  <1>8. CASE Outside
    <2>1. UNCHANGED <<app, fd_event, tasks, connection, sent, written>>
      BY <1>8, OutsideSteps
    <2> QED
      BY <1>t, <2>1
      DEF app, connection, Waiting, OnlyWritten, Pending, Listening, Encoded, WriteCallbacks,
          NoCalls, Callback
  <1> QED
    BY <1>1, <1>2, <1>3, <1>4, <1>5, <1>6, <1>7, <1>8 DEF Next, Outside, RunTask

\* A write callback runs at most once for a message, which was sent by then or
\* is still being sent; or was queued by a write callback.
THEOREM WrittenOnce == Spec => []WriteCallbacks
  <1>1. Init => Waiting /\ OnlyWritten /\ Pending /\ written = NoCalls
    BY DEF Init, Waiting, OnlyWritten, Pending
  <1>2. Init /\ OnceInv => WrittenInv
    BY <1>1, NothingWritten DEF WrittenInv
  <1>3. WrittenInv => WriteCallbacks
    BY DEF WrittenInv
  <1> QED
    BY <1>2, <1>3, WrittenStep, OnceInvariant, PTL DEF Spec

-----------------------------------------------------------------------------
(* The mutex under which FdEventGroup hands the client its FdEvent, and every *)
(* other one of the program: ScopeMutex, for every set of guards and every    *)
(* choice of the ones that call unlock().                                     *)

CONSTANTS Guards, Explicit
VARIABLES scope, m_is_lock, locked, stolen

Lock == INSTANCE ScopeMutex

\* Types, the span of m_is_lock, and which guards reach "released": the facts
\* about mutex.h every later proof starts from.
THEOREM ScopeInvariant == Lock!Spec => []Lock!ScopeInv
  <1> USE DEF Lock!ScopeInv, Lock!TypeOK, Lock!FlagSpansScope, Lock!ReleasedIsExplicit,
              Lock!Stages
  <1>1. Lock!Init => Lock!ScopeInv
    BY DEF Lock!Init
  <1>2. ASSUME Lock!ScopeInv, [Lock!Next]_(Lock!vars)
        PROVE  Lock!ScopeInv'
    <2>1. ASSUME NEW g \in Guards, Lock!Enter(g) PROVE Lock!ScopeInv'
      BY <1>2, <2>1 DEF Lock!Enter
    <2>2. ASSUME NEW g \in Guards, Lock!Construct(g) PROVE Lock!ScopeInv'
      BY <1>2, <2>2 DEF Lock!Construct
    <2>3. ASSUME NEW g \in Guards, Lock!Unlock(g) PROVE Lock!ScopeInv'
      BY <1>2, <2>3 DEF Lock!Unlock
    <2>4. ASSUME NEW g \in Guards, Lock!Destroy(g) PROVE Lock!ScopeInv'
      BY <1>2, <2>4 DEF Lock!Destroy
    <2>5. CASE UNCHANGED Lock!vars
      BY <1>2, <2>5 DEF Lock!vars
    <2> QED
      BY <1>2, <2>1, <2>2, <2>3, <2>4, <2>5 DEF Lock!Next
  <1> QED
    BY <1>1, <1>2, PTL DEF Lock!Spec, Lock!SafeSpec

\* The double unlock of mutex.h is the only way two threads get inside: until
\* a destructor releases a lock it does not hold, the section is exclusive.
THEOREM StolenIsTheOnlyWay == Lock!Spec => []Lock!ExclusiveUntilStolen
  <1> USE DEF Lock!ExclusiveUntilStolen, Lock!MutualExclusion, Lock!Held
  <1>1. Lock!Init => Lock!ExclusiveUntilStolen
    BY DEF Lock!Init
  <1>2. ASSUME Lock!ScopeInv, Lock!ExclusiveUntilStolen, [Lock!Next]_(Lock!vars)
        PROVE  Lock!ExclusiveUntilStolen'
    <2>0. scope \in [Guards -> Lock!Stages]
      BY <1>2 DEF Lock!ScopeInv, Lock!TypeOK
    <2>1. ASSUME NEW g \in Guards, Lock!Enter(g) PROVE Lock!ExclusiveUntilStolen'
      BY <1>2, <2>0, <2>1 DEF Lock!Enter
    <2>2. ASSUME NEW g \in Guards, Lock!Construct(g) PROVE Lock!ExclusiveUntilStolen'
      BY <1>2, <2>0, <2>2 DEF Lock!Construct
    <2>3. ASSUME NEW g \in Guards, Lock!Unlock(g) PROVE Lock!ExclusiveUntilStolen'
      BY <1>2, <2>0, <2>3 DEF Lock!Unlock
    <2>4. ASSUME NEW g \in Guards, Lock!Destroy(g) PROVE Lock!ExclusiveUntilStolen'
      BY <1>2, <2>0, <2>4 DEF Lock!Destroy
    <2>5. CASE UNCHANGED Lock!vars
      BY <1>2, <2>5 DEF Lock!vars
    <2> QED
      BY <1>2, <2>1, <2>2, <2>3, <2>4, <2>5 DEF Lock!Next
  <1> QED
    BY <1>1, <1>2, ScopeInvariant, PTL DEF Lock!Spec, Lock!SafeSpec

\* The mutex is never left locked with nobody inside, double unlocks included.
THEOREM LockAlwaysHasHolder == Lock!Spec => []Lock!LockedHasHolder
  <1> USE DEF Lock!LockedHasHolder, Lock!Held
  <1>1. Lock!Init => Lock!LockedHasHolder
    BY DEF Lock!Init
  <1>2. ASSUME Lock!ScopeInv, Lock!LockedHasHolder, [Lock!Next]_(Lock!vars)
        PROVE  Lock!LockedHasHolder'
    <2>0. /\ scope \in [Guards -> Lock!Stages]
          /\ Lock!FlagSpansScope
      BY <1>2 DEF Lock!ScopeInv, Lock!TypeOK
    <2>1. ASSUME NEW g \in Guards, Lock!Enter(g) PROVE Lock!LockedHasHolder'
      BY <1>2, <2>0, <2>1 DEF Lock!Enter
    <2>2. ASSUME NEW g \in Guards, Lock!Construct(g) PROVE Lock!LockedHasHolder'
      BY <1>2, <2>0, <2>2 DEF Lock!Construct
    <2>3. ASSUME NEW g \in Guards, Lock!Unlock(g) PROVE Lock!LockedHasHolder'
      BY <1>2, <2>0, <2>3 DEF Lock!Unlock, Lock!FlagSpansScope
    <2>4. ASSUME NEW g \in Guards, Lock!Destroy(g) PROVE Lock!LockedHasHolder'
      BY <1>2, <2>0, <2>4 DEF Lock!Destroy
    <2>5. CASE UNCHANGED Lock!vars
      BY <1>2, <2>5 DEF Lock!vars
    <2> QED
      BY <1>2, <2>1, <2>2, <2>3, <2>4, <2>5 DEF Lock!Next
  <1> QED
    BY <1>1, <1>2, ScopeInvariant, PTL DEF Lock!Spec, Lock!SafeSpec

\* A mutex whose guards never call unlock() is exclusive: FdEventGroup's is.
THEOREM ScopeOnlyIsExclusive ==
  ASSUME Explicit = {}
  PROVE  Lock!Spec => []Lock!MutualExclusion
  <1> DEFINE Never == ~stolen
  <1>1. Lock!Init => Never
    BY DEF Lock!Init
  <1>2. ASSUME Lock!ScopeInv, Never, [Lock!Next]_(Lock!vars)
        PROVE  Never'
    <2>1. ASSUME NEW g \in Guards, Lock!Destroy(g) PROVE Never'
      BY <1>2, <2>1, Explicit = {} DEF Lock!Destroy, Lock!Held
    <2>2. CASE \E g \in Guards : Lock!Enter(g) \/ Lock!Construct(g) \/ Lock!Unlock(g)
      BY <1>2, <2>2 DEF Lock!Enter, Lock!Construct, Lock!Unlock
    <2>3. CASE UNCHANGED Lock!vars
      BY <1>2, <2>3 DEF Lock!vars
    <2> QED
      BY <1>2, <2>1, <2>2, <2>3 DEF Lock!Next
  <1>3. Lock!ExclusiveUntilStolen /\ Never => Lock!MutualExclusion
    BY DEF Lock!ExclusiveUntilStolen
  <1> QED
    BY <1>1, <1>2, <1>3, ScopeInvariant, StolenIsTheOnlyWay, PTL DEF Lock!Spec, Lock!SafeSpec
=============================================================================
