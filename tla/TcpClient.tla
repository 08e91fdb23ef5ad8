----------------------------- MODULE TcpClient ------------------------------
(***************************************************************************)
(* rocket/net/tcp/tcp_client.cc with the client's side of                  *)
(* tcp_connection.cc, fd_event.cc, fd_event_group.cc and the epoll macros  *)
(* of eventloop.cc: the TcpClients that a thread has one after the other.  *)
(*                                                                         *)
(* Each new client gets the descriptor its predecessor closed, hence the   *)
(* predecessor's FdEvent and its entry in the loop's m_listen_fds.  All of *)
(* it runs in the loop's thread: a handler is one step, and between two    *)
(* the program may destroy the client.  Messages are numbers; what the     *)
(* peer answers is their number.                                           *)
(***************************************************************************)
EXTENDS Naturals, Sequences, SequencesExt

CONSTANTS
  Messages,     \* what the connect callback writes and reads
  Late,         \* a message that is written by a write callback
  MaxClients    \* bound: clients, one at a time

ASSUME ClientAssumption == MaxClients \in Nat /\ Late \notin Messages

AllMessages == Messages \cup {Late}

VARIABLES
  client, alive,      \* the number of the last client; it is not destroyed
  script,             \* what its connect callback writes and reads
  on_written,         \* what its write callbacks do
  phase,              \* of connect(): "new", "connecting", "done"
  socket, full,       \* the kernel's socket; its send buffer is full
  fd_event,           \* the FdEvent of the descriptor
  epoll,              \* m_listen_fds has the descriptor, the kernel has it
  tasks,              \* callbacks queued by the loop
  m_state, m_write_dones, m_read_dones, m_out_buffer,   \* the TcpConnection
  sent,               \* messages written to the socket, whole
  answers, peer_closed,          \* what has come from the peer
  connected, written,            \* history: times each callback ran
  left,               \* history: what destroyed clients left behind
  undefined           \* a callback of a destroyed client was called

connection == <<m_state, m_write_dones, m_read_dones, m_out_buffer>>
peer == <<sent, answers, peer_closed>>
app == <<client, alive, script, on_written>>
vars == <<app, phase, socket, full, fd_event, epoll, tasks, connection, peer,
          connected, written, left, undefined>>

\* The write calls and read calls of a connect callback; nobody sees the order
\* of a write and a read.
Scripts == [writes : {s \in SeqOf(Messages, 2) : IsInjective(s)}, reads : SUBSET Messages]
Nothing == [writes |-> <<>>, reads |-> {}]

Callback(kind) == [kind |-> kind, of |-> client]
Callbacks == [kind : {"none", "onConnect", "onRead", "onWrite"}, of : 0..MaxClients]

\* Times a callback ran: never, once, more often.
Times == 0..2
More(n) == IF n = 2 THEN 2 ELSE n + 1

TypeOK ==
  /\ client \in 0..MaxClients /\ alive \in BOOLEAN
  /\ script \in Scripts /\ on_written \in {"nothing", "read", "write"}
  /\ phase \in {"new", "connecting", "done"}
  /\ socket \in {"closed", "unconnected", "connecting", "connected", "refused"}
  /\ full \in BOOLEAN
  /\ fd_event \in [events : SUBSET {"IN", "OUT"}, read : Callbacks, write : Callbacks]
  /\ epoll \in [listed : BOOLEAN, kernel : BOOLEAN, events : SUBSET {"IN", "OUT"}]
  /\ tasks \in Seq(Callbacks)
  /\ m_state \in {"NotConnected", "Connected", "Closed"}
  /\ m_write_dones \in Seq(Messages) /\ m_read_dones \subseteq Messages
  /\ m_out_buffer \in Seq(Messages)
  /\ sent \subseteq Messages /\ answers \subseteq Messages /\ peer_closed \in BOOLEAN
  /\ connected \in Times /\ written \in [AllMessages -> Times]
  /\ left \subseteq {"task", "listening", "fd"}
  /\ undefined \in BOOLEAN

NoCalls == [m \in AllMessages |-> 0]

Init ==
  /\ client = 0 /\ alive = FALSE
  /\ script = Nothing /\ on_written = "nothing"
  /\ phase = "new"
  /\ socket = "closed" /\ full = FALSE
  /\ fd_event = [events |-> {}, read |-> Callback("none"), write |-> Callback("none")]
  /\ epoll = [listed |-> FALSE, kernel |-> FALSE, events |-> {}]
  /\ tasks = <<>>
  /\ m_state = "NotConnected"
  /\ m_write_dones = <<>> /\ m_read_dones = {} /\ m_out_buffer = <<>>
  /\ sent = {} /\ answers = {} /\ peer_closed = FALSE
  /\ connected = 0 /\ written = NoCalls
  /\ left = {} /\ undefined = FALSE

-----------------------------------------------------------------------------
(* FdEvent and the loop's registrations, as functions of what they were.   *)

\* Defect: listen keeps the callback of an earlier call.
ListenKeepsCallback(f, event, kind) ==
  [f EXCEPT !.events = @ \cup {event},
            !.read = IF event = "IN" /\ @.kind = "none" THEN Callback(kind) ELSE @,
            !.write = IF event = "OUT" /\ @.kind = "none" THEN Callback(kind) ELSE @]

\* listen sets the flag and replaces the callback, cancleListen clears the flag
\* only.
Listen(f, event, kind) ==
  [f EXCEPT !.events = @ \cup {event},
            !.read = IF event = "IN" THEN Callback(kind) ELSE @,
            !.write = IF event = "OUT" THEN Callback(kind) ELSE @]
CancleListen(f, event) == [f EXCEPT !.events = @ \ {event}]

\* ADD_TO_EPOLL: what m_listen_fds has is modified.  A descriptor the kernel has
\* dropped, because it was closed, cannot be: the error is only logged.
Added(ep, f) ==
  IF ep.listed /\ ~ep.kernel THEN ep
  ELSE [listed |-> TRUE, kernel |-> TRUE, events |-> f.events]

\* Defect: the descriptor is not taken out.
DeletedNothing(ep) == ep

\* DEL_TO_EPOLL.
Deleted(ep) == [listed |-> FALSE, kernel |-> FALSE, events |-> {}]

\* writeMessage of each of ms, and readMessage of each of rs, as the FdEvent
\* sees them.
Talked(f, ms, rs) ==
  LET g == IF ms = <<>> THEN f ELSE Listen(f, "OUT", "onWrite")
  IN  IF rs = {} THEN g ELSE Listen(g, "IN", "onRead")

-----------------------------------------------------------------------------
(* The program.                                                            *)

\* TcpClient's constructor: the socket gets the lowest free descriptor, the one
\* of the last client.  The FdEvent is as that client left it.
NewClient ==
  /\ ~alive /\ client < MaxClients
  /\ client' = client + 1 /\ alive' = TRUE
  /\ script' \in Scripts /\ on_written' \in {"nothing", "read", "write"}
  /\ phase' = "new"
  /\ socket' = "unconnected" /\ full' = FALSE
  /\ m_state' = "NotConnected"
  /\ m_write_dones' = <<>> /\ m_read_dones' = {} /\ m_out_buffer' = <<>>
  /\ sent' = {} /\ answers' = {} /\ peer_closed' = FALSE
  /\ connected' = 0 /\ written' = NoCalls
  /\ UNCHANGED <<fd_event, epoll, tasks, left, undefined>>

\* The caller's connect callback, with the registration the caller of it leaves:
\* it talks, unless connect failed and it looks at the error code.
ConnectDone(ok, ep) ==
  /\ phase' = "done"
  /\ connected' = More(connected)
  /\ \E s \in {script, IF ok THEN script ELSE Nothing} :
       /\ m_write_dones' = m_write_dones \o s.writes
       /\ m_read_dones' = m_read_dones \cup s.reads
       /\ fd_event' = Talked(fd_event, s.writes, s.reads)
       /\ epoll' = IF s = Nothing THEN ep ELSE Added(ep, fd_event')

\* connect() succeeds or fails at once, or goes on in the background: then it
\* listens for the end of that.
ConnectNow(ok) ==
  /\ socket' = IF ok THEN "connected" ELSE "unconnected"
  /\ m_state' = IF ok THEN "Connected" ELSE m_state
  /\ ConnectDone(ok, epoll)

ConnectLater ==
  /\ socket' = "connecting"
  /\ phase' = "connecting"
  /\ fd_event' = Listen(fd_event, "OUT", "onConnect")
  /\ epoll' = Added(epoll, fd_event')
  /\ UNCHANGED <<m_state, m_write_dones, m_read_dones, connected>>

Connect ==
  /\ alive /\ phase = "new"
  /\ ConnectLater \/ \E ok \in BOOLEAN : ConnectNow(ok)
  /\ UNCHANGED <<app, full, tasks, m_out_buffer, peer, written, left, undefined>>

\* ~TcpClient, between two tasks of the loop: close the descriptor, which the
\* kernel then drops from the epoll.
Destroy ==
  /\ alive /\ phase # "new"
  /\ alive' = FALSE
  /\ socket' = "closed"
  /\ epoll' = [epoll EXCEPT !.kernel = FALSE, !.events = {}]
  /\ left' = left \cup (IF tasks = <<>> THEN {} ELSE {"task"})
                  \cup (IF fd_event.events = {} THEN {} ELSE {"listening"})
                  \cup (IF epoll.listed THEN {"fd"} ELSE {})
  /\ UNCHANGED <<client, script, on_written, phase, full, fd_event, tasks, connection,
                 peer, connected, written, undefined>>

-----------------------------------------------------------------------------
(* The loop.                                                               *)

\* What the kernel reports of the descriptor.
Ready ==
  CASE socket = "refused" -> {"IN", "OUT"}
    [] socket = "unconnected" -> {"OUT"}
    [] socket = "connected" -> (IF full THEN {} ELSE {"OUT"})
                                 \cup (IF answers # {} \/ peer_closed THEN {"IN"} ELSE {})
    [] OTHER -> {}

\* Defect: a descriptor with an error is taken out, and nothing is queued.
EpollWaitDropsErrors ==
  LET reported == Ready \cap epoll.events
  IN  /\ tasks = <<>>
      /\ epoll.kernel
      /\ reported # {} \/ socket = "refused"
      /\ tasks' = IF socket = "refused" THEN <<>>
                  ELSE (IF "IN" \in reported THEN <<fd_event.read>> ELSE <<>>)
                         \o (IF "OUT" \in reported THEN <<fd_event.write>> ELSE <<>>)
      /\ epoll' = IF socket = "refused" THEN Deleted(epoll) ELSE epoll
      /\ UNCHANGED <<app, phase, socket, full, fd_event, connection, peer, connected,
                     written, left, undefined>>

\* One turn of epoll_wait queues the read callback, then the write callback,
\* and ends the registration on an error.
EpollWait ==
  LET reported == Ready \cap epoll.events
  IN  /\ tasks = <<>>
      /\ epoll.kernel
      /\ reported # {} \/ socket = "refused"
      /\ tasks' = (IF "IN" \in reported THEN <<fd_event.read>> ELSE <<>>)
                    \o (IF "OUT" \in reported THEN <<fd_event.write>> ELSE <<>>)
      /\ epoll' = IF socket = "refused" THEN Deleted(epoll) ELSE epoll
      /\ UNCHANGED <<app, phase, socket, full, fd_event, connection, peer, connected,
                     written, left, undefined>>

\* The loop runs its next task, which is of this kind and of the living client.
Runs(kind) ==
  /\ tasks # <<>>
  /\ tasks' = Tail(tasks)
  /\ alive /\ Head(tasks) = Callback(kind)

\* The client that the task was bound to is gone.
RunStale ==
  /\ tasks # <<>>
  /\ tasks' = Tail(tasks)
  /\ ~alive \/ Head(tasks).of # client
  /\ undefined' = TRUE
  /\ UNCHANGED <<app, phase, socket, full, fd_event, epoll, connection, peer, connected,
                 written, left>>

\* The callback of a background connect: connect again to learn how it went; a
\* failed socket is closed and replaced, on the same descriptor.  It stops
\* listening, by its registration only, and calls the caller's callback.
OnConnect ==
  /\ Runs("onConnect")
  /\ \E ok \in CASE socket = "connected" -> {TRUE}
                 [] socket = "refused" -> {FALSE}
                 [] OTHER -> BOOLEAN :
       /\ socket' = IF ok THEN "connected" ELSE "unconnected"
       /\ m_state' = IF ok THEN "Connected" ELSE m_state
       /\ ConnectDone(ok, Deleted(epoll))
  /\ UNCHANGED <<app, full, m_out_buffer, peer, written, left, undefined>>

\* Defect: the queue of write callbacks is not cleared.
WriteDonesKept(f, ep) ==
  LET ran    == ToSet(m_write_dones)
      reads  == IF on_written = "read" THEN ran ELSE {}
      writes == IF on_written = "write" /\ ran # {} THEN <<Late>> ELSE <<>>
  IN  /\ written' = [m \in AllMessages |->
                       IF m \in ran \cup ToSet(writes) THEN More(written[m]) ELSE written[m]]
      /\ m_read_dones' = m_read_dones \cup reads
      /\ fd_event' = Talked(f, writes, reads)
      /\ epoll' = IF reads = {} /\ writes = <<>> THEN ep ELSE Added(ep, fd_event')
      /\ UNCHANGED m_write_dones

\* The write callbacks of what was queued, each of which may read the answer of
\* its message or write another one.  That one is called too, as the loop looks
\* at the size of m_write_dones again, but clear() then drops it: nobody has
\* encoded it.
WriteDones(f, ep) ==
  LET ran    == ToSet(m_write_dones)
      reads  == IF on_written = "read" THEN ran ELSE {}
      writes == IF on_written = "write" /\ ran # {} THEN <<Late>> ELSE <<>>
  IN  /\ written' = [m \in AllMessages |->
                       IF m \in ran \cup ToSet(writes) THEN More(written[m]) ELSE written[m]]
      /\ m_write_dones' = <<>>
      /\ m_read_dones' = m_read_dones \cup reads
      /\ fd_event' = Talked(f, writes, reads)
      /\ epoll' = IF reads = {} /\ writes = <<>> THEN ep ELSE Added(ep, fd_event')

\* onWrite encodes the queued messages behind everything it has ever written,
\* and writes all of it again.
OnWriteAll ==
  /\ Runs("onWrite")
  /\ m_state = "Connected" /\ ~full
  /\ m_out_buffer' = m_out_buffer \o m_write_dones
  /\ sent' = sent \cup ToSet(m_out_buffer')
  /\ LET f == CancleListen(fd_event, "OUT") IN WriteDones(f, Added(epoll, f))
  /\ UNCHANGED <<app, phase, socket, full, m_state, answers, peer_closed, connected, left,
                 undefined>>

\* Defect: onWrite stops listening after a part.
OnWritePartCancels ==
  /\ Runs("onWrite")
  /\ m_state = "Connected"
  /\ m_out_buffer' = m_out_buffer \o m_write_dones
  /\ m_out_buffer' # <<>>
  /\ IF full THEN UNCHANGED sent
     ELSE \E n \in 0..Len(m_out_buffer') - 1 :
            sent' = sent \cup ToSet(SubSeq(m_out_buffer', 1, n))
  /\ full' = TRUE
  /\ LET f == CancleListen(fd_event, "OUT") IN WriteDones(f, Added(epoll, f))
  /\ UNCHANGED <<app, phase, socket, m_state, answers, peer_closed, connected, left,
                 undefined>>

\* The socket takes a part, then nothing more: onWrite stays registered, and the
\* write callbacks run all the same.
OnWritePart ==
  /\ Runs("onWrite")
  /\ m_state = "Connected"
  /\ m_out_buffer' = m_out_buffer \o m_write_dones
  /\ m_out_buffer' # <<>>
  /\ IF full THEN UNCHANGED sent
     ELSE \E n \in 0..Len(m_out_buffer') - 1 :
            sent' = sent \cup ToSet(SubSeq(m_out_buffer', 1, n))
  /\ full' = TRUE
  /\ WriteDones(fd_event, epoll)
  /\ UNCHANGED <<app, phase, socket, m_state, answers, peer_closed, connected, left,
                 undefined>>

\* Neither onWrite nor onRead does anything on a connection that is not
\* connected; they stay registered.
OnWriteIdle ==
  /\ Runs("onWrite")
  /\ m_state # "Connected"
  /\ UNCHANGED <<app, phase, socket, full, fd_event, epoll, connection, peer, connected,
                 written, left, undefined>>

OnReadIdle ==
  /\ Runs("onRead")
  /\ m_state # "Connected"
  /\ UNCHANGED <<app, phase, socket, full, fd_event, epoll, connection, peer, connected,
                 written, left, undefined>>

\* onRead takes the answers; what their callbacks do is the caller's business.
OnRead ==
  /\ Runs("onRead")
  /\ m_state = "Connected"
  /\ answers # {} \/ ~peer_closed
  /\ answers' = {}
  /\ UNCHANGED <<app, phase, socket, full, fd_event, epoll, connection, sent, peer_closed,
                 connected, written, left, undefined>>

\* onRead finds the end of the stream, if the answers before it exactly filled
\* the buffer without having decoded them, and calls clear().
OnReadEnd ==
  /\ Runs("onRead")
  /\ m_state = "Connected"
  /\ peer_closed
  /\ answers' = {}
  /\ fd_event' = CancleListen(CancleListen(fd_event, "IN"), "OUT")
  /\ epoll' = Deleted(epoll)
  /\ m_state' = "Closed"
  /\ UNCHANGED <<app, phase, socket, full, m_write_dones, m_read_dones, m_out_buffer,
                 sent, peer_closed, connected, written, left, undefined>>

RunTask == OnConnect \/ OnWriteAll \/ OnWritePart \/ OnWriteIdle \/ OnReadIdle
             \/ OnRead \/ OnReadEnd \/ RunStale

-----------------------------------------------------------------------------
(* The kernel and the peer.                                                *)

ConnectEnds ==
  /\ socket = "connecting"
  /\ socket' \in {"connected", "refused"}
  /\ UNCHANGED <<app, phase, full, fd_event, epoll, tasks, connection, peer, connected,
                 written, left, undefined>>

PeerReads ==
  /\ full
  /\ full' = FALSE
  /\ UNCHANGED <<app, phase, socket, fd_event, epoll, tasks, connection, peer, connected,
                 written, left, undefined>>

PeerAnswers ==
  /\ socket = "connected" /\ ~peer_closed
  /\ \E m \in sent : answers' = answers \cup {m}
  /\ UNCHANGED <<app, phase, socket, full, fd_event, epoll, tasks, connection, sent,
                 peer_closed, connected, written, left, undefined>>

PeerCloses ==
  /\ socket = "connected" /\ ~peer_closed
  /\ peer_closed' = TRUE
  /\ UNCHANGED <<app, phase, socket, full, fd_event, epoll, tasks, connection, sent,
                 answers, connected, written, left, undefined>>

Next ==
  /\ ~undefined
  /\ \/ NewClient \/ Connect \/ Destroy
     \/ EpollWait \/ RunTask
     \/ ConnectEnds \/ PeerReads \/ PeerAnswers \/ PeerCloses

\* The loop takes its turns, connection attempts end, and a peer that keeps
\* reading makes room for what is written.
Fairness ==
  /\ WF_vars(~undefined /\ EpollWait)
  /\ WF_vars(~undefined /\ RunTask)
  /\ WF_vars(~undefined /\ ConnectEnds)
  /\ WF_vars(~undefined /\ PeerReads)
  /\ SF_vars(~undefined /\ OnWriteAll)

Spec == Init /\ [][Next]_vars /\ Fairness

-----------------------------------------------------------------------------
(* Properties.                                                             *)

\* "When it has been sent, done is called" (tcp_client.h:38, tcp_client.cc:96): a write
\* callback means that its message was sent.
DoneMeansSent == \A m \in AllMessages : written[m] > 0 => m \in sent

\* What holds instead.  A write callback runs at most once for a message, which was
\* sent, or which onWrite, still registered, goes on sending; or which a write
\* callback queued: nothing sends that one.
WriteCallbacks ==
  \A m \in AllMessages :
    written[m] > 0 =>
      /\ written[m] = 1
      /\ \/ m \in sent \/ m = Late \/ m_state # "Connected"
         \/ "OUT" \in fd_event.events /\ fd_event.write = Callback("onWrite")

\* The connect callback runs once, unless it only reads: listening for the
\* answer brings the connect callback back, which is still in the FdEvent.
ConnectCallbackOnce ==
  connected > 1 => script.writes = <<>> /\ script.reads # {}

\* A callback of a destroyed client is called only if the client was destroyed
\* while a task of its was queued or its FdEvent listened: after clear() and
\* with the tasks run, it is safe.
StaleCallbacks == undefined => left \cap {"task", "listening"} # {}

\* connect() ends with its callback, unless an earlier client has left its
\* descriptor in m_listen_fds: then the registration fails, and it never ends.
ConnectSettles ==
  \A n \in 1..MaxClients :
    client = n /\ phase = "connecting"
      ~> client # n \/ phase = "done" \/ ~alive \/ undefined \/ "fd" \in left

\* What the connect callback writes on a connected connection is sent.
MessagesSent ==
  \A n \in 1..MaxClients : \A m \in Messages :
    client = n /\ m_state = "Connected" /\ m \in ToSet(m_write_dones)
      ~> client # n \/ m \in sent \/ m_state = "Closed" \/ ~alive \/ undefined \/ "fd" \in left
=============================================================================
