---------------------------- MODULE TcpConnection ----------------------------
(***************************************************************************)
(* rocket/net/tcp/tcp_connection.cc with net/coder/tinypb_coder.cc: one    *)
(* connection of the server, from the bytes a client sends to the answers  *)
(* written back.                                                           *)
(*                                                                         *)
(* The in-buffer is a TcpBuffer.  The client sends one request after the   *)
(* other, each a frame; the kernel delivers the stream in pieces of its    *)
(* own choosing.  Of a frame the model has what decode looks for,          *)
(* PB_START, the four bytes of the length and PB_END; the bytes in between *)
(* are any bytes, and decode searches them too.  (A request's fields fit   *)
(* decode's arrays: see TinyPB.)  The out-buffer is append-only here as in *)
(* the code, so it is the sequence of the answers encoded.                 *)
(***************************************************************************)
EXTENDS Integers, Sequences, FiniteSets

CONSTANTS
  InitSize,    \* size of the in-buffer
  Requests,    \* how many requests the client sends
  Stream,      \* the bytes of the requests, one request after the other
  First,       \* where in the stream each request begins, and where the last ends
  MaxWrites,   \* bound: calls of write(2)
  MaxServed,   \* bound: messages, which decode can find again and again
  Client       \* the operations a reading connection uses of its in-buffer

PB_START == 2
PB_END == 3
MaxBytes == Len(Stream)
FrameLen(k) == First[k + 1] - First[k]

\* getInt32FromNetByte: four bytes, the highest first, with a sign.
Int32(a, b, c, d) ==
  16777216 * (IF a < 128 THEN a ELSE a - 256) + 65536 * b + 256 * c + d

IsFrame(k) ==
  /\ FrameLen(k) >= 6
  /\ Stream[First[k]] = PB_START
  /\ Int32(Stream[First[k] + 1], Stream[First[k] + 2],
           Stream[First[k] + 3], Stream[First[k] + 4]) = FrameLen(k)
  /\ Stream[First[k + 1] - 1] = PB_END

ASSUME ConnectionAssumption ==
  /\ InitSize \in Nat \ {0}
  /\ MaxWrites \in Nat
  /\ MaxServed \in Nat
  /\ Client = {"receive", "moveRead"}

ASSUME StreamAssumption ==
  /\ Requests \in Nat
  /\ Stream \in Seq(0..255)
  /\ First \in [1..Requests + 1 -> Nat \ {0}]
  /\ First[Requests + 1] = Len(Stream) + 1
  /\ First[1] = 1
  /\ \A k, l \in 1..Requests + 1 : k < l => First[k] < First[l]
  /\ \A k \in 1..Requests : IsFrame(k)

VARIABLES
  m_buffer, m_read_index, m_write_index, received, consumed, zeroed, dropped,
  sent,        \* bytes of the stream that have reached the server's kernel
  peer_closed,
  m_state,
  listening,   \* handlers registered with epoll
  pc,          \* of the IO thread; "stuck" in decode, or the process "dead"
  result,      \* decode's messages: numbers of requests, 0 for a garbled one
  answers,     \* the out-buffer: the answers encoded, by request
  writes,      \* history: how much of the out-buffer each write sent
  misled,      \* history: decode has taken a frame that begins inside a request
  back         \* history: decode has moved the read index back

in_buffer == <<m_buffer, m_read_index, m_write_index, received, consumed, zeroed,
               dropped>>
decoded == <<result, misled, back>>
vars == <<in_buffer, sent, peer_closed, m_state, listening, pc, answers, writes, decoded>>

In == INSTANCE TcpBuffer WITH calls <- Client, Roles <- {Client}

Writes == [upto : Nat, whole : BOOLEAN]

TypeOK ==
  /\ In!TypeOK
  /\ sent \in 0..MaxBytes
  /\ peer_closed \in BOOLEAN
  /\ m_state \in {"NotConnected", "Connected", "Closed"}
  /\ listening \subseteq {"read", "write"}
  /\ pc \in {"idle", "reading", "decoding", "stuck", "dead"}
  /\ result \in Seq(0..Requests)
  /\ answers \in Seq(0..Requests)
  /\ writes \in Seq(Writes)
  /\ misled \in BOOLEAN
  /\ back \in BOOLEAN

Init ==
  /\ In!Init
  /\ sent = 0
  /\ peer_closed = FALSE
  /\ m_state = "NotConnected"
  /\ listening = {}
  /\ pc = "idle"
  /\ result = <<>>
  /\ answers = <<>>
  /\ writes = <<>>
  /\ misled = FALSE
  /\ back = FALSE

-----------------------------------------------------------------------------
(* TcpServer::onAccept, in the main thread.  The constructor of the        *)
(* connection has handed listenRead's epoll change to the IO thread, which *)
(* may carry it out before or after the state is set.                      *)

setState ==
  /\ m_state = "NotConnected"
  /\ m_state' = "Connected"
  /\ UNCHANGED <<in_buffer, sent, peer_closed, listening, pc, decoded, answers, writes>>

listenRead ==
  /\ "read" \notin listening
  /\ m_state # "Closed"
  /\ pc = "idle"
  /\ listening' = listening \cup {"read"}
  /\ UNCHANGED <<in_buffer, sent, peer_closed, m_state, pc, decoded, answers, writes>>

-----------------------------------------------------------------------------
(* onRead.  Before the connection is Connected it does nothing, and epoll  *)
(* reports the descriptor again.                                           *)

OnRead ==
  /\ m_state = "Connected"
  /\ \/ pc = "idle" /\ "read" \in listening
     \/ pc = "reading"

\* One read(2) takes what there is and what fits.  It may be the last one, or
\* the buffer is full and onRead goes on.  (resizeBuffer is not called: the
\* in-buffer is never full, see TcpBuffer.)
Read ==
  /\ OnRead
  /\ sent > received
  /\ LET n == IF sent - received < In!writeAble THEN sent - received ELSE In!writeAble
     IN  /\ In!moveWriteIndex(n)
         /\ pc' = IF n = In!writeAble THEN "reading" ELSE "decoding"
  /\ UNCHANGED <<sent, peer_closed, m_state, listening, decoded, answers, writes>>

\* read(2) says EAGAIN.
ReadEnds ==
  /\ pc = "reading"
  /\ sent = received
  /\ ~peer_closed
  /\ pc' = "decoding"
  /\ UNCHANGED <<in_buffer, sent, peer_closed, m_state, listening, decoded, answers,
                 writes>>

\* read(2) returns 0: clear() ends the connection, whatever was read before.
ReadCloses ==
  /\ OnRead
  /\ sent = received
  /\ peer_closed
  /\ m_state' = "Closed"
  /\ listening' = {}
  /\ pc' = "idle"
  /\ UNCHANGED <<in_buffer, sent, peer_closed, decoded, answers, writes>>

-----------------------------------------------------------------------------
(* TinyPBCoder::decode.                                                    *)

\* The byte at index i of the vector.  Before it, at -1, decode may look too: the
\* allocator keeps the high byte of the vector's size there, a zero.
Byte(i) ==
  IF i < 0 \/ i >= In!Size \/ m_buffer[i + 1] = 0 THEN 0 ELSE Stream[m_buffer[i + 1]]

PkLen(i) == Int32(Byte(i + 1), Byte(i + 2), Byte(i + 3), Byte(i + 4))

\* One byte of the length must have been received, the others need not.
Starts(i) == Byte(i) = PB_START /\ i + 1 < m_write_index

\* A frame starts at i if the byte its length points to is received and PB_END.
StartsFrame(i) ==
  /\ Starts(i)
  /\ PkLen(i) \in -i .. m_write_index - i
  /\ Byte(i + PkLen(i) - 1) = PB_END

Unread == m_read_index .. m_write_index - 1
Before(i) == m_read_index .. i - 1

\* decode stops at the first of them.
FirstFrame(i) == StartsFrame(i) /\ \A j \in Before(i) : ~StartsFrame(j)
NoFrame == \A i \in Unread : ~StartsFrame(i)

\* Which request the bytes at i are, all of them.
RequestAt(i) ==
  {k \in 1..Requests :
     /\ m_buffer[i + 1] = First[k]
     /\ i + FrameLen(k) <= m_write_index
     /\ \A q \in 0 .. FrameLen(k) - 1 : m_buffer[i + 1 + q] = First[k] + q}

\* What is no request is no message either if it is too short a frame; if it is
\* longer, its fields are whatever they are.
Messages(i) ==
  IF RequestAt(i) # {} THEN {<<k>> : k \in RequestAt(i)}
  ELSE {<<>>} \cup (IF PkLen(i) > 6 THEN {<<0>>} ELSE {})

\* moveReadIndex does not move: decode finds the same frame again, for ever.
Endless(i) == PkLen(i) = 0 \/ m_read_index + PkLen(i) < 0

Served == answers \o result

\* The first frame becomes a message, and the read index moves by its length,
\* which is less than up to its end if there were bytes before it, and backwards
\* if it is below zero.
Decode ==
  /\ pc = "decoding"
  /\ Len(Served) < MaxServed
  /\ \E i \in Unread :
       /\ FirstFrame(i)
       /\ ~Endless(i)
       /\ In!moveReadIndex(PkLen(i))
       /\ \E m \in Messages(i) : result' = result \o m
       /\ misled' = (misled \/ \A k \in 1..Requests : m_buffer[i + 1] # First[k])
       /\ back' = (back \/ PkLen(i) < 0)
  /\ UNCHANGED <<sent, peer_closed, m_state, listening, pc, answers, writes>>

DecodeLoops ==
  /\ pc = "decoding"
  /\ \E i \in Unread : FirstFrame(i) /\ Endless(i)
  /\ pc' = "stuck"
  /\ UNCHANGED <<in_buffer, sent, peer_closed, m_state, listening, answers, writes,
                 decoded>>

\* A length that points far before the vector, or wraps around.
Wild(i) == Starts(i) /\ (PkLen(i) < -i \/ PkLen(i) > 2147483647 - i)

\* decode may read there, and find no PB_END, or find one and go on for ever, or not
\* survive.  It may also copy fields that are no fields over its stack.
DecodeStrays ==
  /\ pc = "decoding"
  /\ \/ /\ \E i \in Unread : Wild(i) /\ \A j \in Before(i) : ~StartsFrame(j)
        /\ pc' \in {"stuck", "dead"}
     \/ /\ \E i \in Unread : FirstFrame(i) /\ ~Endless(i) /\ <<0>> \in Messages(i)
        /\ pc' = "dead"
  /\ UNCHANGED <<in_buffer, sent, peer_closed, m_state, listening, answers, writes,
                 decoded>>

\* Defect: the messages of the previous call are answered again.
ExcuteKeepsResult ==
  /\ pc = "decoding"
  /\ NoFrame
  /\ answers' = answers \o result
  /\ listening' = listening \cup {"write"}
  /\ pc' = "idle"
  /\ UNCHANGED <<in_buffer, sent, peer_closed, m_state, decoded, writes>>

\* Defect: only the first of the messages is answered.
ExcuteAnswersFirst ==
  /\ pc = "decoding"
  /\ NoFrame
  /\ answers' = answers \o (IF result = <<>> THEN <<>> ELSE <<Head(result)>>)
  /\ result' = <<>>
  /\ listening' = listening \cup {"write"}
  /\ pc' = "idle"
  /\ UNCHANGED <<in_buffer, sent, peer_closed, m_state, writes, misled, back>>

\* excute goes on: every message is dispatched, the answers are encoded at the
\* end of the out-buffer, and the connection listens for writability, even
\* when there is nothing new to write.
Excute ==
  /\ pc = "decoding"
  /\ NoFrame
  /\ answers' = answers \o result
  /\ result' = <<>>
  /\ listening' = listening \cup {"write"}
  /\ pc' = "idle"
  /\ UNCHANGED <<in_buffer, sent, peer_closed, m_state, writes, misled, back>>

-----------------------------------------------------------------------------
(* onWrite: its writes all start at the out-buffer's read index, which     *)
(* nothing moves.                                                          *)

OnWrite == pc = "idle" /\ "write" \in listening /\ m_state = "Connected"

\* Some writes that take less than everything.
Partly == {<<>>} \cup {<<[upto |-> n, whole |-> FALSE]>> : n \in 1..Len(answers)}

\* Defect: the connection stops listening after a partial write.
WriteOnce ==
  /\ OnWrite
  /\ \E part \in Partly :
       /\ Len(writes) + Len(part) <= MaxWrites
       /\ writes' = writes \o part
       /\ listening' = listening \ {"write"}
  /\ UNCHANGED <<in_buffer, sent, peer_closed, m_state, pc, decoded, answers>>

\* Everything goes out in the last of them, and the connection stops listening.
WriteAll ==
  /\ OnWrite
  /\ IF answers = <<>>
     THEN UNCHANGED writes
     ELSE \E part \in Partly :
            /\ Len(writes) + Len(part) < MaxWrites
            /\ writes' = writes \o part \o <<[upto |-> Len(answers), whole |-> TRUE]>>
  /\ listening' = listening \ {"write"}
  /\ UNCHANGED <<in_buffer, sent, peer_closed, m_state, pc, decoded, answers>>

\* Or the socket is full before that.
WriteAgain ==
  /\ OnWrite
  /\ \E part \in Partly \ {<<>>} :
       /\ Len(writes) + Len(part) <= MaxWrites
       /\ writes' = writes \o part
  /\ UNCHANGED <<in_buffer, sent, peer_closed, m_state, listening, pc, decoded,
                 answers>>

\* The peer is gone: any error but EAGAIN makes it write again, and SIGPIPE
\* ends the process.
WriteFails ==
  /\ OnWrite
  /\ peer_closed
  /\ answers # <<>>
  /\ pc' = "dead"
  /\ UNCHANGED <<in_buffer, sent, peer_closed, m_state, listening, decoded, answers,
                 writes>>

-----------------------------------------------------------------------------
ClientSends ==
  /\ ~peer_closed
  /\ sent' \in sent + 1 .. MaxBytes
  /\ UNCHANGED <<in_buffer, peer_closed, m_state, listening, pc, decoded, answers,
                 writes>>

PeerCloses ==
  /\ ~peer_closed
  /\ peer_closed' = TRUE
  /\ UNCHANGED <<in_buffer, sent, m_state, listening, pc, decoded, answers, writes>>

Next ==
  \/ setState \/ listenRead
  \/ Read \/ ReadEnds \/ ReadCloses
  \/ Decode \/ DecodeLoops \/ DecodeStrays \/ Excute
  \/ WriteAll \/ WriteAgain \/ WriteFails
  \/ ClientSends \/ PeerCloses

\* onAccept gets to its end, the IO thread runs its tasks and the handler of a
\* readable descriptor, and handlers return.  Unless decode goes back, each of these
\* steps happens finitely often.  The client need not send anything, and the socket
\* need not take anything.
Fairness ==
  WF_vars(\/ setState \/ listenRead \/ Read \/ ReadEnds
          \/ Decode \/ DecodeLoops \/ Excute)

Spec == Init /\ [][Next]_vars /\ Fairness

-----------------------------------------------------------------------------
\* The connection's parts agree: a handler runs only once the connection is
\* Connected, messages wait only for the end of decode, every answer was a
\* message, and no write sends what is not encoded.
ConnectionInv ==
  /\ TypeOK
  /\ received <= sent
  /\ pc \in {"reading", "decoding"} => m_state = "Connected" /\ "read" \in listening
  /\ result # <<>> => pc \in {"decoding", "stuck", "dead"}
  /\ m_state = "Closed" => listening = {} /\ peer_closed
  /\ m_state = "NotConnected" => received = 0 /\ answers = <<>>
  /\ \A i \in DOMAIN writes : writes[i].upto <= Len(answers)

\* The requests all of whose bytes have been read.
WhollyRead == {k \in 1..Requests : First[k + 1] <= received + 1}

\* Frames "make it easy to split requests" (net/rpc/readme.md:6) only until the
\* in-buffer loses bytes or decode takes bytes inside a request for a frame: till
\* then the requests are served each once, in order, however the kernel cuts up the
\* stream, and none that has been read is left behind when excute returns.
\* Afterwards a request that arrived undamaged may never be found.
ServedUntilDamaged ==
  ~zeroed /\ ~dropped /\ ~misled =>
    /\ Served = [k \in 1..Len(Served) |-> k]
    /\ pc = "idle" => WhollyRead = 1..Len(Served)

\* The bytes adjustBuffer zeroes never make decode put a message together from
\* parts of two requests where a request begins; bytes that moveWriteIndex drops
\* can, and so can a frame that begins inside a request.
MessagesAreRequests == ~dropped /\ ~misled => \A i \in DOMAIN Served : Served[i] # 0

\* Requests may be lost, garbled or served again; unless a length below zero has
\* moved the read index back, no request is served after a later one.
ServedInOrder ==
  ~back =>
    \A i, j \in DOMAIN Served : i < j /\ Served[j] # 0 => Served[i] <= Served[j]

\* A connection that listens for writability no longer has written its whole
\* out-buffer, in one piece, since the last answer was encoded.
AllWrittenWhenDone ==
  /\ m_state = "Connected" /\ pc = "idle" /\ "write" \notin listening
  /\ answers # <<>>
  => writes # <<>> /\ writes[Len(writes)] = [upto |-> Len(answers), whole |-> TRUE]

\* A request that has arrived is served, also if it came before the connection
\* was Connected or registered with epoll: unless the buffer lost bytes, decode
\* took bytes inside a request for a frame, it is stuck at a frame of length 0 or
\* below, or the process died.
RequestsServed ==
  []<>(\/ \A k \in 1..Requests :
             First[k + 1] <= sent + 1 => k \in {Served[i] : i \in DOMAIN Served}
       \/ zeroed \/ dropped \/ misled \/ pc \in {"stuck", "dead"})

\* "Call write to send all the data in OutBuffer out" (tcp_buffer.h:26): an
\* answer is sent once.
AnswersSentOnce ==
  \A a \in 1..Len(answers) :
    Cardinality({i \in DOMAIN writes : writes[i].whole /\ a <= writes[i].upto}) <= 1
=============================================================================
