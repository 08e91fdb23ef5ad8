----------------------------- MODULE RpcChannel -----------------------------
(***************************************************************************)
(* rocket/net/rpc/rpc_channel.cc and rocket/net/tcp/tcp_client.cc: one     *)
(* call over one channel, as CALLRPC makes it.                             *)
(*                                                                         *)
(* Everything here runs in one thread, whose EventLoop calls one handler   *)
(* at a time: the connect callback, onWrite, onRead and the timeout, in    *)
(* any order the kernel and the peer allow.  The connection is seen from   *)
(* above: `wire' holds the answers its decode will return.  An answer      *)
(* whose frame decode does not find, or steps over for a frame its bytes   *)
(* seem to hold (see TcpConnection), never gets there; one whose request   *)
(* was decoded twice gets there twice.                                     *)
(***************************************************************************)
EXTENDS Naturals, Sequences, RpcDispatcher, TinyPB, MsgId

CONSTANTS
  MaxAnswers,     \* bound: answers the server sends
  GivenIdLength,  \* the length of an id that the caller has set
  TextLength      \* of the error texts, and of a method's name and result

ASSUME ChannelAssumption ==
  /\ MaxAnswers \in Nat
  /\ NoDot \notin DOMAIN m_service_map
  /\ GivenIdLength \in Nat
  /\ TextLength \in [ServerErrors \cup {"method", "result"} -> Nat]

VARIABLES
  m_is_init,            \* RpcChannel::Init has been called
  m_is_looping,         \* the thread is inside EventLoop::loop()
  t_msg_id_no,          \* the thread's last generated message id
  generated,            \* history: how many ids it has generated, 2 for more
  m_msg_id,             \* the length of the call's message id
  request,              \* the request of the call, once made
  called,
  m_error_code, m_is_cancled,   \* the RpcController
  response,             \* the caller's response message
  m_timer_event,        \* "none", "pending", "cancelled", "expired"
  m_state,              \* the TcpConnection's state
  m_connect_error_code,
  listening,            \* handlers registered on the client's descriptor
  m_write_dones,        \* the request waits in the connection
  read_done,            \* the callback in m_read_dones: "none", "set", "reset"
  wire, result,         \* answers not read yet; decoded, not yet handled
  answers,              \* history: how many answers were sent
  peer_closed,
  ran,                  \* history: what the closure saw, each time it ran
  crashed

msg_id == <<t_msg_id_no, generated, m_msg_id>>
vars == <<m_is_init, m_is_looping, msg_id, request, called, m_error_code, m_is_cancled,
          response, m_timer_event, m_state, m_connect_error_code, listening,
          m_write_dones, read_done, wire, result, answers, peer_closed, ran,
          crashed>>

ConnectErrors == {"ERROR_PEER_CLOSED", "ERROR_FAILED_CONNECT"}
Codes == {"none", "ERROR_RPC_CALL_TIMEOUT", "ERROR_RPC_CHANNEL_INIT"}
           \cup ConnectErrors \cup ServerErrors
Contents == {"unset", "unparsed", "empty", "result", "garbled"}
IdLengths == {GivenIdLength, IdLength(g_msg_id_length), IdLength(0)}

TypeOK ==
  /\ m_is_init \in BOOLEAN
  /\ m_is_looping \in BOOLEAN
  /\ t_msg_id_no \in MsgIds
  /\ generated \in 0..2
  /\ m_msg_id \in IdLengths
  /\ request \in Requests
  /\ called \in BOOLEAN
  /\ m_error_code \in Codes
  /\ m_is_cancled \in BOOLEAN
  /\ response \in Contents
  /\ m_timer_event \in {"none", "pending", "cancelled", "expired"}
  /\ m_state \in {"NotConnected", "Connected", "Closed"}
  /\ m_connect_error_code \in {"none"} \cup ConnectErrors
  /\ listening \subseteq {"connect", "write", "read"}
  /\ m_write_dones \in BOOLEAN
  /\ read_done \in {"none", "set", "reset"}
  /\ wire \in Seq(Answers)
  /\ result \in Seq(Answers)
  /\ answers \in 0..MaxAnswers
  /\ peer_closed \in BOOLEAN
  /\ ran \in Seq([err : Codes, content : Contents])
  /\ crashed \in {"no", "write", "decode", "channel", "msg_id"}

\* A channel that CALLRPC has or has not Init-ed, in a thread that is or is not
\* already looping.
Init ==
  /\ m_is_init \in BOOLEAN
  /\ m_is_looping \in BOOLEAN
  /\ t_msg_id_no = NoMsgId
  /\ generated = 0
  /\ m_msg_id = GivenIdLength
  /\ request \in Requests
  /\ called = FALSE
  /\ m_error_code = "none"
  /\ m_is_cancled = FALSE
  /\ response = "unset"
  /\ m_timer_event = "none"
  /\ m_state = "NotConnected"
  /\ m_connect_error_code = "none"
  /\ listening = {}
  /\ m_write_dones = FALSE
  /\ read_done = "none"
  /\ wire = <<>>
  /\ result = <<>>
  /\ answers = 0
  /\ peer_closed = FALSE
  /\ ran = <<>>
  /\ crashed = "no"

controller == <<m_error_code, m_is_cancled, response>>
connection == <<m_state, m_connect_error_code, listening, m_write_dones, read_done>>
network == <<wire, answers, peer_closed>>

\* The closure runs and reads the controller and the response as this step
\* leaves them.
RunClosure == ran' = Append(ran, [err |-> m_error_code', content |-> response'])

-----------------------------------------------------------------------------
(* CallMethod.                                                             *)

Count(n) == IF n = 2 THEN 2 ELSE n + 1

\* A call in this thread generates a message id, of this length.
Generates(length) ==
  /\ ~NeverReturns(t_msg_id_no)
  /\ \E id \in MsgIds :
       [id |-> id, length |-> length] \in GenMsgId(t_msg_id_no) /\ t_msg_id_no' = id
  /\ generated' = IF length = 0 THEN generated ELSE Count(generated)

\* A call takes the id its caller has set, or generates one.
TakesMsgId ==
  \/ m_msg_id' = GivenIdLength /\ UNCHANGED <<t_msg_id_no, generated>>
  \/ \E length \in {0, g_msg_id_length} :
       /\ Generates(length)
       /\ m_msg_id' = IdLength(length)

\* Other calls of the thread, over other channels, are seen by what they do to
\* its message ids.
OtherCall ==
  /\ crashed = "no"
  /\ \E length \in {0, g_msg_id_length} : Generates(length)
  /\ UNCHANGED <<m_is_init, m_is_looping, m_msg_id, request, called, controller,
                 m_timer_event, connection, network, result, ran, crashed>>

\* This call or another one generates an id and does not return.
MsgIdNeverReturns ==
  /\ crashed = "no"
  /\ NeverReturns(t_msg_id_no)
  /\ crashed' = "msg_id"
  /\ generated' = Count(generated)
  /\ UNCHANGED <<m_is_init, m_is_looping, t_msg_id_no, m_msg_id, request, called,
                 controller, m_timer_event, connection, network, result, ran>>

\* It returns before there is a timer: the channel was not Init-ed, or the
\* request does not serialize.
CallFails ==
  /\ ~called /\ crashed = "no"
  /\ TakesMsgId
  /\ called' = TRUE
  /\ m_error_code' = IF m_is_init THEN "ERROR_FAILED_SERIALIZE"
                                  ELSE "ERROR_RPC_CHANNEL_INIT"
  /\ UNCHANGED <<m_is_init, m_is_looping, request, m_is_cancled, response,
                 m_timer_event, connection, network, result, ran, crashed>>

\* The callback of connect: queue the request, or note the error.
Connected ==
  /\ m_state' = "Connected"
  /\ m_write_dones' = TRUE
  /\ listening' = {"write"}
  /\ UNCHANGED <<m_error_code, m_connect_error_code>>

ConnectFailed(code) ==
  /\ m_connect_error_code' = code
  /\ m_error_code' = code
  /\ listening' = {}
  /\ UNCHANGED <<m_state, m_write_dones>>

\* It adds the timer event and connects: at once, in the background (then it
\* loops, if the thread was not looping), or not at all.
CallMethod ==
  /\ ~called /\ crashed = "no"
  /\ TakesMsgId
  /\ m_is_init
  /\ called' = TRUE
  /\ m_timer_event' = "pending"
  /\ \/ /\ Connected
        /\ UNCHANGED m_is_looping
     \/ /\ listening' = {"connect"}
        /\ m_is_looping' = TRUE
        /\ UNCHANGED <<m_error_code, m_state, m_connect_error_code, m_write_dones>>
     \/ /\ ConnectFailed("ERROR_FAILED_CONNECT")
        /\ UNCHANGED m_is_looping
  /\ UNCHANGED <<m_is_init, request, m_is_cancled, response, read_done, network,
                 result, ran, crashed>>

\* The thread that was not looping when CallMethod returned loops later.
RunLoop ==
  /\ called /\ crashed = "no"
  /\ ~m_is_looping
  /\ m_is_looping' = TRUE
  /\ UNCHANGED <<m_is_init, msg_id, request, called, controller, m_timer_event,
                 connection, network, result, ran, crashed>>

-----------------------------------------------------------------------------
(* The handlers the loop calls.                                            *)

\* The loop calls its next handler: the previous one has returned.
Turn == m_is_looping /\ result = <<>> /\ crashed = "no"

\* The descriptor is writable: connect again to learn how it went, stop
\* listening and call connect's callback.
OnConnect ==
  /\ Turn
  /\ "connect" \in listening
  /\ Connected \/ \E code \in ConnectErrors : ConnectFailed(code)
  /\ UNCHANGED <<m_is_init, m_is_looping, msg_id, request, called, m_is_cancled,
                 response, m_timer_event, read_done, network, result, ran,
                 crashed>>

\* onWrite sends what the socket takes; whether or not that is the whole
\* request, the write callback runs and readMessage waits for the answer.
OnWrite ==
  /\ Turn
  /\ "write" \in listening
  /\ m_write_dones' = FALSE
  /\ IF m_write_dones
     THEN read_done' = "set" /\ listening' \in {{"read"}, {"write", "read"}}
     ELSE listening' \in {listening, listening \ {"write"}} /\ UNCHANGED read_done
  /\ UNCHANGED <<m_is_init, m_is_looping, msg_id, request, called, controller,
                 m_timer_event, m_state, m_connect_error_code, network, result,
                 ran, crashed>>

\* The peer is gone: onWrite's loop calls write again after any error other
\* than EAGAIN, and the second call raises SIGPIPE.
OnWriteFails ==
  /\ Turn
  /\ "write" \in listening
  /\ peer_closed
  /\ crashed' = "write"
  /\ UNCHANGED <<m_is_init, m_is_looping, msg_id, request, called, controller,
                 m_timer_event, connection, network, result, ran>>

\* onRead takes what has arrived and decodes it.
OnRead ==
  /\ Turn
  /\ "read" \in listening
  /\ wire # <<>>
  /\ result' = wire
  /\ wire' = <<>>
  /\ UNCHANGED <<m_is_init, m_is_looping, msg_id, request, called, controller,
                 m_timer_event, connection, answers, peer_closed, ran, crashed>>

\* The lengths of an answer's parts.
Lengths(a) ==
  [id |-> m_msg_id, method |-> TextLength["method"],
   err |-> IF a.err = "none" THEN 0 ELSE TextLength[a.err],
   data |-> IF a.data = "empty" THEN 0 ELSE TextLength[a.data]]

\* The texts of the call and of its answers fit the arrays of decode.
CallFits == \A a \in dispatch(request) : Fits(Lengths(a))

\* If they do not, decode may kill the process.
OnReadOverruns ==
  /\ Turn
  /\ "read" \in listening
  /\ wire # <<>>
  /\ ~CallFits
  /\ crashed' = "decode"
  /\ UNCHANGED <<m_is_init, m_is_looping, msg_id, request, called, controller,
                 m_timer_event, connection, network, result, ran>>

\* onRead finds the connection closed.
OnReadClosed ==
  /\ Turn
  /\ "read" \in listening
  /\ wire = <<>>
  /\ peer_closed
  /\ m_state' = "Closed"
  /\ listening' = {}
  /\ UNCHANGED <<m_is_init, m_is_looping, msg_id, request, called, controller,
                 m_timer_event, m_connect_error_code, m_write_dones, read_done,
                 network, result, ran, crashed>>

\* Defects: the callback forgets to cancel the timer event, or returns from a
\* parse error without SetError.
ReadDoneKeepsTimer(answer, parsed) ==
  /\ response' = IF parsed THEN answer.data ELSE "unparsed"
  /\ m_error_code' = IF ~parsed THEN "ERROR_FAILED_SERIALIZE"
                     ELSE IF answer.err # "none" THEN answer.err
                     ELSE m_error_code
  /\ IF parsed /\ answer.err = "none"
     THEN /\ read_done' = "reset"
          /\ IF m_is_cancled THEN UNCHANGED ran ELSE RunClosure
     ELSE UNCHANGED <<read_done, ran>>
  /\ UNCHANGED <<m_is_cancled, m_timer_event, crashed>>

ReadDoneQuiet(answer, parsed) ==
  /\ m_timer_event' = IF m_timer_event = "pending" THEN "cancelled" ELSE m_timer_event
  /\ response' = IF parsed THEN answer.data ELSE "unparsed"
  /\ m_error_code' = IF parsed /\ answer.err # "none" THEN answer.err ELSE m_error_code
  /\ IF parsed /\ answer.err = "none"
     THEN /\ read_done' = "reset"
          /\ IF m_is_cancled THEN UNCHANGED ran ELSE RunClosure
     ELSE UNCHANGED <<read_done, ran>>
  /\ UNCHANGED <<m_is_cancled, crashed>>

\* The read callback, on the next answer onRead has decoded.  It cancels the
\* timer event first, and only the path that reaches its end releases the
\* channel it holds; m_read_dones keeps the callback, and a later answer to the
\* same msg_id finds no channel in it.
ReadDone(answer, parsed) ==
  /\ m_timer_event' = IF m_timer_event = "pending" THEN "cancelled" ELSE m_timer_event
  /\ response' = IF parsed THEN answer.data ELSE "unparsed"
  /\ m_error_code' = IF ~parsed THEN "ERROR_FAILED_SERIALIZE"
                     ELSE IF answer.err # "none" THEN answer.err
                     ELSE m_error_code
  /\ IF parsed /\ answer.err = "none"
     THEN /\ read_done' = "reset"
          /\ IF m_is_cancled THEN UNCHANGED ran ELSE RunClosure
     ELSE UNCHANGED <<read_done, ran>>
  /\ UNCHANGED <<m_is_cancled, crashed>>

HandleAnswer ==
  /\ crashed = "no"
  /\ result # <<>>
  /\ result' = Tail(result)
  /\ IF read_done = "set"
     THEN \E parsed \in BOOLEAN : ReadDone(Head(result), parsed)
     ELSE /\ crashed' = "channel"
          /\ UNCHANGED <<controller, m_timer_event, read_done, ran>>
  /\ UNCHANGED <<m_is_init, m_is_looping, msg_id, request, called, m_state,
                 m_connect_error_code, listening, m_write_dones, network>>

\* The timer event is due and was not cancelled.
OnTimeout ==
  /\ Turn
  /\ m_timer_event = "pending"
  /\ m_timer_event' = "expired"
  /\ m_is_cancled' = TRUE
  /\ m_error_code' = "ERROR_RPC_CALL_TIMEOUT"
  /\ UNCHANGED response
  /\ RunClosure
  /\ UNCHANGED <<m_is_init, m_is_looping, msg_id, request, called, connection, network,
                 result, crashed>>

-----------------------------------------------------------------------------
(* The server and the network.                                             *)

\* What decode makes of the answer's frame: nothing, or an answer.  Where it overruns
\* an array, here or at the server, on the request, any answer may come of it.
Arrivals(a) ==
  LET m     == Lengths(a)
      frame == encodeTinyPB(m)
      missed == ~CallFits \/ MayBeMissed(frame, m)
      found == IF ~CallFits THEN Answers
               ELSE IF ~MayBeFound(frame, m) THEN {}
               ELSE {IF Intact(frame, m) THEN a ELSE Garbled}
  IN  {<<b>> : b \in found} \cup (IF missed THEN {<<>>} ELSE {})

\* The whole request was sent and the server answers it, once more if it has
\* decoded it once more.
ServerAnswers ==
  /\ read_done # "none"
  /\ "write" \notin listening
  /\ ~peer_closed
  /\ answers < MaxAnswers
  /\ answers' = answers + 1
  /\ \E a \in dispatch(request) : \E arrived \in Arrivals(a) : wire' = wire \o arrived
  /\ UNCHANGED <<m_is_init, m_is_looping, msg_id, request, called, controller,
                 m_timer_event, connection, result, peer_closed, ran, crashed>>

PeerCloses ==
  /\ m_state = "Connected"
  /\ ~peer_closed
  /\ peer_closed' = TRUE
  /\ UNCHANGED <<m_is_init, m_is_looping, msg_id, request, called, controller,
                 m_timer_event, connection, wire, answers, result, ran, crashed>>

Handlers == OnConnect \/ OnWrite \/ OnWriteFails \/ OnRead \/ OnReadOverruns
              \/ OnReadClosed
              \/ HandleAnswer \/ OnTimeout

Next == OtherCall \/ MsgIdNeverReturns \/ CallFails \/ CallMethod \/ RunLoop
          \/ Handlers \/ ServerAnswers \/ PeerCloses

\* The loop calls the handlers of a readable descriptor and of a timer event
\* that is due, and onRead gets through its answers.  Nothing makes the caller
\* loop, the connection attempt end, the server answer or the peer close.
Fairness ==
  /\ WF_vars(OnRead)
  /\ WF_vars(HandleAnswer)
  /\ WF_vars(OnTimeout)

SafeSpec == Init /\ [][Next]_vars
Spec == SafeSpec /\ Fairness

-----------------------------------------------------------------------------
\* The closure, the timer event, the cancel flag and the callback that waits
\* for the answer agree: a pending timer event means nobody has reported yet,
\* the cancel flag means the timeout has, and the callback that gave up its
\* channel means somebody has.
ChannelInv ==
  /\ TypeOK
  /\ Len(ran) <= 1
  /\ ~called => m_timer_event = "none"
  /\ m_timer_event = "none" => listening = {} /\ read_done = "none"
  /\ m_timer_event \in {"none", "pending"} => ran = <<>>
  /\ m_is_cancled <=> m_timer_event = "expired"
  /\ m_is_cancled => ran # <<>>
  /\ read_done = "reset" => ran # <<>>
  /\ read_done = "set" /\ ~m_is_cancled => ran = <<>>
  /\ read_done = "none" => answers = 0
  /\ Len(wire) + Len(result) <= answers

\* What the process can die of: a second answer that finds the channel gone
\* (m_read_dones still holds the callback), which only a call that has ended, and
\* that the server answered more than once, can meet; the second id its thread
\* generates; a write to a peer that has closed; and an answer to a call with an id its
\* caller has set, or a method's name or an error's text, too long for decode's arrays.
CrashCauses ==
  /\ crashed = "channel" => ran # <<>> /\ answers > 1
  /\ crashed = "msg_id" => generated > 1
  /\ crashed = "write" => peer_closed
  /\ crashed = "decode" =>
       /\ answers > 0
       /\ \/ TooLong("id", GivenIdLength)
          \/ TooLong("method", TextLength["method"])
          \/ \E e \in ServerErrors : TooLong("err", TextLength[e])

\* A closure that finds no error has the method's result, whatever the frame of the
\* answer went through, if the texts fit decode's arrays; only the answer to an
\* unregistered service, whose error dispatch sets on the request, is empty.
SuccessMeansResult ==
  \A i \in DOMAIN ran :
    CallFits /\ ran[i].err = "none" =>
      ran[i].content = IF request.service \in DOMAIN m_service_map THEN "result" ELSE "empty"

\* rpc_channel.cc keeps the promise of RpcCall: the closure runs at most once,
\* for an answer or for the timeout, and nothing changes after an answer.
Status == IF Len(ran) > 1 THEN "ran twice"
          ELSE IF ran = <<>> THEN (IF called THEN "called" ELSE "idle")
          ELSE IF m_is_cancled THEN "timedOut" ELSE "answered"
CallImpl == INSTANCE RpcCall
              WITH status <- Status, errCode <- m_error_code, content <- response
ImplementsRpcCall == CallImpl!Spec

\* Once there is a timer event and the thread loops, the closure runs, unless
\* the controller holds an error the read callback left there or the process
\* died: no path of the callbacks loses a call without a trace.
Settles ==
  m_timer_event # "none" /\ m_is_looping
    ~> \/ ran # <<>>
       \/ m_timer_event = "cancelled" /\ m_error_code # "none"
       \/ crashed # "no"

\* "call rpc failedd, ... error code": the closure of test_rpc_client.cc:98-101
\* is there to report the error of an answer.
ErrorReported ==
  m_error_code \in ServerErrors /\ m_timer_event # "none"
    ~> ran # <<>> \/ crashed # "no"
=============================================================================
