-------------------------- MODULE RpcChannel_proofs --------------------------
(* RpcChannel for every table of services and every number of answers.       *)
EXTENDS RpcChannel, TLAPS

LEMMA DispatchAnswers ==
  ASSUME NEW a \in dispatch(request)
  PROVE  a \in Answers
  <1>1. \A code \in {"none"} \cup ServerErrors : Error(code) \in Answers
    BY DEF Answers, Error
  <1>2. [err |-> "none", data |-> "result"] \in Answers
    BY DEF Answers
  <1>3. \/ \E code \in {"none"} \cup ServerErrors : a = Error(code)
        \/ a = [err |-> "none", data |-> "result"]
    <2> HIDE DEF Error
    <2> QED  BY Zenon DEF dispatch, ServerErrors
  <1> QED
    BY <1>1, <1>2, <1>3

-----------------------------------------------------------------------------
(* The frame of an answer.                                                 *)

Sizes == [id : Nat, method : Nat, err : Nat, data : Nat]

\* No part of the message that is written later covers this one.
Uncovered(m, k) ==
  \A j \in 1..12 : \A no \in 0..Parts(m)[k].len - 1 :
    Parts(m)[k].at + no \in Parts(m)[j].at .. Parts(m)[j].at + Parts(m)[j].len - 1 => j <= k

\* Where one part ends up in a frame, when no later part of the message covers
\* it: all of it can be read from there.
LEMMA PartHeld ==
  ASSUME NEW m \in Sizes, NEW k \in 1..12,
         Parts(m)[k].at \in Nat, Parts(m)[k].len \in Nat,
         Parts(m)[k].at + Parts(m)[k].len <= PkLen(m), Uncovered(m, k)
  PROVE  Holds(encodeTinyPB(m), Parts(m)[k].what, Parts(m)[k].at, Parts(m)[k].len)
  <1> DEFINE part == Parts(m)[k]
  <1> SUFFICES ASSUME NEW no \in 0..part.len - 1
               PROVE  encodeTinyPB(m)[part.at + no] = [what |-> part.what, no |-> no]
    BY DEF Holds
  <1> DEFINE place == part.at + no
             over  == {j \in DOMAIN Parts(m) :
                         place \in Parts(m)[j].at .. Parts(m)[j].at + Parts(m)[j].len - 1}
             last  == CHOOSE j \in over : \A i \in over : i <= j
  <1>1. DOMAIN Parts(m) = 1..12
    BY DEF Parts
  <1>2. place \in 0..PkLen(m) - 1 /\ place - part.at = no
    <2>1. PkLen(m) \in Nat
      BY DEF Sizes, PkLen
    <2>2. part.at \in Nat /\ part.len \in Nat /\ part.at + part.len <= PkLen(m)
      OBVIOUS
    <2> HIDE DEF part
    <2> QED
      BY <2>1, <2>2
  <1>3. k \in over
    BY <1>1
  <1>4. \A j \in over : j <= k
    BY <1>1 DEF Uncovered
  <1>5. last = k
    <2>1. over \subseteq 1..12
      BY <1>1
    <2> HIDE DEF over
    <2>2. last \in over /\ \A i \in over : i <= last
      BY <1>3, <1>4, Zenon
    <2> HIDE DEF last
    <2> QED
      BY <1>3, <1>4, <2>1, <2>2
  <1>6. encodeTinyPB(m)[place]
          = IF over = {} THEN [what |-> "malloc", no |-> 0]
            ELSE [what |-> Parts(m)[last].what, no |-> place - Parts(m)[last].at]
    BY <1>2, Zenon DEF encodeTinyPB
  <1> QED
    BY <1>2, <1>3, <1>5, <1>6, Zenon

\* What decode takes from the frame of an answer that has no error text or no
\* data, and texts its arrays can hold, is what was encoded; dispatch gives no other
\* answers.
LEMMA FrameIntact ==
  ASSUME NEW m \in Sizes, m.err = 0 \/ m.data = 0, Fits(m)
  PROVE  Intact(encodeTinyPB(m), m)
  <1> DEFINE err == ErrInfoIndex(m)
  <1>1. /\ m.id \in Nat /\ m.method \in Nat /\ m.err \in Nat /\ m.data \in Nat
        /\ err = 21 + m.id + m.method
        /\ PkLen(m) = 26 + m.id + m.method + m.err + m.data
    BY DEF Sizes, ErrInfoIndex, PkLen
  <1> DEFINE data == IF m.err = 0 THEN err ELSE err + m.id
  <1>2. /\ Parts(m)[1] = Part("start", 0, 1)
        /\ Parts(m)[2] = Part("pk_len", 1, 4)
        /\ Parts(m)[3] = Part("id_len", 5, 4)
        /\ Parts(m)[4] = Part("id", 9, m.id)
        /\ Parts(m)[5] = Part("method_len", 9 + m.id, 4)
        /\ Parts(m)[6] = Part("method", 13 + m.id, m.method)
        /\ Parts(m)[7] = Part("err_code", err - 8, 4)
        /\ Parts(m)[8] = Part("err_len", err - 4, 4)
        /\ Parts(m)[9] = Part("err", err, m.err)
        /\ Parts(m)[10] = Part("data", data, m.data)
        /\ Parts(m)[11] = Part("check_sum", data + m.data, 4)
        /\ Parts(m)[12] = Part("end", data + m.data + 4, 1)
    BY DEF Parts
  <1>3. \A j \in 1..12 : j \in {1, 2, 3, 4, 5, 6, 7, 8, 9, 10, 11, 12}
    OBVIOUS
  <1>4. data \in Nat /\ data >= err
    BY <1>1
  <1> HIDE DEF err, data
  <1>5. Holds(encodeTinyPB(m), "id", 9, m.id)
    <2>1. \A j \in 5..12 : Parts(m)[j].at >= 9 + m.id /\ Parts(m)[j].at \in Nat
      BY <1>1, <1>2, <1>4 DEF Part
    <2>2. Parts(m)[4].at = 9 /\ Parts(m)[4].len = m.id /\ Parts(m)[4].what = "id"
      BY <1>2 DEF Part
    <2>3. ASSUME NEW j \in 1..12, NEW no \in 0..m.id - 1,
                 9 + no \in Parts(m)[j].at .. Parts(m)[j].at + Parts(m)[j].len - 1
          PROVE  j <= 4
      BY <1>1, <2>1, <2>3
    <2> HIDE DEF Parts
    <2>4. Uncovered(m, 4)
      BY <2>2, <2>3 DEF Uncovered
    <2> QED
      BY <1>1, <2>2, <2>4, PartHeld
  <1>6. Holds(encodeTinyPB(m), "err_code", err - 8, 4)
    <2>1. \A j \in 8..12 : Parts(m)[j].at >= err - 4 /\ Parts(m)[j].at \in Nat
      BY <1>1, <1>2, <1>4 DEF Part
    <2>2. Parts(m)[7].at = err - 8 /\ Parts(m)[7].len = 4 /\ Parts(m)[7].what = "err_code"
      BY <1>2 DEF Part
    <2>3. ASSUME NEW j \in 1..12, NEW no \in 0..4 - 1,
                 err - 8 + no \in Parts(m)[j].at .. Parts(m)[j].at + Parts(m)[j].len - 1
          PROVE  j <= 7
      <3>1. err - 8 + no < err - 4
        BY <1>1, <2>3
      <3>2. Parts(m)[j].at <= err - 8 + no
        BY <2>3
      <3> QED
        BY <1>1, <2>1, <3>1, <3>2
    <2> HIDE DEF Parts
    <2>4. Uncovered(m, 7)
      BY <2>2, <2>3 DEF Uncovered
    <2> QED
      BY <1>1, <2>2, <2>4, PartHeld
  <1>7. Holds(encodeTinyPB(m), "data", DataIndex(m), m.data)
    <2>1. CASE m.data = 0
      BY <2>1 DEF Holds
    <2>2. CASE m.err = 0
      <3>1. data = err /\ DataIndex(m) = err
        BY <1>1, <2>2 DEF data, DataIndex, err
      <3>2. \A j \in 11..12 : Parts(m)[j].at >= err + m.data /\ Parts(m)[j].at \in Nat
        BY <1>1, <1>2, <3>1 DEF Part
      <3>3. Parts(m)[10].at = err /\ Parts(m)[10].len = m.data /\ Parts(m)[10].what = "data"
        BY <1>2, <3>1 DEF Part
      <3>4. ASSUME NEW j \in 1..12, NEW no \in 0..m.data - 1,
                   err + no \in Parts(m)[j].at .. Parts(m)[j].at + Parts(m)[j].len - 1
            PROVE  j <= 10
        BY <1>1, <3>2, <3>4
      <3>5. Uncovered(m, 10)
        BY <3>3, <3>4 DEF Uncovered
      <3> QED
        BY <1>1, <3>1, <3>3, <3>5, PartHeld
    <2> QED
      BY <2>1, <2>2
  <1> QED
    BY <1>5, <1>6, <1>7 DEF Intact, err

\* What the caller's decode can make of an answer to its request.
Faithful(a) ==
  CallFits /\ a.err = "none" =>
    a.data = IF request.service \in DOMAIN m_service_map THEN "result" ELSE "empty"

LEMMA AnswersArriveFaithful ==
  ASSUME m_msg_id \in Nat, NEW a \in dispatch(request), NEW arrived \in Arrivals(a)
  PROVE  arrived = <<>> \/ \E b \in Answers : Faithful(b) /\ arrived = <<b>>
  <1>1. /\ a \in Answers
        /\ a.err \in {"none"} \cup ServerErrors /\ a.data \in {"empty", "result"}
        /\ a.err = "none" \/ a.data = "empty"
    BY DispatchAnswers DEF dispatch, Error, ServerErrors
  <1>2. Faithful(a)
    BY ChannelAssumption DEF dispatch, Error, Faithful, ServerErrors
  <1> DEFINE m == Lengths(a)
  <1>3. m \in Sizes /\ (m.err = 0 \/ m.data = 0)
    BY <1>1, ChannelAssumption DEF Lengths, Sizes
  <1>4. CASE CallFits
    <2>1. Fits(m)
      BY <1>4 DEF CallFits
    <2>2. Intact(encodeTinyPB(m), m)
      <3> HIDE DEF m
      <3> QED
        BY <1>3, <2>1, FrameIntact
    <2> QED
      BY <1>1, <1>2, <1>4, <2>2 DEF Arrivals
  <1>5. CASE ~CallFits
    BY <1>5 DEF Arrivals, Faithful
  <1> QED
    BY <1>4, <1>5

-----------------------------------------------------------------------------
\* What the connection adds to ChannelInv: the request waits in it only while
\* no answer is awaited, the closure has run without a timeout only when the
\* read callback gave up its channel, and then one answer has been consumed.
CallInv ==
  /\ ChannelInv
  /\ m_write_dones \/ "connect" \in listening => read_done = "none"
  /\ ~m_is_cancled /\ read_done # "reset" => ran = <<>>
  /\ read_done = "reset" => Len(wire) + Len(result) < answers
  /\ crashed = "channel" => ran # <<>> /\ answers > 1

\* A thread whose last id has a digit to raise has generated one.
IdInv ==
  /\ t_msg_id_no.no = "digits" => generated >= 1
  /\ crashed = "msg_id" => generated > 1

\* Every answer on its way to the callback is what dispatch gave.
AnswerInv ==
  /\ \A i \in 1..Len(wire) : Faithful(wire[i])
  /\ \A i \in 1..Len(result) : Faithful(result[i])
  /\ SuccessMeansResult

\* What the process died of.
TextTooLong ==
  \/ TooLong("id", GivenIdLength)
  \/ TooLong("method", TextLength["method"])
  \/ \E e \in ServerErrors : TooLong("err", TextLength[e])
CauseInv ==
  /\ crashed = "write" => peer_closed
  /\ crashed = "decode" => answers > 0 /\ TextTooLong

IInv == CallInv /\ IdInv /\ AnswerInv /\ CauseInv

LEMMA GeneratesId ==
  ASSUME TypeOK, IdInv, NEW length \in {0, g_msg_id_length}, Generates(length)
  PROVE  /\ t_msg_id_no' \in MsgIds /\ generated' \in 0..2 /\ generated' >= generated
         /\ t_msg_id_no'.no = "digits" => generated' >= 1
  <1>1. t_msg_id_no \in MsgIds /\ generated \in 0..2
    BY DEF TypeOK
  <1>2. PICK id \in MsgIds : /\ [id |-> id, length |-> length] \in GenMsgId(t_msg_id_no)
                             /\ t_msg_id_no' = id
    BY DEF Generates
  <1>3. CASE length = 0
    <2>1. generated' = generated
      BY <1>3 DEF Generates
    <2>2. id = t_msg_id_no
      BY <1>2, <1>3 DEF GenMsgId, g_msg_id_length
    <2> QED
      BY <1>1, <1>2, <2>1, <2>2 DEF IdInv
  <1>4. CASE length = g_msg_id_length
    <2>1. generated' = Count(generated)
      BY <1>4 DEF Generates, g_msg_id_length
    <2> QED
      BY <1>1, <1>2, <2>1 DEF Count
  <1> QED
    BY <1>3, <1>4

\* What any step does to the message ids.
LEMMA StepIds ==
  ASSUME TypeOK, IdInv, [Next]_vars
  PROVE  /\ t_msg_id_no' \in MsgIds /\ generated' \in 0..2 /\ m_msg_id' \in IdLengths
         /\ IdInv'
  <1>1. /\ t_msg_id_no \in MsgIds /\ generated \in 0..2 /\ m_msg_id \in IdLengths
        /\ t_msg_id_no.no = "digits" => generated >= 1
        /\ crashed = "msg_id" => generated > 1
    BY DEF TypeOK, IdInv
  <1>2. CASE TakesMsgId /\ crashed = "no" /\ crashed' = "no"
    <2>1. CASE m_msg_id' = GivenIdLength /\ UNCHANGED <<t_msg_id_no, generated>>
      BY <1>1, <1>2, <2>1 DEF IdLengths, IdInv
    <2>2. CASE \E length \in {0, g_msg_id_length} :
                 Generates(length) /\ m_msg_id' = IdLength(length)
      BY <1>2, <2>2, GeneratesId DEF IdLengths, IdInv
    <2> QED
      BY <1>2, <2>1, <2>2 DEF TakesMsgId
  <1>3. CASE OtherCall
    BY <1>1, <1>3, GeneratesId DEF OtherCall, IdInv
  <1>4. CASE MsgIdNeverReturns
    BY <1>1, <1>4 DEF MsgIdNeverReturns, NeverReturns, Count, IdInv
  <1>5. ASSUME UNCHANGED msg_id, crashed' # "msg_id" \/ crashed' = crashed
        PROVE  /\ t_msg_id_no' \in MsgIds /\ generated' \in 0..2 /\ m_msg_id' \in IdLengths
               /\ IdInv'
    <2>1. t_msg_id_no' = t_msg_id_no /\ generated' = generated /\ m_msg_id' = m_msg_id
      BY <1>5 DEF msg_id
    <2> QED
      BY <1>1, <1>5, <2>1 DEF IdInv, IdLengths
  <1>6. CASE CallFails \/ CallMethod
    BY <1>2, <1>6 DEF CallFails, CallMethod
  <1>7. CASE HandleAnswer
    BY <1>5, <1>7 DEF HandleAnswer, ReadDone
  <1>8. CASE RunLoop \/ OnConnect \/ OnWrite \/ OnWriteFails \/ OnRead \/ OnReadOverruns
    BY <1>5, <1>8 DEF RunLoop, OnConnect, OnWrite, OnWriteFails, OnRead, OnReadOverruns
  <1>9. CASE OnReadClosed \/ OnTimeout \/ ServerAnswers \/ PeerCloses \/ UNCHANGED vars
    BY <1>5, <1>9 DEF OnReadClosed, OnTimeout, ServerAnswers, PeerCloses, vars
  <1> QED
    BY <1>3, <1>4, <1>6, <1>7, <1>8, <1>9 DEF Next, Handlers

IdType == t_msg_id_no \in MsgIds /\ generated \in 0..2 /\ m_msg_id \in IdLengths

LEMMA IdNat ==
  ASSUME TypeOK
  PROVE  m_msg_id \in Nat
  BY ChannelAssumption DEF TypeOK, IdLengths, IdLength, g_msg_id_length

LEMMA StepCallFails ==
  ASSUME CallInv, IdType', CallFails
  PROVE  CallInv'
  <1>1. m_error_code' \in Codes
    BY DEF CallFails, Codes, ServerErrors
  <1>2. called' \in BOOLEAN /\ m_timer_event = "none" /\ m_timer_event' = "none"
    BY DEF CallFails, CallInv, ChannelInv
  <1> QED
    BY <1>1, <1>2 DEF CallFails, CallInv, ChannelInv, TypeOK, IdType, controller, connection,
                      network

LEMMA ConnectOutcome ==
  ASSUME CallInv, Connected \/ \E code \in ConnectErrors : ConnectFailed(code)
  PROVE  /\ m_error_code' \in Codes
         /\ m_state' \in {"NotConnected", "Connected", "Closed"}
         /\ m_connect_error_code' \in {"none"} \cup ConnectErrors
         /\ listening' \subseteq {"write", "read"}
         /\ m_write_dones' \in BOOLEAN
  BY DEF CallInv, ChannelInv, TypeOK, IdType, Connected, ConnectFailed, Codes, ConnectErrors

LEMMA StepCallMethod ==
  ASSUME CallInv, IdType', CallMethod
  PROVE  CallInv'
  <1>1. /\ m_timer_event = "none" /\ m_timer_event' = "pending" /\ called' = TRUE
        /\ listening = {} /\ read_done = "none" /\ read_done' = "none"
        /\ ran = <<>> /\ ran' = <<>> /\ ~m_is_cancled /\ ~m_is_cancled'
    BY DEF CallMethod, CallInv, ChannelInv, TypeOK, IdType
  <1>2. /\ m_error_code' \in Codes
        /\ m_state' \in {"NotConnected", "Connected", "Closed"}
        /\ m_connect_error_code' \in {"none"} \cup ConnectErrors
        /\ listening' \subseteq {"connect", "write", "read"}
        /\ m_write_dones' \in BOOLEAN /\ m_is_looping' \in BOOLEAN
    <2>1. CASE Connected /\ UNCHANGED m_is_looping
      BY <2>1, ConnectOutcome DEF CallInv, ChannelInv, TypeOK, IdType
    <2>2. CASE ConnectFailed("ERROR_FAILED_CONNECT") /\ UNCHANGED m_is_looping
      BY <2>2, ConnectOutcome DEF ConnectErrors, CallInv, ChannelInv, TypeOK, IdType
    <2>3. CASE listening' = {"connect"}
      <3>1. CASE m_error_code' = m_error_code
        BY <2>1, <2>2, <2>3, <3>1 DEF CallMethod, CallInv, ChannelInv, TypeOK, IdType
      <3>2. CASE m_error_code' # m_error_code
        BY <2>1, <2>2, <2>3, <3>2 DEF CallMethod
      <3> QED
        BY <3>1, <3>2
    <2> QED
      BY <2>1, <2>2, <2>3 DEF CallMethod
  <1> QED
    BY <1>1, <1>2 DEF CallMethod, CallInv, ChannelInv, TypeOK, IdType, network

LEMMA StepOnConnect ==
  ASSUME CallInv, IdType', OnConnect
  PROVE  CallInv'
  <1>1. /\ m_error_code' \in Codes
        /\ m_state' \in {"NotConnected", "Connected", "Closed"}
        /\ m_connect_error_code' \in {"none"} \cup ConnectErrors
        /\ listening' \subseteq {"write", "read"}
        /\ m_write_dones' \in BOOLEAN
    BY ConnectOutcome DEF OnConnect
  <1>2. m_timer_event # "none" /\ read_done = "none"
    BY DEF OnConnect, CallInv, ChannelInv
  <1> QED
    BY <1>1, <1>2 DEF OnConnect, CallInv, ChannelInv, TypeOK, IdType, network

LEMMA StepOnWrite ==
  ASSUME CallInv, IdType', OnWrite
  PROVE  CallInv'
  <1>1. /\ ChannelInv /\ TypeOK /\ m_timer_event # "none" /\ m_write_dones' = FALSE
        /\ m_is_init' = m_is_init /\ m_is_looping' = m_is_looping /\ request' = request
        /\ called' = called /\ m_error_code' = m_error_code /\ m_is_cancled' = m_is_cancled
        /\ response' = response /\ m_timer_event' = m_timer_event /\ m_state' = m_state
        /\ m_connect_error_code' = m_connect_error_code /\ wire' = wire
        /\ answers' = answers /\ peer_closed' = peer_closed /\ result' = result
        /\ ran' = ran /\ crashed' = crashed
    BY DEF OnWrite, CallInv, ChannelInv, controller, network
  <1>2. ASSUME listening' \subseteq {"connect", "write", "read"},
               read_done' \in {"none", "set", "reset"}
        PROVE  TypeOK'
    <2>1. t_msg_id_no' \in MsgIds /\ generated' \in 0..2 /\ m_msg_id' \in IdLengths
      BY DEF IdType
    <2>2. m_write_dones' \in BOOLEAN
      BY <1>1
    <2> QED
      BY <1>1, <1>2, <2>1, <2>2, SMT DEF TypeOK
  <1>3. CASE m_write_dones
    <2>1. /\ read_done = "none" /\ read_done' = "set"
          /\ listening' \subseteq {"write", "read"}
          /\ ~m_is_cancled => ran = <<>>
      BY <1>3 DEF OnWrite, CallInv
    <2>2. TypeOK'
      BY <1>2, <2>1
    <2> QED
      BY <1>1, <2>1, <2>2 DEF CallInv, ChannelInv
  <1>4. CASE ~m_write_dones
    <2>1. read_done' = read_done /\ listening' \subseteq listening
      BY <1>4 DEF OnWrite
    <2>2. TypeOK'
      BY <1>1, <1>2, <2>1 DEF TypeOK
    <2> QED
      BY <1>1, <2>1, <2>2 DEF CallInv, ChannelInv
  <1> QED
    BY <1>3, <1>4

LEMMA StepOnRead ==
  ASSUME CallInv, IdType', OnRead
  PROVE  CallInv'
  <1>1. /\ wire \in Seq(Answers) /\ result = <<>> /\ result' = wire /\ wire' = <<>>
        /\ Len(result) = 0 /\ Len(wire') = 0
    BY DEF OnRead, Turn, CallInv, ChannelInv, TypeOK, IdType
  <1> QED
    BY <1>1 DEF OnRead, CallInv, ChannelInv, TypeOK, IdType, controller, connection

LEMMA StepServerAnswers ==
  ASSUME CallInv, IdType', ServerAnswers
  PROVE  CallInv'
  <1>1. /\ wire' \in Seq(Answers) /\ Len(wire') \in {Len(wire), Len(wire) + 1}
        /\ Len(wire) \in Nat
    <2>1. PICK a \in dispatch(request) : \E arrived \in Arrivals(a) : wire' = wire \o arrived
      BY DEF ServerAnswers
    <2>2. PICK arrived \in Arrivals(a) : wire' = wire \o arrived
      BY <2>1
    <2>3. arrived = <<>> \/ \E b \in Answers : Faithful(b) /\ arrived = <<b>>
      BY <2>1, <2>2, IdNat, AnswersArriveFaithful DEF CallInv, ChannelInv
    <2>4. wire \in Seq(Answers)
      BY DEF CallInv, ChannelInv, TypeOK
    <2>5. CASE arrived = <<>>
      BY <2>2, <2>4, <2>5
    <2>6. ASSUME NEW b \in Answers, arrived = <<b>>
          PROVE  wire' \in Seq(Answers) /\ Len(wire') = Len(wire) + 1 /\ Len(wire) \in Nat
      BY <2>2, <2>4, <2>6
    <2> QED
      BY <2>3, <2>5, <2>6
  <1>4. /\ answers' = answers + 1 /\ answers' \in 0..MaxAnswers
        /\ Len(wire) \in Nat /\ Len(result) \in Nat /\ answers \in Nat
        /\ read_done # "none" /\ read_done' = read_done
    BY ChannelAssumption
       DEF ServerAnswers, CallInv, ChannelInv, TypeOK, IdType, connection
  <1> QED
    BY <1>1, <1>4 DEF ServerAnswers, CallInv, ChannelInv, TypeOK, IdType, controller, connection

LEMMA StepOnTimeout ==
  ASSUME CallInv, IdType', OnTimeout
  PROVE  CallInv'
  <1>1. /\ ran = <<>> /\ ran' = <<[err |-> m_error_code', content |-> response']>>
    BY DEF OnTimeout, RunClosure, CallInv, ChannelInv
  <1>2. m_error_code' \in Codes /\ response' \in Contents
    BY DEF OnTimeout, CallInv, ChannelInv, TypeOK, IdType, Codes
  <1>3. ran' \in Seq([err : Codes, content : Contents]) /\ Len(ran') = 1 /\ ran' # <<>>
    BY <1>1, <1>2
  <1> QED
    BY <1>2, <1>3 DEF OnTimeout, CallInv, ChannelInv, TypeOK, IdType, connection, network

\* What one answer does to the call.
LEMMA StepReadDone ==
  ASSUME CallInv, read_done = "set", NEW answer \in Answers, NEW parsed \in BOOLEAN,
         ReadDone(answer, parsed)
  PROVE  /\ m_error_code' \in Codes /\ response' \in Contents \ {"unset"}
         /\ m_timer_event # "none"
         /\ m_timer_event' = (IF m_timer_event = "pending" THEN "cancelled"
                                                            ELSE m_timer_event)
         /\ m_is_cancled' = m_is_cancled /\ crashed' = crashed
         /\ ran' \in Seq([err : Codes, content : Contents]) /\ Len(ran') <= 1
         /\ \/ read_done' = "set" /\ ran' = ran
            \/ /\ read_done' = "reset" /\ ran' # <<>>
               /\ m_error_code' = m_error_code
               /\ m_is_cancled => ran' = ran
  <1>1. /\ answer.err \in {"none"} \cup ServerErrors
        /\ answer.data \in {"empty", "result", "garbled"}
    BY DEF Answers
  <1>2. m_error_code' \in Codes /\ response' \in Contents \ {"unset"}
    BY <1>1 DEF ReadDone, CallInv, ChannelInv, TypeOK, IdType, Codes, ServerErrors, Contents
  <1>3. CASE parsed /\ answer.err = "none" /\ ~m_is_cancled
    <2>1. ran = <<>>
      BY <1>3 DEF CallInv
    <2>2. ran' = <<[err |-> m_error_code', content |-> response']>>
      BY <1>3, <2>1 DEF ReadDone, RunClosure
    <2>3. ran' \in Seq([err : Codes, content : Contents]) /\ Len(ran') = 1 /\ ran' # <<>>
      BY <1>2, <2>2
    <2> QED
      BY <1>2, <1>3, <2>3 DEF ReadDone, CallInv, ChannelInv
  <1>4. CASE ~(parsed /\ answer.err = "none" /\ ~m_is_cancled)
    <2>1. /\ ran' = ran
          /\ \/ read_done' = "set"
             \/ /\ read_done' = "reset" /\ m_is_cancled
                /\ m_error_code' = m_error_code
      BY <1>4 DEF ReadDone
    <2> QED
      BY <1>2, <2>1 DEF ReadDone, CallInv, ChannelInv, TypeOK, IdType
  <1> QED
    BY <1>3, <1>4

LEMMA StepHandleAnswer ==
  ASSUME CallInv, IdType', HandleAnswer
  PROVE  CallInv'
  <1>1. /\ result \in Seq(Answers) /\ result # <<>> /\ Head(result) \in Answers
        /\ result' = Tail(result) /\ result' \in Seq(Answers)
        /\ Len(result') = Len(result) - 1 /\ Len(result) \in Nat /\ Len(result) > 0
        /\ Len(wire) \in Nat /\ answers \in Nat
        /\ wire' = wire /\ answers' = answers
    BY DEF HandleAnswer, network, CallInv, ChannelInv, TypeOK, IdType
  <1>2. Len(wire') + Len(result') < answers'
    BY <1>1 DEF CallInv, ChannelInv
  <1>3. CASE read_done = "set"
    <2>1. PICK parsed \in BOOLEAN : ReadDone(Head(result), parsed)
      BY <1>3 DEF HandleAnswer
    <2>2. /\ m_error_code' \in Codes /\ response' \in Contents \ {"unset"}
          /\ m_timer_event # "none"
          /\ m_timer_event' = (IF m_timer_event = "pending" THEN "cancelled"
                                                             ELSE m_timer_event)
          /\ m_is_cancled' = m_is_cancled /\ crashed' = crashed
          /\ ran' \in Seq([err : Codes, content : Contents]) /\ Len(ran') <= 1
          /\ \/ read_done' = "set" /\ ran' = ran
             \/ /\ read_done' = "reset" /\ ran' # <<>>
                /\ m_error_code' = m_error_code
                /\ m_is_cancled => ran' = ran
      BY <1>1, <1>3, <2>1, StepReadDone
    <2>3. TypeOK'
      BY <1>1, <2>2 DEF HandleAnswer, network, CallInv, ChannelInv, TypeOK, IdType
    <2>4. ran # <<>> => ran' # <<>>
      BY <1>3, <2>2 DEF CallInv
    <2> QED
      BY <1>1, <1>2, <1>3, <2>2, <2>3, <2>4
         DEF HandleAnswer, network, CallInv, ChannelInv
  <1>4. CASE read_done # "set"
    <2>1. /\ crashed' = "channel"
          /\ UNCHANGED <<m_error_code, m_is_cancled, response, m_timer_event,
                         read_done, ran>>
      BY <1>4 DEF HandleAnswer, controller
    <2>2. read_done = "reset" /\ ran # <<>>
      BY <1>1, <1>4 DEF CallInv, ChannelInv, TypeOK, IdType
    <2>3. answers > 1
      BY <1>1, <2>2 DEF CallInv
    <2>4. TypeOK'
      BY <1>1, <2>1 DEF HandleAnswer, network, CallInv, ChannelInv, TypeOK, IdType
    <2> QED
      BY <1>1, <1>2, <2>1, <2>2, <2>3, <2>4
         DEF HandleAnswer, network, CallInv, ChannelInv
  <1> QED
    BY <1>3, <1>4

\* The other steps leave the call alone.
LEMMA StepOthers ==
  ASSUME CallInv, IdType',
         OtherCall \/ MsgIdNeverReturns \/ RunLoop \/ OnWriteFails \/ OnReadOverruns
           \/ OnReadClosed
           \/ PeerCloses \/ UNCHANGED vars
  PROVE  CallInv'
  <1>1. CASE RunLoop
    BY <1>1 DEF RunLoop, CallInv, ChannelInv, TypeOK, IdType, controller, connection, network
  <1>2. CASE OnWriteFails
    BY <1>2 DEF OnWriteFails, CallInv, ChannelInv, TypeOK, IdType, controller, connection, network
  <1>3. CASE OnReadClosed
    BY <1>3 DEF OnReadClosed, CallInv, ChannelInv, TypeOK, IdType, controller, network
  <1>4. CASE PeerCloses
    BY <1>4 DEF PeerCloses, CallInv, ChannelInv, TypeOK, IdType, controller, connection
  <1>5. CASE UNCHANGED vars
    BY <1>5 DEF vars, CallInv, ChannelInv, TypeOK, IdType
  <1>6. CASE OtherCall
    BY <1>6 DEF OtherCall, CallInv, ChannelInv, TypeOK, IdType, controller, connection, network
  <1>7. CASE MsgIdNeverReturns
    BY <1>7 DEF MsgIdNeverReturns, CallInv, ChannelInv, TypeOK, IdType, controller, connection,
                network
  <1>8. CASE OnReadOverruns
    BY <1>8 DEF OnReadOverruns, CallInv, ChannelInv, TypeOK, IdType, controller, connection, network
  <1> QED
    BY <1>1, <1>2, <1>3, <1>4, <1>5, <1>6, <1>7, <1>8

\* Whether the texts fit does not change once there are answers.
LEMMA FitStays ==
  ASSUME CallInv, [Next]_vars
  PROVE  \/ /\ wire = <<>> /\ wire' = <<>> /\ result = <<>> /\ result' = <<>>
            /\ ran = <<>> /\ ran' = <<>>
         \/ CallFits' = CallFits
  <1>1. CASE UNCHANGED <<m_msg_id, request>>
    BY <1>1 DEF CallFits, Lengths
  <1>2. CASE CallFails \/ CallMethod
    <2>1. read_done = "none" /\ answers = 0 /\ ran = <<>>
      BY <1>2 DEF CallFails, CallMethod, CallInv, ChannelInv
    <2>2. wire \in Seq(Answers) /\ result \in Seq(Answers) /\ Len(wire) + Len(result) <= 0
      BY <2>1 DEF CallInv, ChannelInv, TypeOK
    <2>3. wire = <<>> /\ result = <<>>
      BY <2>2
    <2> QED
      BY <1>2, <2>1, <2>3 DEF CallFails, CallMethod, network
  <1>3. CASE HandleAnswer \/ OnTimeout \/ ServerAnswers \/ PeerCloses \/ RunLoop \/ UNCHANGED vars
    BY <1>1, <1>3 DEF HandleAnswer, OnTimeout, ServerAnswers, PeerCloses, RunLoop, vars, msg_id
  <1>4. CASE OtherCall \/ MsgIdNeverReturns \/ OnConnect \/ OnWrite \/ OnWriteFails
    BY <1>1, <1>4 DEF OtherCall, MsgIdNeverReturns, OnConnect, OnWrite, OnWriteFails, msg_id
  <1>5. CASE OnRead \/ OnReadOverruns \/ OnReadClosed
    BY <1>1, <1>5 DEF OnRead, OnReadOverruns, OnReadClosed, msg_id
  <1> QED
    BY <1>2, <1>3, <1>4, <1>5 DEF Next, Handlers

LEMMA AddedAnswer ==
  ASSUME NEW s \in Seq(Answers), NEW a \in Answers, NEW t \in {<<>>, <<a>>}
  PROVE  \A i \in 1..Len(s \o t) : (s \o t)[i] = a \/ (i \in 1..Len(s) /\ (s \o t)[i] = s[i])
  <1>1. CASE t = <<>>
    BY <1>1
  <1>2. CASE t = <<a>>
    BY <1>2
  <1> QED
    BY <1>1, <1>2

\* No step makes an answer of its own, and the closure finds no error only where
\* the read callback hands it one of them.
LEMMA StepAnswers ==
  ASSUME CallInv, AnswerInv, [Next]_vars
  PROVE  AnswerInv'
  <1>0. /\ request' = request
        /\ wire \in Seq(Answers) /\ result \in Seq(Answers)
        /\ ran \in Seq([err : Codes, content : Contents])
    BY DEF CallInv, ChannelInv, TypeOK, Next, Handlers, vars, OtherCall, MsgIdNeverReturns,
           CallFails, CallMethod, RunLoop, OnConnect, OnWrite, OnWriteFails, OnRead,
           OnReadOverruns, OnReadClosed, HandleAnswer, OnTimeout, ServerAnswers, PeerCloses
  <1>a. CASE wire' = <<>> /\ result' = <<>> /\ ran' = <<>>
    BY <1>a DEF AnswerInv, SuccessMeansResult
  <1>b. SUFFICES ASSUME CallFits' = CallFits
                 PROVE  AnswerInv'
    BY <1>a, FitStays
  <1>1. ASSUME UNCHANGED <<wire, result, ran>>
        PROVE  AnswerInv'
    BY <1>0, <1>b, <1>1 DEF AnswerInv, Faithful, SuccessMeansResult
  <1>2. CASE OnRead
    BY <1>0, <1>b, <1>2 DEF OnRead, AnswerInv, Faithful, SuccessMeansResult
  <1>3. CASE ServerAnswers
    <2>1. PICK a \in dispatch(request) : \E arrived \in Arrivals(a) : wire' = wire \o arrived
      BY <1>3 DEF ServerAnswers
    <2>2. PICK arrived \in Arrivals(a) : wire' = wire \o arrived
      BY <2>1
    <2>3. arrived = <<>> \/ \E b \in Answers : Faithful(b) /\ arrived = <<b>>
      BY <2>1, <2>2, IdNat, AnswersArriveFaithful DEF CallInv, ChannelInv
    <2>6. result' = result /\ ran' = ran
      BY <1>3 DEF ServerAnswers
    <2>7. CASE arrived = <<>>
      BY <1>0, <1>1, <2>2, <2>6, <2>7
    <2>8. ASSUME NEW b \in Answers, Faithful(b), arrived = <<b>>
          PROVE  AnswerInv'
      <3>1. \A i \in 1..Len(wire') : wire'[i] = b \/ (i \in 1..Len(wire) /\ wire'[i] = wire[i])
        BY <1>0, <2>2, <2>8, AddedAnswer
      <3>2. \A i \in 1..Len(wire') : Faithful(wire'[i])
        BY <2>8, <3>1 DEF AnswerInv
      <3> QED
        BY <1>0, <1>b, <2>6, <3>2 DEF AnswerInv, Faithful, SuccessMeansResult
    <2> QED
      BY <2>3, <2>7, <2>8
  <1>4. CASE OnTimeout
    <2>1. ran' = Append(ran, [err |-> "ERROR_RPC_CALL_TIMEOUT", content |-> response'])
      BY <1>4 DEF OnTimeout, RunClosure
    <2>2. SuccessMeansResult'
      BY <1>0, <1>b, <2>1 DEF AnswerInv, SuccessMeansResult
    <2>3. wire' = wire /\ result' = result
      BY <1>4 DEF OnTimeout, network
    <2> QED
      BY <1>0, <1>b, <2>2, <2>3 DEF AnswerInv, Faithful
  <1>5. CASE HandleAnswer
    <2>1. wire' = wire /\ result' = Tail(result) /\ result # <<>>
      BY <1>5 DEF HandleAnswer, network
    <2>2. Faithful(Head(result))
      BY <1>0, <2>1 DEF AnswerInv
    <2>3. \A i \in 1..Len(result') : i + 1 \in 1..Len(result) /\ result'[i] = result[i + 1]
      BY <1>0, <2>1
    <2>4. \A i \in 1..Len(result') : Faithful(result'[i])
      BY <2>3 DEF AnswerInv
    <2>5. CASE ran' = ran
      BY <1>0, <1>b, <2>1, <2>4, <2>5 DEF AnswerInv, Faithful, SuccessMeansResult
    <2>6. CASE ran' # ran
      <3>1. /\ Head(result).err = "none" /\ response' = Head(result).data
            /\ ran' = Append(ran, [err |-> m_error_code', content |-> response'])
        BY <1>5, <2>6 DEF HandleAnswer, ReadDone, RunClosure
      <3>2. SuccessMeansResult'
        BY <1>0, <1>b, <2>2, <3>1 DEF AnswerInv, SuccessMeansResult, Faithful
      <3> QED
        BY <1>0, <1>b, <2>1, <2>4, <3>2 DEF AnswerInv, Faithful
    <2> QED
      BY <2>5, <2>6
  <1>6. CASE OtherCall \/ MsgIdNeverReturns \/ CallFails \/ CallMethod \/ RunLoop
               \/ OnConnect \/ OnWrite \/ OnWriteFails \/ OnReadOverruns \/ OnReadClosed
               \/ PeerCloses \/ UNCHANGED vars
    <2>1. UNCHANGED <<wire, result, ran>>
      BY <1>6 DEF OtherCall, MsgIdNeverReturns, CallFails, CallMethod, RunLoop, OnConnect,
                  OnWrite, OnWriteFails, OnReadOverruns, OnReadClosed, PeerCloses, vars, network
    <2> QED
      BY <1>1, <2>1
  <1> QED
    BY <1>2, <1>3, <1>4, <1>5, <1>6 DEF Next, Handlers

\* A text is too long only if the caller has given the id, or the method's name or
\* an error's text is.
LEMMA TooLongGiven ==
  ASSUME TypeOK, ~CallFits
  PROVE  TextTooLong
  <1>1. PICK a \in dispatch(request) : ~Fits(Lengths(a))
    BY DEF CallFits
  <1>2. a.err \in {"none"} \cup ServerErrors
    BY DispatchAnswers DEF Answers
  <1>3. PICK text \in {"id", "method", "err"} : TooLong(text, Lengths(a)[text])
    BY <1>1 DEF Fits, ArrayLength
  <1>4. m_msg_id \in {GivenIdLength, 20, 9}
    BY DEF TypeOK, IdLengths, IdLength, g_msg_id_length
  <1>5. ~TooLong("id", 20) /\ ~TooLong("id", 9) /\ ~TooLong("err", 0)
    BY DEF TooLong, ArrayLength
  <1>6. /\ Lengths(a)["id"] = m_msg_id /\ Lengths(a)["method"] = TextLength["method"]
        /\ Lengths(a)["err"] = IF a.err = "none" THEN 0 ELSE TextLength[a.err]
    BY DEF Lengths
  <1> HIDE DEF TooLong
  <1> QED
    BY <1>2, <1>3, <1>4, <1>5, <1>6 DEF TextTooLong

LEMMA StepCauses ==
  ASSUME TypeOK, wire # <<>> => answers > 0, CauseInv, [Next]_vars
  PROVE  CauseInv'
  <1>1. CASE OnReadOverruns
    <2>1. /\ crashed' = "decode" /\ answers' = answers /\ answers > 0 /\ ~CallFits
      BY <1>1 DEF OnReadOverruns, network
    <2> QED
      BY <2>1, TooLongGiven DEF CauseInv
  <1>2. CASE ServerAnswers
    <2>1. /\ crashed' = crashed /\ answers' = answers + 1 /\ answers \in Nat
          /\ peer_closed' = peer_closed
      BY <1>2 DEF ServerAnswers, TypeOK
    <2> QED
      BY <2>1 DEF CauseInv
  <1>3. CASE OnWriteFails \/ PeerCloses \/ MsgIdNeverReturns
    BY <1>3 DEF OnWriteFails, PeerCloses, MsgIdNeverReturns, CauseInv, network
  <1>4. CASE HandleAnswer
    BY <1>4 DEF HandleAnswer, ReadDone, CauseInv, network
  <1>5. CASE \/ OtherCall \/ CallFails \/ CallMethod \/ RunLoop \/ OnConnect \/ OnWrite
             \/ OnRead \/ OnReadClosed \/ OnTimeout \/ UNCHANGED vars
    <2>1. crashed' = crashed /\ answers' = answers /\ peer_closed' = peer_closed
      BY <1>5 DEF OtherCall, CallFails, CallMethod, RunLoop, OnConnect, OnWrite, OnRead,
                  OnReadClosed, OnTimeout, vars, network
    <2> QED
      BY <2>1 DEF CauseInv
  <1> QED
    BY <1>1, <1>2, <1>3, <1>4, <1>5 DEF Next, Handlers

LEMMA Step == IInv /\ [Next]_vars => IInv'
  <1> SUFFICES ASSUME IInv, [Next]_vars PROVE IInv'
    OBVIOUS
  <1>1. CallInv /\ IdInv /\ AnswerInv /\ CauseInv /\ TypeOK
    BY DEF IInv, CallInv, ChannelInv
  <1>2. IdType' /\ IdInv'
    BY <1>1, StepIds DEF IdType
  <1>3. CallInv'
    BY <1>1, <1>2, StepCallFails, StepCallMethod, StepOnConnect, StepOnWrite, StepOnRead,
       StepServerAnswers, StepOnTimeout, StepHandleAnswer, StepOthers DEF Next, Handlers
  <1>4. AnswerInv'
    BY <1>1, StepAnswers
  <1>5. CauseInv'
    <2>1. wire # <<>> => answers > 0
      BY <1>1 DEF CallInv, ChannelInv, TypeOK
    <2> QED
      BY <1>1, <2>1, StepCauses
  <1> QED
    BY <1>2, <1>3, <1>4, <1>5 DEF IInv

LEMMA Invariant == SafeSpec => []IInv
  <1>1. Init => IInv
    <2> SUFFICES ASSUME Init PROVE IInv
      OBVIOUS
    <2>1. TypeOK
      <3>1. answers \in 0..MaxAnswers
        BY ChannelAssumption DEF Init
      <3>2. /\ wire \in Seq(Answers) /\ result \in Seq(Answers)
            /\ ran \in Seq([err : Codes, content : Contents])
        BY DEF Init
      <3>3. t_msg_id_no \in MsgIds /\ generated \in 0..2 /\ m_msg_id \in IdLengths
        BY DEF Init, MsgIds, NoMsgId, IdLengths
      <3> QED
        BY <3>1, <3>2, <3>3 DEF Init, TypeOK, Codes, Contents
    <2>2. Len(ran) <= 1 /\ Len(wire) + Len(result) <= answers
      BY DEF Init
    <2>3. CallInv
      BY <2>1, <2>2 DEF Init, CallInv, ChannelInv
    <2>4. IdInv /\ AnswerInv
      BY DEF Init, IdInv, NoMsgId, AnswerInv, SuccessMeansResult
    <2> QED
      BY <2>3, <2>4 DEF Init, IInv, CauseInv
  <1> QED
    BY <1>1, Step, PTL DEF SafeSpec

\* The closure runs at most once; the timer event, the cancel flag and the
\* waiting callback agree with it.
THEOREM ClosureOnce == SafeSpec => []ChannelInv
  <1>1. IInv => ChannelInv
    BY DEF IInv, CallInv
  <1> QED
    BY <1>1, Invariant, PTL

\* The process dies of nothing but a second answer that finds the channel gone, a
\* second generated message id, a write to a closed peer, and an answer to a call with
\* a text too long for decode's arrays.
THEOREM CrashesHaveCauses == SafeSpec => []CrashCauses
  <1>1. IInv => CrashCauses
    BY DEF IInv, CallInv, IdInv, CauseInv, TextTooLong, CrashCauses
  <1> QED
    BY <1>1, Invariant, PTL

\* As long as the id, the method's name and the error texts fit the arrays of decode
\* (tinypb_coder.cc:84, 99 and 125): a closure without an error has the method's
\* result, whatever their lengths and that of the result.
THEOREM SuccessIsGenuine == SafeSpec => []SuccessMeansResult
  <1>1. IInv => SuccessMeansResult
    BY DEF IInv, AnswerInv
  <1> QED
    BY <1>1, Invariant, PTL

-----------
(* RpcChannel implements RpcCall.                                          *)

LEMMA StatusOf ==
  ASSUME CallInv
  PROVE  Status = (IF ran = <<>> THEN (IF called THEN "called" ELSE "idle")
                   ELSE IF m_is_cancled THEN "timedOut" ELSE "answered")
  <1>1. ~(Len(ran) > 1)
    <2>1. Len(ran) \in Nat
      BY DEF CallInv, ChannelInv, TypeOK
    <2> QED
      BY <2>1 DEF CallInv, ChannelInv
  <1> QED
    BY <1>1 DEF Status

\* A step that leaves the closure alone, after the call was made and before its
\* answer is final, is a stutter, a Note or a Late.
LEMMA ErrorStep ==
  ASSUME CallInv, CallInv', called, called', ran' = ran, m_is_cancled' = m_is_cancled,
         read_done # "reset", m_error_code' \in Codes, response' \in Contents
  PROVE  CallImpl!Note \/ CallImpl!Late
  <1>1. Status = Status'
    BY DEF Status
  <1>2. Status \in {"called", "timedOut"}
    BY StatusOf DEF CallInv
  <1> QED
    BY <1>1, <1>2 DEF CallImpl!Note, CallImpl!Late

LEMMA StepImplements ==
  CallInv /\ CallInv' /\ [Next]_vars => [CallImpl!Next]_(CallImpl!vars)
  <1> SUFFICES ASSUME CallInv, CallInv', [Next]_vars
               PROVE  [CallImpl!Next]_(CallImpl!vars)
    OBVIOUS
  <1>0. m_error_code' \in Codes /\ response' \in Contents
    BY DEF CallInv, ChannelInv, TypeOK
  <1>1. CASE CallFails \/ CallMethod
    <2>1. ~called /\ called' /\ ran = <<>> /\ ran' = ran /\ response' = response
      BY <1>1 DEF CallFails, CallMethod, CallInv, ChannelInv, TypeOK
    <2>2. Status = "idle" /\ Status' = "called"
      BY <2>1 DEF Status
    <2> QED
      BY <1>0, <2>1, <2>2 DEF CallImpl!Next, CallImpl!Call
  <1>2. CASE OnConnect
    <2>1. /\ called /\ called' /\ ran' = ran /\ m_is_cancled' = m_is_cancled
          /\ read_done # "reset"
      BY <1>2 DEF OnConnect, CallInv, ChannelInv, TypeOK
    <2> QED
      BY <1>0, <2>1, ErrorStep DEF CallImpl!Next
  <1>3. CASE HandleAnswer /\ read_done = "set"
    <2>1. Head(result) \in Answers
      BY <1>3 DEF HandleAnswer, CallInv, ChannelInv, TypeOK
    <2>2. PICK parsed \in BOOLEAN : ReadDone(Head(result), parsed)
      BY <1>3 DEF HandleAnswer
    <2>3. /\ response' \in Contents \ {"unset"} /\ m_timer_event # "none"
          /\ m_is_cancled' = m_is_cancled
          /\ \/ read_done' = "set" /\ ran' = ran
             \/ /\ read_done' = "reset" /\ ran' # <<>>
                /\ m_error_code' = m_error_code
                /\ m_is_cancled => ran' = ran
      BY <1>3, <2>1, <2>2, StepReadDone
    <2>4. called /\ called'
      BY <1>3, <2>3 DEF HandleAnswer, CallInv, ChannelInv, TypeOK
    <2>5. CASE ran' = ran
      BY <1>0, <1>3, <2>3, <2>4, <2>5, ErrorStep DEF CallImpl!Next
    <2>6. CASE ran' # ran
      <3>1. ~m_is_cancled /\ ~m_is_cancled' /\ ran = <<>> /\ ran' # <<>>
            /\ m_error_code' = m_error_code
        BY <1>3, <2>3, <2>6 DEF CallInv, ChannelInv, TypeOK
      <3>2. Status = "called"
        BY <2>4, <3>1 DEF Status
      <3>3. Status' = "answered"
        BY <3>1 DEF Status, CallInv, ChannelInv, TypeOK
      <3> QED
        BY <2>3, <3>1, <3>2, <3>3 DEF CallImpl!Next, CallImpl!Answer
    <2> QED
      BY <2>5, <2>6
  <1>4. CASE OnTimeout
    <2>1. /\ called /\ ran = <<>> /\ m_is_cancled' /\ response' = response
          /\ m_error_code' = "ERROR_RPC_CALL_TIMEOUT" /\ ran' # <<>>
      BY <1>4 DEF OnTimeout, CallInv, ChannelInv, TypeOK
    <2>2. Status = "called"
      BY <2>1 DEF Status
    <2>3. Status' = "timedOut"
      BY <2>1 DEF Status, CallInv, ChannelInv, TypeOK
    <2> QED
      BY <2>1, <2>2, <2>3 DEF CallImpl!Next, CallImpl!TimeOut
  <1>5. ASSUME UNCHANGED <<called, ran, m_is_cancled, m_error_code, response>>
        PROVE  [CallImpl!Next]_(CallImpl!vars)
    BY <1>5 DEF Status, CallImpl!vars
  <1>6. CASE HandleAnswer /\ read_done # "set"
    <2>1. UNCHANGED <<called, ran, m_is_cancled, m_error_code, response>>
      BY <1>6 DEF HandleAnswer, controller
    <2> QED
      BY <1>5, <2>1
  <1>7. CASE OtherCall \/ MsgIdNeverReturns \/ RunLoop \/ OnWrite \/ OnWriteFails \/ OnRead
               \/ OnReadOverruns \/ OnReadClosed \/ ServerAnswers \/ PeerCloses \/ UNCHANGED vars
    <2>1. UNCHANGED <<called, ran, m_is_cancled, m_error_code, response>>
      BY <1>7 DEF OtherCall, MsgIdNeverReturns, RunLoop, OnWrite, OnWriteFails, OnRead,
                  OnReadOverruns, OnReadClosed, ServerAnswers, PeerCloses, vars, controller
    <2> QED
      BY <1>5, <2>1
  <1> QED
    BY <1>1, <1>2, <1>3, <1>4, <1>6, <1>7 DEF Next, Handlers

\* The closure runs at most once and what it finds of an answered call is final.
THEOREM ChannelIsRpcCall == SafeSpec => ImplementsRpcCall
  <1>1. Init => CallImpl!Init
    BY DEF Init, CallImpl!Init, Status
  <1>2. IInv => CallInv
    BY DEF IInv
  <1> QED
    BY <1>1, <1>2, Invariant, StepImplements, PTL
       DEF SafeSpec, ImplementsRpcCall, CallImpl!Spec
=============================================================================
