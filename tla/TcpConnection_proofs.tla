------------------------ MODULE TcpConnection_proofs ------------------------
(* TcpConnection for any buffer size and any stream of requests, whatever    *)
(* bytes they have between length and end, however the kernel cuts it up.    *)
EXTENDS TcpConnection, SequenceTheorems, TLAPS

\* What is proved of the in-buffer's operations.
B == INSTANCE TcpBuffer_proofs WITH calls <- Client, Roles <- {Client}

\* The stream's bytes.
LEMMA StreamFacts ==
  /\ Requests \in Nat /\ MaxBytes \in Nat /\ MaxBytes = Len(Stream)
  /\ \A p \in 1..MaxBytes : Stream[p] \in 0..255
  <1> DEFINE Bytes == 0..255
  <1>1. Requests \in Nat /\ Stream \in Seq(Bytes)
    BY StreamAssumption
  <1> HIDE DEF Bytes
  <1>2. Len(Stream) \in Nat /\ \A p \in 1..Len(Stream) : Stream[p] \in Bytes
    BY <1>1, ElementOfSeq, LenProperties
  <1> QED
    BY <1>1, <1>2 DEF MaxBytes, Bytes

\* The in-buffer meets what the proofs about TcpBuffer assume.
LEMMA InBufferAssumption == B!BufferAssumption
  BY ConnectionAssumption, StreamFacts
  DEF B!BufferAssumption, B!Operations

\* Four bytes are a number.
LEMMA Int32IsInt ==
  ASSUME NEW a \in 0..255, NEW b \in 0..255, NEW c \in 0..255, NEW d \in 0..255
  PROVE  Int32(a, b, c, d) \in Int
  BY SMT DEF Int32

\* Those of one above zero begin with no more than 127.
LEMMA Int32Facts ==
  ASSUME NEW a \in 0..255, NEW b \in 0..255, NEW c \in 0..255, NEW d \in 0..255
  PROVE  /\ Int32(a, b, c, d) > 0 => a <= 127
         /\ a <= 127 => Int32(a, b, c, d) = 16777216 * a + 65536 * b + 256 * c + d
  BY SMT DEF Int32

\* Requests begin one after the other.
LEMMA FirstRises ==
  ASSUME NEW k \in 1..Requests + 1, NEW l \in 1..Requests + 1, k < l
  PROVE  /\ First[k] \in 1 .. MaxBytes + 1 /\ First[l] \in 1 .. MaxBytes + 1
         /\ First[k] < First[l]
         /\ k + 1 \in 1..Requests + 1 /\ First[k + 1] \in 1 .. MaxBytes + 1
         /\ First[k + 1] <= First[l]
  <1>0. Requests \in Nat /\ MaxBytes \in Nat
    BY StreamFacts
  <1>1. \A m \in 1..Requests + 1 : First[m] \in Nat \ {0}
    BY StreamAssumption
  <1>2. \A m, n \in 1..Requests + 1 : m < n => First[m] < First[n]
    BY StreamAssumption
  <1>3. First[Requests + 1] = MaxBytes + 1
    BY StreamAssumption DEF MaxBytes
  <1>4. \A m \in 1..Requests + 1 : First[m] \in 1 .. MaxBytes + 1
    <2> TAKE m \in 1..Requests + 1
    <2>1. CASE m = Requests + 1
      BY <1>0, <1>3, <2>1
    <2>2. CASE m < Requests + 1
      <3>1. Requests + 1 \in 1..Requests + 1
        BY <1>0
      <3>2. First[m] < First[Requests + 1]
        BY <1>2, <2>2, <3>1
      <3> QED
        BY <1>0, <1>1, <1>3, <3>2
    <2> QED
      BY <1>0, <2>1, <2>2
  <1>5. k + 1 \in 1..Requests + 1 /\ (k + 1 = l \/ k + 1 < l)
    BY <1>0
  <1> QED
    BY <1>0, <1>2, <1>4, <1>5

\* A request is a frame.
LEMMA FrameFacts ==
  ASSUME NEW k \in 1..Requests
  PROVE  /\ k + 1 \in 1..Requests + 1 /\ k \in 1..Requests + 1
         /\ First[k] \in 1..MaxBytes /\ First[k + 1] \in 1 .. MaxBytes + 1
         /\ FrameLen(k) \in Nat /\ FrameLen(k) >= 6
         /\ First[k + 1] = First[k] + FrameLen(k)
         /\ Stream[First[k]] = 2
         /\ Int32(Stream[First[k] + 1], Stream[First[k] + 2],
                  Stream[First[k] + 3], Stream[First[k] + 4]) = FrameLen(k)
         /\ Stream[First[k] + FrameLen(k) - 1] = 3
  <1>0. Requests \in Nat /\ MaxBytes \in Nat
    BY StreamFacts
  <1>1. k + 1 \in 1..Requests + 1 /\ k \in 1..Requests + 1 /\ k < k + 1
    BY <1>0
  <1>2. /\ First[k] \in 1 .. MaxBytes + 1 /\ First[k + 1] \in 1 .. MaxBytes + 1
        /\ First[k] < First[k + 1]
    BY <1>1, FirstRises
  <1>3. IsFrame(k)
    BY StreamAssumption
  <1>4. /\ First[k] \in 1..MaxBytes
        /\ FrameLen(k) \in Nat /\ FrameLen(k) >= 6
        /\ First[k + 1] = First[k] + FrameLen(k)
    BY <1>0, <1>2, <1>3 DEF FrameLen, IsFrame
  <1> QED
    BY <1>1, <1>2, <1>3, <1>4 DEF IsFrame, PB_START, PB_END

\* The operations of `In' are those of the module the proofs are about.
LEMMA SameOperations ==
  /\ \A n : In!moveWriteIndex(n) <=> B!moveWriteIndex(n)
  /\ \A n : In!moveReadIndex(n) <=> B!moveReadIndex(n)
  /\ In!writeAble = B!writeAble
  /\ In!Size = B!Size
  /\ In!Init <=> B!Init
  /\ In!TypeOK <=> B!TypeOK
  BY DEF In!moveWriteIndex, B!moveWriteIndex, In!moveReadIndex, B!moveReadIndex,
         In!readAble, B!readAble, In!Copied, B!Copied, In!adjustBuffer, B!adjustBuffer, In!Zeros, B!Zeros,
         In!writeAble, B!writeAble, In!Size, B!Size, In!Init, B!Init, In!TypeOK, B!TypeOK

\* The in-buffer, and what the client has sent.
InBufferInv ==
  /\ B!BufferInv /\ B!UnreadRises /\ B!InBufferNeverFull
  /\ sent \in 0..MaxBytes
  /\ received <= sent

\* What is known of the in-buffer, in the names of this module.
LEMMA InBufferFacts ==
  ASSUME InBufferInv
  PROVE  /\ m_buffer \in Seq(0..MaxBytes) /\ Len(m_buffer) \in Nat
         /\ m_read_index \in Nat /\ m_write_index \in Nat
         /\ received \in Nat /\ consumed \in Nat
         /\ zeroed \in BOOLEAN /\ dropped \in BOOLEAN
         /\ m_read_index <= m_write_index /\ m_write_index < Len(m_buffer)
         /\ received <= MaxBytes
         /\ \A c \in 1..Len(m_buffer) : m_buffer[c] \in 0..MaxBytes
         /\ \A c \in 1..m_write_index : m_buffer[c] <= received
         /\ \A c, d \in 1..m_write_index :
              c < d /\ m_buffer[c] # 0 /\ m_buffer[d] # 0 => m_buffer[c] < m_buffer[d]
  <1>1. B!Shape
    BY DEF InBufferInv, B!BufferInv
  <1>2. m_write_index < Len(m_buffer)
    BY ConnectionAssumption DEF InBufferInv, B!InBufferNeverFull, B!Size
  <1>3. B!Rising(m_buffer, m_write_index, received)
    BY DEF InBufferInv, B!UnreadRises
  <1> QED
    BY <1>1, <1>2, <1>3, StreamFacts DEF B!Shape, B!Bytes, B!Rising

\* And of its indices and sizes alone.
LEMMA Indices ==
  ASSUME InBufferInv
  PROVE  /\ Len(m_buffer) \in Nat /\ m_read_index \in Nat /\ m_write_index \in Nat
         /\ m_read_index <= m_write_index /\ m_write_index < Len(m_buffer)
         /\ received \in Nat /\ consumed \in Nat
         /\ zeroed \in BOOLEAN /\ dropped \in BOOLEAN
  BY InBufferFacts

-----------------------------------------------------------------------------
(* The connection's steps are steps of its in-buffer.                      *)

\* decode sees bytes.
LEMMA ByteIsByte ==
  ASSUME InBufferInv, NEW i \in Int
  PROVE  Byte(i) \in 0..255
  <1>1. CASE i < 0 \/ i >= Len(m_buffer) \/ m_buffer[i + 1] = 0
    BY <1>1 DEF Byte, In!Size
  <1>2. CASE ~(i < 0 \/ i >= Len(m_buffer) \/ m_buffer[i + 1] = 0)
    <2>1. i + 1 \in 1..Len(m_buffer)
      BY <1>2, InBufferFacts
    <2>2. m_buffer[i + 1] \in 1..MaxBytes
      <3>1. m_buffer[i + 1] \in 0..MaxBytes
        BY <2>1, InBufferFacts, Zenon
      <3>2. MaxBytes \in Nat /\ m_buffer[i + 1] # 0
        BY <1>2, StreamFacts
      <3> QED
        BY <3>1, <3>2
    <2>3. Byte(i) = Stream[m_buffer[i + 1]]
      BY <1>2 DEF Byte, In!Size
    <2> DEFINE p == m_buffer[i + 1]
    <2>4. p \in 1..MaxBytes
      BY <2>2
    <2> HIDE DEF p
    <2>5. Stream[p] \in 0..255
      BY <2>4, StreamFacts
    <2> QED
      BY <2>3, <2>5 DEF p
  <1> QED
    BY <1>1, <1>2

\* So a length is a number, which may be below zero.
LEMMA PkLenIsInt ==
  ASSUME InBufferInv, NEW i \in Nat
  PROVE  PkLen(i) \in Int
  <1>1. /\ Byte(i + 1) \in 0..255 /\ Byte(i + 2) \in 0..255
        /\ Byte(i + 3) \in 0..255 /\ Byte(i + 4) \in 0..255
    BY ByteIsByte
  <1> QED
    BY <1>1, Int32IsInt, Zenon DEF PkLen

\* What decode does when it takes a frame.
LEMMA DecodeStep ==
  InBufferInv /\ Decode
  => (\E i \in Unread :
        /\ FirstFrame(i) /\ i \in Nat /\ PkLen(i) \in Int /\ ~Endless(i)
        /\ In!moveReadIndex(PkLen(i))
        /\ \E m \in Messages(i) : result' = result \o m
        /\ misled' = (misled \/ \A k \in 1..Requests : m_buffer[i + 1] # First[k])
        /\ back' = (back \/ PkLen(i) < 0))
  <1> SUFFICES ASSUME InBufferInv, Decode
               PROVE  \E i \in Unread :
                 /\ FirstFrame(i) /\ i \in Nat /\ PkLen(i) \in Int /\ ~Endless(i)
                 /\ In!moveReadIndex(PkLen(i))
                 /\ \E m \in Messages(i) : result' = result \o m
                 /\ misled' = (misled \/ \A k \in 1..Requests : m_buffer[i + 1] # First[k])
                 /\ back' = (back \/ PkLen(i) < 0)
    OBVIOUS
  <1>1. PICK i \in Unread :
          /\ FirstFrame(i) /\ ~Endless(i)
          /\ In!moveReadIndex(PkLen(i))
          /\ \E m \in Messages(i) : result' = result \o m
          /\ misled' = (misled \/ \A k \in 1..Requests : m_buffer[i + 1] # First[k])
          /\ back' = (back \/ PkLen(i) < 0)
    BY Zenon DEF Decode
  <1>2. i \in Nat
    BY Indices DEF Unread
  <1>3. PkLen(i) \in Int
    BY <1>2, PkLenIsInt
  <1> QED
    BY <1>1, <1>2, <1>3, Zenon

\* What a step of the connection does to its in-buffer.
LEMMA InBufferSteps ==
  ASSUME InBufferInv, [Next]_vars
  PROVE  /\ [B!Next]_(B!vars)
         /\ received' <= sent' /\ sent' \in 0..MaxBytes
  <1>0. /\ sent \in 0..MaxBytes /\ MaxBytes \in Nat /\ received \in Nat
        /\ received <= sent /\ m_write_index \in Nat /\ Len(m_buffer) \in Nat
        /\ m_read_index \in Nat /\ m_read_index <= m_write_index
        /\ m_write_index < Len(m_buffer)
    BY Indices, StreamFacts DEF InBufferInv
  <1>1. ASSUME UNCHANGED in_buffer PROVE UNCHANGED B!vars /\ received' = received
    BY <1>1 DEF in_buffer, B!vars
  <1>2. CASE Read
    <2> DEFINE n == IF sent - received < In!writeAble THEN sent - received ELSE In!writeAble
    <2>1. In!moveWriteIndex(n) /\ sent' = sent
      BY <1>2 DEF Read
    <2>2. n \in 1..In!writeAble /\ received' = received + n
      BY <2>1 DEF In!moveWriteIndex
    <2>3. In!writeAble \in Int /\ n \in 1..MaxBytes /\ received + n <= sent
      BY <1>0, <2>2 DEF In!writeAble, In!Size
    <2>4. B!moveWriteIndex(n)
      BY <2>1, SameOperations
    <2> HIDE DEF n
    <2>5. B!Next
      BY <2>3, <2>4 DEF B!Next
    <2> QED
      BY <1>0, <2>1, <2>2, <2>3, <2>5
  <1>3. CASE Decode
    <2>0. sent' = sent
      BY <1>3 DEF Decode
    <2>1. PICK n \in Int : In!moveReadIndex(n)
      BY <1>3, DecodeStep
    <2>2. n <= m_write_index - m_read_index
      BY <2>1 DEF In!moveReadIndex, In!readAble
    <2>3. CASE m_read_index + n \in 0 .. In!Size - 1
      <3>1. n \in -B!Size .. B!readAble
        BY <1>0, <2>2, <2>3 DEF B!Size, B!readAble, In!Size
      <3>2. B!moveReadIndex(n)
        BY <2>1, SameOperations
      <3>3. B!Next
        BY <3>1, <3>2 DEF B!Next
      <3>4. received' = received
        BY <2>1, <2>3 DEF In!moveReadIndex
      <3> QED
        BY <1>0, <2>0, <3>3, <3>4
    <2>4. CASE m_read_index + n \notin 0 .. In!Size - 1
      <3>1. UNCHANGED in_buffer
        BY <2>1, <2>4 DEF In!moveReadIndex, in_buffer
      <3> QED
        BY <1>0, <1>1, <2>0, <3>1
    <2> QED
      BY <2>3, <2>4
  <1>4. CASE ClientSends
    <2>1. sent' \in sent + 1 .. MaxBytes /\ UNCHANGED in_buffer
      BY <1>4 DEF ClientSends
    <2> QED
      BY <1>0, <1>1, <2>1
  <1>5. CASE UNCHANGED <<in_buffer, sent>>
    BY <1>0, <1>1, <1>5
  <1>6. CASE setState \/ listenRead \/ ReadEnds \/ ReadCloses \/ DecodeLoops \/ DecodeStrays
             \/ Excute \/ WriteAll \/ WriteAgain \/ WriteFails \/ PeerCloses
             \/ UNCHANGED vars
    <2>1. UNCHANGED <<in_buffer, sent>>
      BY <1>6 DEF setState, listenRead, ReadEnds, ReadCloses, DecodeLoops, DecodeStrays,
                  Excute, WriteAll, WriteAgain, WriteFails, PeerCloses, vars
    <2> QED
      BY <1>5, <2>1
  <1> QED
    BY <1>2, <1>3, <1>4, <1>6 DEF Next

\* What the in-buffer's own theorems say stays true of it.
LEMMA InBufferStep == InBufferInv /\ [Next]_vars => InBufferInv'
  <1> SUFFICES ASSUME InBufferInv, [Next]_vars PROVE InBufferInv'
    OBVIOUS
  <1>1. /\ [B!Next]_(B!vars)
        /\ received' <= sent' /\ sent' \in 0..MaxBytes
    BY InBufferSteps
  <1>2. B!BufferInv'
    BY <1>1, InBufferAssumption, B!BufferStep DEF InBufferInv
  <1>3. B!UnreadRises'
    BY <1>1, InBufferAssumption, B!RisingStep DEF InBufferInv
  <1>4. B!InBufferNeverFull'
    BY <1>1, InBufferAssumption, B!NotFullStep DEF InBufferInv
  <1> QED
    BY <1>1, <1>2, <1>3, <1>4 DEF InBufferInv

\* It is true of the new in-buffer.
LEMMA InBufferInit == Init => InBufferInv
  <1> SUFFICES ASSUME Init PROVE InBufferInv
    OBVIOUS
  <1>1. B!Init
    BY SameOperations DEF Init
  <1>2. B!BufferInv /\ B!UnreadRises /\ B!InBufferNeverFull
    BY <1>1, InBufferAssumption, B!BufferInit, B!RisingInit, B!NotFullInit
  <1>3. sent = 0 /\ received = 0
    BY <1>1 DEF Init, B!Init
  <1> QED
    BY <1>2, <1>3, StreamFacts DEF InBufferInv

\* A connection uses its in-buffer as module TcpBuffer describes it: what is
\* proved of a TcpBuffer holds of it.
THEOREM InBufferIsTcpBuffer == Spec => B!Spec
  <1>1. Init => B!Init
    BY SameOperations DEF Init
  <1>2. InBufferInv /\ [Next]_vars => [B!Next]_(B!vars)
    BY InBufferSteps
  <1> QED
    BY <1>1, <1>2, InBufferInit, InBufferStep, PTL DEF Spec, B!Spec

-----------------------------------------------------------------------------
(* Types and the connection's states.                                      *)

\* decode's messages are requests, garbled, or none.
LEMMA MessageTypes ==
  ASSUME NEW i, NEW m \in Messages(i)
  PROVE  /\ m \in Seq(0..Requests)
         /\ \/ RequestAt(i) = {} /\ (m = <<>> \/ m = <<0>>)
            \/ \E k \in RequestAt(i) : m = <<k>>
  <1>1. CASE RequestAt(i) # {}
    <2>1. PICK k \in RequestAt(i) : m = <<k>>
      BY <1>1 DEF Messages
    <2>2. k \in 1..Requests
      BY <2>1 DEF RequestAt
    <2>3. k \in 0..Requests
      BY <2>2, StreamFacts
    <2> QED
      BY <2>1, <2>3
  <1>2. CASE RequestAt(i) = {}
    <2>1. m = <<>> \/ m = <<0>>
      BY <1>2 DEF Messages
    <2>2. 0 \in 0..Requests
      BY StreamFacts
    <2>3. <<>> \in Seq(0..Requests) /\ <<0>> \in Seq(0..Requests)
      BY <2>2
    <2> QED
      BY <1>2, <2>1, <2>3
  <1> QED
    BY <1>1, <1>2

StateTypes ==
  /\ peer_closed \in BOOLEAN
  /\ m_state \in {"NotConnected", "Connected", "Closed"}
  /\ listening \subseteq {"read", "write"}
  /\ pc \in {"idle", "reading", "decoding", "stuck", "dead"}
  /\ result \in Seq(0..Requests)
  /\ answers \in Seq(0..Requests)
  /\ writes \in Seq(Writes)
  /\ misled \in BOOLEAN
  /\ back \in BOOLEAN

\* The parts of ConnectionInv about the connection's states.  onRead reads again
\* only after a read that moveWriteIndex refused.
StateInv ==
  /\ pc \in {"reading", "decoding"} => m_state = "Connected" /\ "read" \in listening
  /\ pc = "reading" => dropped
  /\ result # <<>> => pc \in {"decoding", "stuck", "dead"}
  /\ m_state = "Closed" => listening = {} /\ peer_closed
  /\ m_state = "NotConnected" => received = 0 /\ answers = <<>>

\* Partial writes stay within the out-buffer.
LEMMA PartlyWithin ==
  ASSUME answers \in Seq(0..Requests), NEW part \in Partly
  PROVE  /\ part \in Seq(Writes)
         /\ \A i \in DOMAIN part : part[i].upto <= Len(answers)
  <1>1. CASE part = <<>>
    BY <1>1
  <1>2. ASSUME NEW n \in 1..Len(answers), part = <<[upto |-> n, whole |-> FALSE]>>
        PROVE  /\ part \in Seq(Writes)
               /\ \A i \in DOMAIN part : part[i].upto <= Len(answers)
    BY <1>2 DEF Writes
  <1> QED
    BY <1>1, <1>2 DEF Partly

\* Every step keeps the types.
LEMMA StateTypesStep ==
  ASSUME InBufferInv, StateTypes, [Next]_vars
  PROVE  StateTypes'
  <1> USE DEF StateTypes, decoded
  <1>1. CASE setState \/ listenRead \/ ReadEnds \/ ReadCloses \/ PeerCloses \/ WriteFails
             \/ DecodeLoops \/ DecodeStrays
    BY <1>1 DEF setState, listenRead, ReadEnds, ReadCloses, PeerCloses, WriteFails,
                DecodeLoops, DecodeStrays
  <1>2. CASE Read
    BY <1>2 DEF Read
  <1>3. CASE Decode
    <2>1. PICK i \in Unread :
            /\ \E m \in Messages(i) : result' = result \o m
            /\ misled' = (misled \/ \A k \in 1..Requests : m_buffer[i + 1] # First[k])
            /\ back' = (back \/ PkLen(i) < 0)
      BY <1>3, DecodeStep, Zenon
    <2>2. PICK m \in Messages(i) : result' = result \o m
      BY <2>1
    <2>3. m \in Seq(0..Requests)
      BY MessageTypes
    <2>4. result' \in Seq(0..Requests)
      BY <2>2, <2>3
    <2>5. misled' \in BOOLEAN /\ back' \in BOOLEAN
      BY <2>1, Zenon
    <2>6. UNCHANGED <<peer_closed, m_state, listening, pc, answers, writes>>
      BY <1>3 DEF Decode
    <2> QED
      BY <2>4, <2>5, <2>6
  <1>4. CASE Excute
    BY <1>4 DEF Excute
  <1>5. ASSUME NEW part \in Partly PROVE part \in Seq(Writes)
    BY PartlyWithin
  <1>6. CASE WriteAll
    <2>1. CASE answers = <<>>
      BY <1>6, <2>1 DEF WriteAll
    <2>2. CASE answers # <<>>
      <3>1. PICK part \in Partly :
              writes' = writes \o part \o <<[upto |-> Len(answers), whole |-> TRUE]>>
        BY <1>6, <2>2 DEF WriteAll
      <3>2. <<[upto |-> Len(answers), whole |-> TRUE]>> \in Seq(Writes)
        BY DEF Writes
      <3>3. writes' \in Seq(Writes)
        BY <1>5, <3>1, <3>2
      <3> QED
        BY <1>6, <3>3 DEF WriteAll
    <2> QED
      BY <2>1, <2>2
  <1>7. CASE WriteAgain
    <2>1. writes' \in Seq(Writes)
      BY <1>5, <1>7 DEF WriteAgain
    <2> QED
      BY <1>7, <2>1 DEF WriteAgain
  <1>8. CASE ClientSends \/ UNCHANGED vars
    BY <1>8 DEF ClientSends, vars
  <1> QED
    BY <1>1, <1>2, <1>3, <1>4, <1>6, <1>7, <1>8 DEF Next

\* Every step keeps the connection's states in agreement.
LEMMA StateStep ==
  ASSUME InBufferInv, StateTypes, StateInv, [Next]_vars
  PROVE  StateInv'
  <1> USE DEF StateInv, decoded
  <1>1. CASE setState \/ listenRead \/ ReadEnds \/ ReadCloses \/ PeerCloses \/ WriteFails
    BY <1>1 DEF setState, listenRead, ReadEnds, ReadCloses, PeerCloses, WriteFails,
                in_buffer, OnRead, OnWrite
  <1>2. CASE Read
    <2> DEFINE n == IF sent - received < In!writeAble THEN sent - received ELSE In!writeAble
    <2>1. /\ In!moveWriteIndex(n)
          /\ pc' = IF n = In!writeAble THEN "reading" ELSE "decoding"
          /\ OnRead /\ UNCHANGED <<m_state, listening, result, answers, peer_closed>>
      BY <1>2 DEF Read
    <2>2. n = In!writeAble => dropped'
      <3>1. n = In!writeAble => m_write_index + n >= In!Size
        BY InBufferFacts DEF In!writeAble, In!Size
      <3> QED
        BY <2>1, <3>1 DEF In!moveWriteIndex
    <2> HIDE DEF n
    <2> QED
      BY <2>1, <2>2 DEF OnRead, StateTypes
  <1>3. CASE Decode
    <2>1. UNCHANGED <<received, dropped>>
      BY <1>3 DEF Decode, In!moveReadIndex
    <2> QED
      BY <1>3, <2>1 DEF Decode
  <1>4. CASE Excute \/ DecodeLoops \/ DecodeStrays
    BY <1>4 DEF Excute, DecodeLoops, DecodeStrays, in_buffer
  <1>5. CASE WriteAll
    BY <1>5 DEF WriteAll, in_buffer, OnWrite
  <1>6. CASE WriteAgain
    BY <1>6 DEF WriteAgain, in_buffer, OnWrite
  <1>7. CASE ClientSends \/ UNCHANGED vars
    BY <1>7 DEF ClientSends, vars, in_buffer
  <1> QED
    BY <1>1, <1>2, <1>3, <1>4, <1>5, <1>6, <1>7 DEF Next

\* No write goes past the end of the out-buffer, and one that was the last
\* before the connection stopped listening took all of it.
WritesInv ==
  /\ \A i \in DOMAIN writes : writes[i].upto <= Len(answers)
  /\ m_state = "Connected" /\ "write" \notin listening /\ answers # <<>>
     => (writes # <<>> /\ writes[Len(writes)] = [upto |-> Len(answers), whole |-> TRUE])

\* Only answers added to the out-buffer make a write less than whole, and they
\* make the connection listen again.
LEMMA WritesStep ==
  ASSUME StateTypes, StateInv, WritesInv, [Next]_vars
  PROVE  WritesInv'
  <1>0. /\ answers \in Seq(0..Requests) /\ writes \in Seq(Writes)
        /\ Len(answers) \in Nat /\ result \in Seq(0..Requests)
    BY DEF StateTypes
  <1>1. CASE setState
    <2>1. answers' = <<>> /\ writes' = writes /\ answers' = answers
      BY <1>1 DEF setState, StateInv
    <2> QED
      BY <2>1 DEF WritesInv
  <1>2. CASE listenRead \/ ReadCloses \/ Read \/ ReadEnds \/ Decode \/ DecodeLoops
             \/ DecodeStrays \/ WriteFails
             \/ ClientSends \/ PeerCloses \/ UNCHANGED vars
    <2>1. /\ UNCHANGED <<answers, writes>>
          /\ m_state' = "Connected" => (m_state = "Connected"
               /\ ("write" \notin listening' => "write" \notin listening))
      BY <1>2 DEF listenRead, ReadCloses, Read, ReadEnds, Decode, DecodeLoops,
                  DecodeStrays, WriteFails, ClientSends, PeerCloses, vars
    <2> QED
      BY <2>1 DEF WritesInv
  <1>3. CASE Excute
    <2>1. /\ answers' = answers \o result /\ writes' = writes
          /\ "write" \in listening'
      BY <1>3 DEF Excute
    <2>2. Len(answers') \in Nat /\ Len(answers) <= Len(answers')
      BY <1>0, <2>1
    <2>3. \A i \in DOMAIN writes : writes[i].upto \in Nat
      <3> TAKE i \in DOMAIN writes
      <3>1. writes[i] \in Writes
        BY <1>0
      <3> QED
        BY <3>1 DEF Writes
    <2>4. \A i \in DOMAIN writes : writes[i].upto <= Len(answers)
      BY DEF WritesInv
    <2>5. \A i \in DOMAIN writes : writes[i].upto <= Len(answers')
      BY <1>0, <2>2, <2>3, <2>4
    <2>6. \A i \in DOMAIN writes' : writes'[i].upto <= Len(answers')
      BY <2>1, <2>5
    <2> QED
      BY <2>1, <2>6 DEF WritesInv
  <1>4. CASE WriteAll
    <2>1. CASE answers = <<>>
      BY <1>4, <2>1 DEF WriteAll, WritesInv
    <2>2. CASE answers # <<>>
      <3> DEFINE last == [upto |-> Len(answers), whole |-> TRUE]
      <3>1. /\ answers' = answers
            /\ \E part \in Partly : writes' = writes \o part \o <<last>>
        BY <1>4, <2>2 DEF WriteAll
      <3>2. PICK part \in Partly : writes' = writes \o part \o <<last>>
        BY <3>1
      <3>3. /\ part \in Seq(Writes) /\ last \in Writes
            /\ \A i \in DOMAIN part : part[i].upto <= Len(answers)
        BY <1>0, PartlyWithin DEF Writes
      <3>4. last.upto = Len(answers)
        OBVIOUS
      <3> HIDE DEF last
      <3>5. /\ writes' # <<>> /\ writes'[Len(writes')] = last
        BY <1>0, <3>2, <3>3
      <3>6. \A i \in DOMAIN writes' : writes'[i].upto <= Len(answers)
        BY <1>0, <3>2, <3>3, <3>4 DEF WritesInv
      <3> QED
        BY <3>1, <3>5, <3>6 DEF WritesInv, last
    <2> QED
      BY <2>1, <2>2
  <1>5. CASE WriteAgain
    <2>1. /\ answers' = answers /\ listening' = listening /\ "write" \in listening
          /\ \E part \in Partly : writes' = writes \o part
      BY <1>5 DEF WriteAgain, OnWrite
    <2>2. PICK part \in Partly : writes' = writes \o part
      BY <2>1
    <2>3. /\ part \in Seq(Writes)
          /\ \A i \in DOMAIN part : part[i].upto <= Len(answers)
      BY <1>0, PartlyWithin
    <2>4. \A i \in DOMAIN writes' : writes'[i].upto <= Len(answers)
      BY <1>0, <2>2, <2>3 DEF WritesInv
    <2> QED
      BY <2>1, <2>4 DEF WritesInv
  <1> QED
    BY <1>1, <1>2, <1>3, <1>4, <1>5 DEF Next

-----------------------------------------------------------------------------
\* The inductive invariant: in-buffer, types, states and writes.
LifeInv == InBufferInv /\ StateTypes /\ StateInv /\ WritesInv

\* It is true of a new connection.
LEMMA LifeInit == Init => LifeInv
  <1> SUFFICES ASSUME Init PROVE LifeInv
    OBVIOUS
  <1>1. InBufferInv
    BY InBufferInit
  <1>2. In!Init
    BY DEF Init
  <1>3. received = 0 /\ dropped = FALSE
    BY <1>2 DEF In!Init
  <1>4. StateTypes
    <2>1. <<>> \in Seq(0..Requests) /\ <<>> \in Seq(Writes)
      OBVIOUS
    <2> QED
      BY <2>1 DEF Init, StateTypes
  <1>5. StateInv /\ WritesInv
    BY <1>3 DEF Init, StateInv, WritesInv
  <1> QED
    BY <1>1, <1>4, <1>5 DEF LifeInv

\* Every step keeps it true.
LEMMA LifeStep == LifeInv /\ [Next]_vars => LifeInv'
  <1> SUFFICES ASSUME LifeInv, [Next]_vars PROVE LifeInv'
    OBVIOUS
  <1>1. InBufferInv'
    BY InBufferStep DEF LifeInv
  <1>2. StateTypes'
    BY StateTypesStep DEF LifeInv
  <1>3. StateInv'
    BY StateStep DEF LifeInv
  <1>4. WritesInv'
    BY WritesStep DEF LifeInv
  <1> QED
    BY <1>1, <1>2, <1>3, <1>4 DEF LifeInv

\* The parts of a connection agree: onRead, excute and onWrite leave messages,
\* answers and writes consistent with the connection's state and its handlers.
THEOREM Typing == Spec => []ConnectionInv
  <1>1. LifeInv => ConnectionInv
    <2> SUFFICES ASSUME LifeInv PROVE ConnectionInv
      OBVIOUS
    <2>1. In!TypeOK
      BY SameOperations, InBufferAssumption, B!BufferInvMeans DEF LifeInv, InBufferInv
    <2>2. TypeOK
      BY <2>1 DEF LifeInv, StateTypes, InBufferInv, TypeOK
    <2> QED
      BY <2>2 DEF LifeInv, StateInv, WritesInv, InBufferInv, ConnectionInv
  <1> QED
    BY <1>1, LifeInit, LifeStep, PTL DEF Spec

\* onWrite stops listening for writability only after a write of the whole
\* out-buffer, and excute listens again with every answer it adds.
THEOREM WholeOutBufferWritten == Spec => []AllWrittenWhenDone
  <1>1. LifeInv => AllWrittenWhenDone
    BY DEF LifeInv, WritesInv, AllWrittenWhenDone
  <1> QED
    BY <1>1, LifeInit, LifeStep, PTL DEF Spec

-----------------------------------------------------------------------------
(* What decode makes of the in-buffer.                                     *)

\* Where a request begins and how long it is.
LEMMA FirstLen ==
  ASSUME NEW k \in 1..Requests
  PROVE  /\ First[k] \in Nat /\ First[k] >= 1 /\ First[k + 1] \in Nat
         /\ FrameLen(k) \in Nat /\ FrameLen(k) >= 6
         /\ First[k + 1] = First[k] + FrameLen(k)
  <1>1. MaxBytes \in Nat
    BY StreamFacts
  <1>2. /\ First[k] \in 1..MaxBytes /\ First[k + 1] \in 1 .. MaxBytes + 1
        /\ FrameLen(k) \in Nat /\ FrameLen(k) >= 6
        /\ First[k + 1] = First[k] + FrameLen(k)
    BY FrameFacts
  <1> QED
    BY <1>1, <1>2

\* A byte of the stream, at index i.
LEMMA ByteAt ==
  ASSUME InBufferInv, NEW i \in Nat, i < Len(m_buffer), m_buffer[i + 1] # 0
  PROVE  Byte(i) = Stream[m_buffer[i + 1]]
  <1>1. ~(i < 0 \/ i >= In!Size)
    BY Indices DEF In!Size
  <1> QED
    BY <1>1 DEF Byte

\* All of request k at index i is a frame of its length, and a message.
LEMMA WholeRequest ==
  ASSUME InBufferInv, NEW i \in Nat, NEW k \in 1..Requests,
         i + FrameLen(k) <= m_write_index,
         \A q \in 0 .. FrameLen(k) - 1 : m_buffer[i + 1 + q] = First[k] + q
  PROVE  /\ PkLen(i) = FrameLen(k) /\ StartsFrame(i)
         /\ k \in RequestAt(i) /\ Messages(i) = {<<k>>}
  <1> DEFINE n == FrameLen(k)  f == First[k]
  <1>0. /\ m_write_index \in Nat /\ Len(m_buffer) \in Nat
        /\ m_write_index < Len(m_buffer)
    BY Indices
  <1>f. /\ n \in Nat /\ n >= 6 /\ f \in Nat /\ f >= 1
        /\ Stream[f] = 2 /\ Stream[f + n - 1] = 3
        /\ Int32(Stream[f + 1], Stream[f + 2], Stream[f + 3], Stream[f + 4]) = n
    BY FrameFacts, StreamFacts
  <1>g. \A q \in 0 .. n - 1 : m_buffer[i + 1 + q] = f + q
    OBVIOUS
  <1>h. i + n <= m_write_index
    OBVIOUS
  <1> HIDE DEF n, f
  <1>1. ASSUME NEW q \in 0 .. n - 1 PROVE Byte(i + q) = Stream[f + q]
    <2>1. i + q \in Nat /\ i + q < Len(m_buffer) /\ (i + q) + 1 = i + 1 + q
      BY <1>0, <1>f, <1>h
    <2>2. m_buffer[i + 1 + q] = f + q
      BY <1>g
    <2>3. f + q # 0
      BY <1>f
    <2> QED
      BY <2>1, <2>2, <2>3, ByteAt
  <1>2. /\ Byte(i) = 2 /\ Byte(i + n - 1) = 3
        /\ Byte(i + 1) = Stream[f + 1] /\ Byte(i + 2) = Stream[f + 2]
        /\ Byte(i + 3) = Stream[f + 3] /\ Byte(i + 4) = Stream[f + 4]
    <2>1. /\ 0 \in 0 .. n - 1 /\ n - 1 \in 0 .. n - 1 /\ i + 0 = i /\ f + 0 = f
          /\ i + (n - 1) = i + n - 1 /\ f + (n - 1) = f + n - 1
      BY <1>f
    <2>2. Byte(i) = 2 /\ Byte(i + n - 1) = 3
      BY <1>1, <1>f, <2>1
    <2>3. \A q \in 1..4 : q \in 0 .. n - 1
      BY <1>f
    <2> QED
      BY <1>1, <2>2, <2>3
  <1>3. PkLen(i) = n
    BY <1>2, <1>f DEF PkLen
  <1>4. StartsFrame(i)
    <2>1. i + 1 < m_write_index /\ n \in -i .. m_write_index - i
      BY <1>0, <1>f, <1>h
    <2> QED
      BY <1>2, <1>3, <2>1 DEF StartsFrame, Starts, PB_START, PB_END
  <1>5. m_buffer[i + 1] = f
    <2>1. 0 \in 0 .. n - 1 /\ i + 1 + 0 = i + 1 /\ f + 0 = f
      BY <1>f
    <2> QED
      BY <1>g, <2>1
  <1>6. k \in RequestAt(i)
    BY <1>5, <1>g, <1>h DEF RequestAt, n, f
  <1>7. ASSUME NEW l \in RequestAt(i) PROVE l = k
    <2>1. l \in 1..Requests /\ First[l] = First[k]
      BY <1>5 DEF RequestAt, f
    <2>2. l \in 1..Requests + 1 /\ k \in 1..Requests + 1 /\ First[k] \in Int
      BY <2>1, FrameFacts, StreamFacts
    <2>3. ~(l < k) /\ ~(k < l)
      BY <2>1, <2>2, FirstRises
    <2> QED
      BY <2>1, <2>3, StreamFacts
  <1>8. Messages(i) = {<<k>>}
    BY <1>6, <1>7 DEF Messages
  <1> QED
    BY <1>3, <1>4, <1>6, <1>8 DEF n

\* Such a message is all of a request.
LEMMA MessageIsRequest ==
  ASSUME InBufferInv, NEW i \in Nat, NEW k \in RequestAt(i)
  PROVE  /\ k \in 1..Requests /\ m_buffer[i + 1] = First[k]
         /\ i + FrameLen(k) <= m_write_index
         /\ \A q \in 0 .. FrameLen(k) - 1 : m_buffer[i + 1 + q] = First[k] + q
         /\ PkLen(i) = FrameLen(k) /\ StartsFrame(i) /\ Messages(i) = {<<k>>}
  <1>1. /\ k \in 1..Requests /\ m_buffer[i + 1] = First[k]
        /\ i + FrameLen(k) <= m_write_index
        /\ \A q \in 0 .. FrameLen(k) - 1 : m_buffer[i + 1 + q] = First[k] + q
    BY DEF RequestAt
  <1> QED
    BY <1>1, WholeRequest

\* The cells a step of the in-buffer may have zeroed, all of them.
Cleared ==
  /\ Len(m_buffer') = Len(m_buffer)
  /\ m_read_index' = 0 /\ m_write_index' \in Nat /\ m_write_index' < Len(m_buffer)
  /\ \A c \in 1..Len(m_buffer) : m_buffer'[c] = 0

\* n bytes read are appended to those that were unread.
Appended(n) ==
  /\ Len(m_buffer') = Len(m_buffer)
  /\ m_read_index' = m_read_index /\ m_write_index' = m_write_index + n
  /\ m_write_index + n < Len(m_buffer)
  /\ \A c \in 1..Len(m_buffer) :
       m_buffer'[c] = IF c \in m_write_index + 1 .. m_write_index + n
                      THEN received + (c - m_write_index) ELSE m_buffer[c]

\* The bytes read are past those that are unread, and refused.
Refused ==
  /\ dropped'
  /\ m_read_index' = m_read_index /\ m_write_index' = m_write_index
  /\ \A c \in m_read_index + 1 .. m_write_index : m_buffer'[c] = m_buffer[c]

\* n bytes less are unread.
Taken(n) ==
  /\ m_buffer' = m_buffer /\ m_write_index' = m_write_index
  /\ m_read_index' = m_read_index + n /\ m_read_index + n <= m_write_index

\* adjustBuffer leaves what is unread alone, or zeroes the whole vector.
LEMMA AdjustCells ==
  ASSUME NEW buf, Len(buf) \in Nat, NEW r \in Nat, NEW w \in Nat,
         r <= w, w < Len(buf), zeroed \in BOOLEAN, In!adjustBuffer(buf, r, w)
  PROVE  /\ zeroed => zeroed'
         /\ Len(m_buffer') = Len(buf)
         /\ \/ m_buffer' = buf /\ m_read_index' = r /\ m_write_index' = w
            \/ /\ m_read_index' = 0 /\ m_write_index' \in Nat /\ m_write_index' < Len(buf)
               /\ \A c \in 1..Len(buf) : m_buffer'[c] = 0
  <1>1. CASE r < Len(buf) \div 3
    BY <1>1 DEF In!adjustBuffer
  <1>2. CASE ~(r < Len(buf) \div 3)
    <2>1. /\ m_buffer' = In!Zeros(Len(buf)) /\ m_read_index' = 0
          /\ m_write_index' = w - r /\ zeroed' = (zeroed \/ r < w)
      BY <1>2 DEF In!adjustBuffer
    <2>2. \A c \in 1..Len(buf) : m_buffer'[c] = 0
      BY <2>1 DEF In!Zeros
    <2>3. zeroed => zeroed'
      BY <2>1
    <2>4. Len(m_buffer') = Len(buf)
      BY <2>1 DEF In!Zeros
    <2> QED
      BY <2>1, <2>2, <2>3, <2>4
  <1> QED
    BY <1>1, <1>2

\* A read appends to the in-buffer, or loses what it read, or everything.
LEMMA ReadCells ==
  InBufferInv /\ Read
  => (\E n \in Nat : /\ received' = received + n
                     /\ Appended(n) \/ Refused \/ Cleared)
  <1> SUFFICES ASSUME InBufferInv, Read
               PROVE  \E n \in Nat : /\ received' = received + n
                                     /\ Appended(n) \/ Refused \/ Cleared
    OBVIOUS
  <1> DEFINE n == IF sent - received < In!writeAble THEN sent - received ELSE In!writeAble
             buf == In!Copied(m_buffer, m_write_index, n)
  <1>1. In!moveWriteIndex(n)
    BY DEF Read
  <1>2. n \in 1..In!writeAble /\ received' = received + n
    BY <1>1 DEF In!moveWriteIndex
  <1>3. n \in Nat /\ m_write_index + n <= Len(m_buffer)
    BY <1>2, Indices DEF In!writeAble, In!Size
  <1>4. \A c \in 1..Len(m_buffer) :
          buf[c] = IF c \in m_write_index + 1 .. m_write_index + n
                   THEN received + (c - m_write_index) ELSE m_buffer[c]
    BY DEF In!Copied
  <1>5. Len(buf) = Len(m_buffer)
    <2>1. buf = [c \in 1..Len(m_buffer) |->
                   IF c \in m_write_index + 1 .. m_write_index + n
                   THEN received + (c - m_write_index) ELSE m_buffer[c]]
      BY DEF In!Copied
    <2> HIDE DEF n
    <2> QED
      BY <2>1, Indices
  <1>6. IF m_write_index + n >= In!Size
        THEN m_buffer' = buf /\ dropped' = TRUE
             /\ UNCHANGED <<m_read_index, m_write_index, zeroed>>
        ELSE In!adjustBuffer(buf, m_read_index, m_write_index + n)
    BY <1>1 DEF In!moveWriteIndex
  <1> HIDE DEF n, buf
  <1>7. CASE m_write_index + n >= In!Size
    <2>1. \A c \in m_read_index + 1 .. m_write_index : m_buffer'[c] = m_buffer[c]
      <3> TAKE c \in m_read_index + 1 .. m_write_index
      <3>1. c \in 1..Len(m_buffer) /\ c \notin m_write_index + 1 .. m_write_index + n
        BY <1>3, Indices
      <3> QED
        BY <1>4, <1>6, <1>7, <3>1
    <2>2. Refused
      BY <1>6, <1>7, <2>1 DEF Refused
    <2> QED
      BY <1>2, <1>3, <2>2
  <1>8. CASE ~(m_write_index + n >= In!Size)
    <2>0. In!adjustBuffer(buf, m_read_index, m_write_index + n)
      BY <1>6, <1>8
    <2>1. /\ Len(buf) \in Nat /\ m_read_index \in Nat /\ m_write_index + n \in Nat
          /\ m_read_index <= m_write_index + n /\ m_write_index + n < Len(buf)
          /\ zeroed \in BOOLEAN
      BY <1>3, <1>5, <1>8, Indices DEF In!Size
    <2>2. /\ Len(m_buffer') = Len(buf)
          /\ \/ /\ m_buffer' = buf /\ m_read_index' = m_read_index
                /\ m_write_index' = m_write_index + n
             \/ /\ m_read_index' = 0 /\ m_write_index' \in Nat /\ m_write_index' < Len(buf)
                /\ \A c \in 1..Len(buf) : m_buffer'[c] = 0
      BY <2>0, <2>1, AdjustCells
    <2>3. Appended(n) \/ Cleared
      BY <1>4, <1>5, <2>1, <2>2 DEF Appended, Cleared
    <2> QED
      BY <1>2, <1>3, <2>3
  <1> QED
    BY <1>7, <1>8

\* When decode's moveReadIndex takes bytes out, the frame is inside the buffer.
LEMMA DecodeCells ==
  ASSUME InBufferInv, NEW n \in Nat, In!moveReadIndex(n)
  PROVE  /\ received' = received /\ dropped' = dropped
         /\ consumed' = consumed + n /\ m_read_index + n <= m_write_index
         /\ zeroed => zeroed'
         /\ Taken(n) \/ Cleared
  <1>1. n <= m_write_index - m_read_index
    BY DEF In!moveReadIndex, In!readAble
  <1>2. m_read_index + n <= m_write_index
    BY <1>1, Indices
  <1>3. m_read_index + n \in 0 .. In!Size - 1
    BY <1>2, Indices DEF In!Size
  <1>4. /\ In!adjustBuffer(m_buffer, m_read_index + n, m_write_index)
        /\ consumed' = consumed + n /\ received' = received /\ dropped' = dropped
    BY <1>3 DEF In!moveReadIndex
  <1>5. /\ zeroed => zeroed'
        /\ Len(m_buffer') = Len(m_buffer)
        /\ \/ /\ m_buffer' = m_buffer /\ m_read_index' = m_read_index + n
              /\ m_write_index' = m_write_index
           \/ /\ m_read_index' = 0 /\ m_write_index' \in Nat
              /\ m_write_index' < Len(m_buffer)
              /\ \A c \in 1..Len(m_buffer) : m_buffer'[c] = 0
    <2>1. m_read_index + n \in Nat
      BY Indices
    <2> QED
      BY <1>2, <1>4, <2>1, Indices, AdjustCells
  <1> QED
    BY <1>2, <1>4, <1>5 DEF Taken, Cleared

-----------------------------------------------------------------------------
(* The order in which requests are served.                                 *)

\* The cells after c do not go on as request k does.
Broken(c, k) == \E q \in 1 .. FrameLen(k) - 1 :
                  /\ c + q <= m_write_index
                  /\ m_buffer[c + q] # m_buffer[c] + q

\* What decode would find of an earlier request than one already served has
\* a gap in it.
StaleBroken ==
  \A a \in DOMAIN Served : \A c \in m_read_index + 1 .. m_write_index :
    \A k \in 1..Requests : m_buffer[c] = First[k] /\ k < Served[a] => Broken(c, k)

ServedReceived ==
  \A a \in DOMAIN Served : Served[a] # 0 => First[Served[a] + 1] <= received + 1

Sorted ==
  \A a, b \in DOMAIN Served : a < b /\ Served[b] # 0 => Served[a] <= Served[b]

OrderInv == ~back => ServedReceived /\ StaleBroken /\ Sorted

\* The requests served are a sequence of numbers.
LEMMA ServedIsSeq ==
  ASSUME StateTypes
  PROVE  /\ Served \in Seq(0..Requests) /\ Len(Served) \in Nat
         /\ DOMAIN Served = 1..Len(Served)
         /\ \A a \in DOMAIN Served : Served[a] \in 0..Requests /\ Served[a] \in Nat
  <1>1. Served \in Seq(0..Requests)
    BY DEF StateTypes, Served
  <1> HIDE DEF Served
  <1>2. Len(Served) \in Nat /\ DOMAIN Served = 1..Len(Served)
    <2>1. Len(Served) \in Nat
      BY <1>1
    <2>2. DOMAIN Served = 1..Len(Served)
      BY <1>1, LenProperties, Zenon
    <2> QED
      BY <2>1, <2>2
  <1>3. \A a \in DOMAIN Served : Served[a] \in 0..Requests
    BY <1>1, <1>2, ElementOfSeq
  <1>4. \A a \in DOMAIN Served : Served[a] \in Nat
    BY <1>3, StreamFacts
  <1> QED
    BY <1>1, <1>2, <1>3, <1>4

\* What the steps do to the requests served.
LEMMA ServedSteps ==
  ASSUME StateTypes, [Next]_vars
  PROVE  Decode \/ (Served' = Served /\ misled' = misled /\ back' = back)
  <1>1. CASE Excute
    <2>1. answers' = answers \o result /\ result' = <<>>
      BY <1>1 DEF Excute
    <2>2. answers \o result \in Seq(0..Requests)
      BY DEF StateTypes
    <2>3. misled' = misled /\ back' = back
      BY <1>1 DEF Excute
    <2> QED
      BY <2>1, <2>2, <2>3 DEF Served
  <1>2. CASE setState \/ listenRead \/ Read \/ ReadEnds \/ ReadCloses \/ DecodeLoops
             \/ DecodeStrays \/ WriteAll \/ WriteAgain \/ WriteFails \/ ClientSends
             \/ PeerCloses \/ UNCHANGED vars
    BY <1>2 DEF setState, listenRead, Read, ReadEnds, ReadCloses, DecodeLoops,
                DecodeStrays, WriteAll, WriteAgain, WriteFails, ClientSends, PeerCloses,
                vars, decoded, Served
  <1> QED
    BY <1>1, <1>2 DEF Next

\* decode adds a request to those served, a garbled one, or nothing.
LEMMA ServedDecode ==
  InBufferInv /\ StateTypes /\ Decode
  => (\E i \in Unread :
        /\ FirstFrame(i) /\ i \in Nat /\ PkLen(i) \in Int /\ ~Endless(i)
        /\ In!moveReadIndex(PkLen(i))
        /\ \E m \in Messages(i) : Served' = Served \o m
        /\ misled' = (misled \/ \A k \in 1..Requests : m_buffer[i + 1] # First[k])
        /\ back' = (back \/ PkLen(i) < 0))
  <1> SUFFICES ASSUME InBufferInv, StateTypes, Decode
               PROVE  \E i \in Unread :
                 /\ FirstFrame(i) /\ i \in Nat /\ PkLen(i) \in Int /\ ~Endless(i)
                 /\ In!moveReadIndex(PkLen(i))
                 /\ \E m \in Messages(i) : Served' = Served \o m
                 /\ misled' = (misled \/ \A k \in 1..Requests : m_buffer[i + 1] # First[k])
                 /\ back' = (back \/ PkLen(i) < 0)
    OBVIOUS
  <1>1. PICK i \in Unread :
          /\ FirstFrame(i) /\ i \in Nat /\ PkLen(i) \in Int /\ ~Endless(i)
          /\ In!moveReadIndex(PkLen(i))
          /\ \E m \in Messages(i) : result' = result \o m
          /\ misled' = (misled \/ \A k \in 1..Requests : m_buffer[i + 1] # First[k])
          /\ back' = (back \/ PkLen(i) < 0)
    BY DecodeStep, Zenon
  <1>2. answers' = answers
    BY DEF Decode
  <1>3. PICK m \in Messages(i) : result' = result \o m
    BY <1>1
  <1>4. (answers \o result) \o m = answers \o (result \o m)
    <2>1. answers \in Seq(0..Requests) /\ result \in Seq(0..Requests)
      BY DEF StateTypes
    <2>2. m \in Seq(0..Requests)
      BY MessageTypes
    <2> QED
      BY <2>1, <2>2, ConcatAssociative
  <1>5. Served' = Served \o m
    BY <1>2, <1>3, <1>4 DEF Served
  <1> QED
    BY <1>1, <1>5, Zenon

\* Steps that do not touch the in-buffer.
LEMMA Frozen ==
  ASSUME [Next]_vars, ~Read, ~Decode
  PROVE  UNCHANGED in_buffer
  BY DEF Next, setState, listenRead, ReadEnds, ReadCloses, DecodeLoops, DecodeStrays,
         Excute, WriteAll, WriteAgain, WriteFails, ClientSends, PeerCloses, vars

\* What is found damaged stays damaged while bytes come in and go out.
LEMMA BrokenStays ==
  ASSUME InBufferInv, NEW c \in m_read_index + 1 .. m_write_index, NEW k \in 1..Requests,
         Broken(c, k),
         \/ \E n \in Nat : Appended(n)
         \/ Refused
         \/ \E n \in Nat : Taken(n)
  PROVE  Broken(c, k)'
  <1>f. FrameLen(k) \in Nat
    BY FirstLen
  <1>1. PICK q \in 1 .. FrameLen(k) - 1 :
          c + q <= m_write_index /\ m_buffer[c + q] # m_buffer[c] + q
    BY DEF Broken
  <1>2. /\ c \in m_read_index + 1 .. m_write_index
        /\ c + q \in m_read_index + 1 .. m_write_index
        /\ c \in 1..Len(m_buffer) /\ c + q \in 1..Len(m_buffer)
        /\ \A n : c \notin m_write_index + 1 .. m_write_index + n
        /\ \A n : c + q \notin m_write_index + 1 .. m_write_index + n
    <2>1. /\ m_read_index \in Nat /\ m_write_index \in Nat /\ Len(m_buffer) \in Nat
          /\ m_write_index < Len(m_buffer) /\ c \in Nat /\ q \in Nat
          /\ c >= m_read_index + 1 /\ c <= m_write_index /\ q >= 1
      BY <1>f, Indices
    <2> QED
      BY <1>1, <2>1
  <1>3. /\ m_write_index <= m_write_index'
        /\ m_buffer'[c] = m_buffer[c] /\ m_buffer'[c + q] = m_buffer[c + q]
        /\ m_write_index' \in Nat
    <2>1. ASSUME NEW n \in Nat, Appended(n)
          PROVE  /\ m_write_index <= m_write_index'
                 /\ m_buffer'[c] = m_buffer[c] /\ m_buffer'[c + q] = m_buffer[c + q]
                 /\ m_write_index' \in Nat
      <3>1. m_buffer'[c] = m_buffer[c] /\ m_buffer'[c + q] = m_buffer[c + q]
        BY <1>2, <2>1 DEF Appended
      <3> QED
        BY <2>1, <3>1, Indices DEF Appended
    <2>2. CASE Refused
      BY <1>2, <2>2, Indices DEF Refused
    <2>3. ASSUME NEW n \in Nat, Taken(n)
          PROVE  /\ m_write_index <= m_write_index'
                 /\ m_buffer'[c] = m_buffer[c] /\ m_buffer'[c + q] = m_buffer[c + q]
                 /\ m_write_index' \in Nat
      BY <2>3, Indices DEF Taken
    <2> QED
      BY <2>1, <2>2, <2>3
  <1>4. c + q <= m_write_index'
    BY <1>1, <1>2, <1>3, Indices
  <1>5. m_buffer'[c + q] # m_buffer'[c] + q
    BY <1>1, <1>3
  <1>6. FrameLen(k)' = FrameLen(k)
    BY DEF FrameLen
  <1> QED
    BY <1>4, <1>5 DEF Broken

\* Bytes that come in belong to no earlier request than those served.
LEMMA StaleRead ==
  ASSUME InBufferInv, StateTypes, ServedReceived, StaleBroken, Read
  PROVE  StaleBroken'
  <1>0. Served' = Served
    BY DEF Read, Served, decoded
  <1>1. PICK n \in Nat : received' = received + n /\ (Appended(n) \/ Refused \/ Cleared)
    BY ReadCells
  <1> SUFFICES ASSUME NEW a \in DOMAIN Served,
                      NEW c \in (m_read_index + 1 .. m_write_index)', NEW k \in 1..Requests,
                      m_buffer'[c] = First[k], k < Served[a]
               PROVE  Broken(c, k)'
    BY <1>0 DEF StaleBroken
  <1>f. First[k] \in Nat /\ First[k] >= 1
    BY FirstLen
  <1>2. First[k] <= received
    <2>1. Served[a] \in 1..Requests
      BY ServedIsSeq, StreamFacts
    <2>2. First[Served[a] + 1] <= received + 1
      BY <2>1, StreamFacts DEF ServedReceived
    <2> DEFINE l == Served[a]
    <2>3. l \in 1..Requests /\ k < l /\ First[l + 1] <= received + 1
      BY <2>1, <2>2
    <2> HIDE DEF l
    <2>4. k \in 1..Requests + 1 /\ l + 1 \in 1..Requests + 1 /\ k < l + 1
      BY <2>3, StreamFacts
    <2>5. First[k] < First[l + 1] /\ First[l + 1] \in 1 .. MaxBytes + 1
      BY <2>4, FirstRises
    <2> QED
      BY <1>f, <2>3, <2>5, Indices, StreamFacts
  <1>3. ASSUME c \in m_read_index + 1 .. m_write_index, m_buffer'[c] = m_buffer[c]
        PROVE  Broken(c, k)
    BY <1>3 DEF StaleBroken
  <1>4. CASE Appended(n)
    <2>1. c \in 1..Len(m_buffer) /\ c \in m_read_index + 1 .. m_write_index + n
      BY <1>4, Indices DEF Appended
    <2>2. CASE c \in m_write_index + 1 .. m_write_index + n
      <3>1. m_buffer'[c] = received + (c - m_write_index)
        BY <1>4, <2>1, <2>2 DEF Appended
      <3>2. received \in Nat /\ m_write_index \in Nat
        BY Indices
      <3>3. First[k] > received
        BY <2>2, <3>1, <3>2
      <3> QED
        BY <1>2, <1>f, <3>2, <3>3
    <2>3. CASE c \notin m_write_index + 1 .. m_write_index + n
      <3>1. m_buffer'[c] = m_buffer[c]
        BY <1>4, <2>1, <2>3 DEF Appended
      <3>2. c \in m_read_index + 1 .. m_write_index
        BY <2>1, <2>3, Indices
      <3> QED
        BY <1>3, <1>4, <3>1, <3>2, BrokenStays
    <2> QED
      BY <2>2, <2>3
  <1>5. CASE Refused
    <2>1. c \in m_read_index + 1 .. m_write_index /\ m_buffer'[c] = m_buffer[c]
      BY <1>5 DEF Refused
    <2> QED
      BY <1>3, <1>5, <2>1, BrokenStays
  <1>6. CASE Cleared
    <2>1. c \in 1..Len(m_buffer)
      BY <1>6, Indices DEF Cleared
    <2>2. m_buffer'[c] = 0
      BY <1>6, <2>1 DEF Cleared
    <2> QED
      BY <1>f, <2>2
  <1> QED
    BY <1>1, <1>4, <1>5, <1>6

\* decode puts at most one message at the end of those served: a request, or a
\* garbled one if there is no request where it came from.
LEMMA LastServed ==
  ASSUME StateTypes, NEW i, NEW m \in Messages(i), Served' = Served \o m
  PROVE  /\ \A a \in DOMAIN Served : a \in DOMAIN Served' /\ Served'[a] = Served[a]
         /\ \A a \in DOMAIN Served' :
              \/ a \in DOMAIN Served
              \/ /\ a = Len(Served) + 1
                 /\ \/ Served'[a] = 0 /\ RequestAt(i) = {}
                    \/ Served'[a] \in RequestAt(i)
  <1> DEFINE s == Served  t == Served'
  <1>1. s \in Seq(0..Requests) /\ t = s \o m
    BY ServedIsSeq
  <1>2. CASE m = <<>>
    <2>1. t = s
      BY <1>1, <1>2
    <2> QED
      BY <2>1
  <1>3. ASSUME NEW x, m = <<x>>
        PROVE  /\ \A a \in DOMAIN s : a \in DOMAIN t /\ t[a] = s[a]
               /\ \A a \in DOMAIN t : a \in DOMAIN s \/ (a = Len(s) + 1 /\ t[a] = x)
    <2>1. t = s \o <<x>>
      BY <1>1, <1>3
    <2> HIDE DEF s, t
    <2> QED
      BY <1>1, <2>1
  <1>4. \/ RequestAt(i) = {} /\ (m = <<>> \/ m = <<0>>)
        \/ \E k \in RequestAt(i) : m = <<k>>
    BY MessageTypes
  <1> HIDE DEF s, t
  <1>5. CASE RequestAt(i) = {} /\ m = <<0>>
    <2>1. /\ \A a \in DOMAIN s : a \in DOMAIN t /\ t[a] = s[a]
          /\ \A a \in DOMAIN t : a \in DOMAIN s \/ (a = Len(s) + 1 /\ t[a] = 0)
      BY <1>3, <1>5
    <2> QED
      BY <1>5, <2>1, Zenon DEF s, t
  <1>6. ASSUME NEW k \in RequestAt(i), m = <<k>>
        PROVE  /\ \A a \in DOMAIN s : a \in DOMAIN t /\ t[a] = s[a]
               /\ \A a \in DOMAIN t :
                    a \in DOMAIN s \/ (a = Len(s) + 1 /\ t[a] \in RequestAt(i))
    <2>1. /\ \A a \in DOMAIN s : a \in DOMAIN t /\ t[a] = s[a]
          /\ \A a \in DOMAIN t : a \in DOMAIN s \/ (a = Len(s) + 1 /\ t[a] = k)
      BY <1>3, <1>6
    <2> QED
      BY <2>1, Zenon
  <1> QED
    BY <1>2, <1>4, <1>5, <1>6, Zenon DEF s, t

\* A request decode finds has arrived, and is not an earlier one than those served.
LEMMA FoundInOrder ==
  ASSUME InBufferInv, StateTypes, StaleBroken, NEW i \in Unread, NEW k \in RequestAt(i)
  PROVE  /\ First[k + 1] <= received + 1
         /\ \A a \in DOMAIN Served : Served[a] <= k
  <1>0. m_read_index \in Nat /\ m_write_index \in Nat /\ received \in Nat
    BY Indices
  <1>1. i \in Nat /\ i >= m_read_index /\ i < m_write_index
    BY <1>0 DEF Unread
  <1>2. /\ k \in 1..Requests /\ m_buffer[i + 1] = First[k]
        /\ i + FrameLen(k) <= m_write_index
        /\ \A q \in 0 .. FrameLen(k) - 1 : m_buffer[i + 1 + q] = First[k] + q
    BY <1>1, MessageIsRequest
  <1>3. /\ First[k + 1] = First[k] + FrameLen(k) /\ FrameLen(k) \in Nat
        /\ FrameLen(k) >= 6 /\ First[k] \in Nat
    BY <1>2, FirstLen
  <1>4. First[k + 1] <= received + 1
    <2> DEFINE q == FrameLen(k) - 1
    <2>1. q \in 0 .. FrameLen(k) - 1 /\ i + 1 + q \in 1..m_write_index
      BY <1>0, <1>1, <1>2, <1>3
    <2>2. m_buffer[i + 1 + q] = First[k] + q
      BY <1>2, <2>1
    <2>3. m_buffer[i + 1 + q] <= received
      BY <2>1, InBufferFacts
    <2>4. First[k + 1] = (First[k] + q) + 1
      BY <1>3
    <2> HIDE DEF q
    <2>5. First[k] + q <= received /\ First[k] + q \in Int
      BY <1>3, <2>2, <2>3 DEF q
    <2> QED
      BY <1>0, <2>4, <2>5
  <1>5. ASSUME NEW a \in DOMAIN Served PROVE Served[a] <= k
    <2>1. Served[a] \in Nat
      BY ServedIsSeq
    <2> SUFFICES ASSUME k < Served[a] PROVE FALSE
      BY <1>2, <2>1, StreamFacts
    <2>2. i + 1 \in m_read_index + 1 .. m_write_index
      BY <1>0, <1>1
    <2>3. Broken(i + 1, k)
      BY <1>2, <2>2 DEF StaleBroken
    <2>4. PICK q \in 1 .. FrameLen(k) - 1 : m_buffer[i + 1 + q] # m_buffer[i + 1] + q
      BY <2>3 DEF Broken
    <2>5. q \in 0 .. FrameLen(k) - 1
      BY <1>3
    <2> QED
      BY <1>2, <2>4, <2>5
  <1> QED
    BY <1>4, <1>5

\* What stays in the in-buffer of requests before the one found has a gap: decode
\* would have found it first.
LEMMA EarlierIsBroken ==
  ASSUME InBufferInv, NEW i \in Unread, FirstFrame(i), NEW k \in RequestAt(i),
         NEW c \in m_read_index + 1 .. m_write_index, NEW l \in 1..Requests,
         m_buffer[c] = First[l], l < k
  PROVE  Broken(c, l)
  <1>0. m_read_index \in Nat /\ m_write_index \in Nat
    BY Indices
  <1>1. /\ i \in Nat /\ i >= m_read_index /\ i < m_write_index
        /\ c \in Nat /\ c >= m_read_index + 1 /\ c <= m_write_index
    BY <1>0 DEF Unread
  <1>2. k \in 1..Requests /\ m_buffer[i + 1] = First[k]
    BY <1>1, MessageIsRequest
  <1>3. /\ First[l] \in Nat /\ First[l] >= 1 /\ First[k] \in Nat /\ First[k] >= 1
        /\ FrameLen(l) \in Nat /\ FrameLen(l) >= 6
        /\ First[l] < First[k] /\ First[l] + FrameLen(l) <= First[k]
    <2>1. l \in 1..Requests + 1 /\ k \in 1..Requests + 1
      BY <1>2, FrameFacts
    <2>2. First[l] < First[k] /\ First[l + 1] <= First[k]
      BY <2>1, FirstRises
    <2>3. /\ First[l] \in Nat /\ First[l] >= 1
          /\ FrameLen(l) \in Nat /\ FrameLen(l) >= 6
          /\ First[l + 1] = First[l] + FrameLen(l)
      BY FirstLen
    <2>4. First[k] \in Nat /\ First[k] >= 1
      BY <1>2, FirstLen
    <2> QED
      BY <2>2, <2>3, <2>4
  <1>4. c < i + 1
    <2> SUFFICES ASSUME c >= i + 1 PROVE FALSE
      BY <1>1
    <2>1. c # i + 1
      BY <1>2, <1>3
    <2>2. i + 1 < c
      BY <1>1, <2>1
    <2>3. c \in 1..m_write_index /\ i + 1 \in 1..m_write_index
      BY <1>0, <1>1
    <2>4. m_buffer[i + 1] # 0 /\ m_buffer[c] # 0
      BY <1>2, <1>3
    <2>5. m_buffer[i + 1] < m_buffer[c]
      BY <2>2, <2>3, <2>4, InBufferFacts
    <2> QED
      BY <1>2, <1>3, <2>5
  <1> SUFFICES ASSUME ~Broken(c, l) PROVE FALSE
    OBVIOUS
  <1>5. \A q \in 1 .. FrameLen(l) - 1 :
          c + q <= m_write_index => m_buffer[c + q] = First[l] + q
    BY DEF Broken
  <1>6. c + FrameLen(l) <= i + 1
    <2> SUFFICES ASSUME c + FrameLen(l) > i + 1 PROVE FALSE
      BY <1>1, <1>3
    <2> DEFINE q == i + 1 - c
    <2>1. q \in 1 .. FrameLen(l) - 1 /\ c + q = i + 1
      BY <1>1, <1>3, <1>4
    <2>2. c + q <= m_write_index
      BY <1>0, <1>1, <2>1
    <2>3. m_buffer[c + q] = First[l] + q
      BY <1>5, <2>1, <2>2
    <2>4. First[k] = First[l] + q
      BY <1>2, <2>1, <2>3
    <2> HIDE DEF q
    <2> QED
      BY <1>3, <2>1, <2>4
  <1> DEFINE j == c - 1
  <1>7. /\ j \in Nat /\ j + 1 = c /\ j >= m_read_index /\ j < i
        /\ j + FrameLen(l) <= m_write_index
    BY <1>0, <1>1, <1>3, <1>4, <1>6
  <1>8. \A q \in 0 .. FrameLen(l) - 1 : m_buffer[j + 1 + q] = First[l] + q
    <2> TAKE q \in 0 .. FrameLen(l) - 1
    <2>1. CASE q = 0
      BY <1>3, <1>7, <2>1
    <2>2. CASE q # 0
      <3>1. /\ q \in 1 .. FrameLen(l) - 1 /\ c + q <= m_write_index
            /\ j + 1 + q = c + q
        BY <1>0, <1>1, <1>3, <1>6, <2>2
      <3> QED
        BY <1>5, <3>1
    <2> QED
      BY <2>1, <2>2
  <1> HIDE DEF j
  <1>9. StartsFrame(j)
    BY <1>7, <1>8, WholeRequest
  <1>10. j \in Before(i)
    BY <1>0, <1>1, <1>7 DEF Before
  <1> QED
    BY <1>9, <1>10 DEF FirstFrame

\* decode keeps the requests in order.
LEMMA OrderDecode ==
  ASSUME InBufferInv, StateTypes, ServedReceived, StaleBroken, Sorted, Decode, ~back'
  PROVE  ServedReceived' /\ StaleBroken' /\ Sorted'
  <1>0. /\ received \in Nat /\ m_read_index \in Nat /\ m_write_index \in Nat
        /\ Len(m_buffer) \in Nat
    BY Indices
  <1>1. PICK i \in Unread :
          /\ FirstFrame(i) /\ i \in Nat /\ PkLen(i) \in Int /\ ~Endless(i)
          /\ In!moveReadIndex(PkLen(i))
          /\ \E m \in Messages(i) : Served' = Served \o m
          /\ back' = (back \/ PkLen(i) < 0)
    BY ServedDecode, Zenon
  <1> DEFINE n == PkLen(i)
  <1>2. n \in Nat
    <2>1. ~(PkLen(i) < 0) /\ PkLen(i) \in Int
      BY <1>1
    <2> HIDE DEF PkLen
    <2> QED
      BY <2>1
  <1>3. received' = received /\ (Taken(n) \/ Cleared)
    BY <1>1, <1>2, DecodeCells
  <1> HIDE DEF n
  <1>4. PICK m \in Messages(i) : Served' = Served \o m
    BY <1>1
  <1>5. /\ \A a \in DOMAIN Served : a \in DOMAIN Served' /\ Served'[a] = Served[a]
        /\ \A a \in DOMAIN Served' :
             \/ a \in DOMAIN Served
             \/ /\ a = Len(Served) + 1
                /\ Served'[a] = 0 \/ Served'[a] \in RequestAt(i)
    BY <1>4, LastServed
  <1>6. ASSUME NEW k \in RequestAt(i)
        PROVE  /\ k \in 1..Requests /\ First[k + 1] <= received + 1
               /\ \A a \in DOMAIN Served : Served[a] <= k
    BY <1>1, FoundInOrder, MessageIsRequest
  <1>7. /\ DOMAIN Served = 1..Len(Served) /\ Len(Served) \in Nat
        /\ \A a \in DOMAIN Served : Served[a] \in Nat
    BY ServedIsSeq
  <1> HIDE DEF Served
  <1>8. ServedReceived'
    <2> SUFFICES ASSUME NEW a \in DOMAIN Served', Served'[a] # 0
                 PROVE  First[Served'[a] + 1] <= received + 1
      BY <1>3 DEF ServedReceived
    <2>1. CASE a \in DOMAIN Served
      BY <1>5, <2>1 DEF ServedReceived
    <2>2. CASE Served'[a] \in RequestAt(i)
      BY <1>6, <2>2
    <2> QED
      BY <1>5, <2>1, <2>2
  <1>9. Sorted'
    <2> SUFFICES ASSUME NEW a \in DOMAIN Served', NEW b \in DOMAIN Served', a < b,
                        Served'[b] # 0
                 PROVE  Served'[a] <= Served'[b]
      BY DEF Sorted
    <2>1. CASE a \in DOMAIN Served /\ b \in DOMAIN Served
      BY <1>5, <2>1 DEF Sorted
    <2>2. CASE a \in DOMAIN Served /\ Served'[b] \in RequestAt(i)
      BY <1>5, <1>6, <2>2
    <2>3. CASE a = Len(Served) + 1 /\ (b \in DOMAIN Served \/ b = Len(Served) + 1)
      BY <1>7, <2>3
    <2> QED
      BY <1>5, <2>1, <2>2, <2>3
  <1>10. StaleBroken'
    <2> SUFFICES ASSUME NEW a \in DOMAIN Served',
                        NEW c \in (m_read_index + 1 .. m_write_index)',
                        NEW l \in 1..Requests,
                        m_buffer'[c] = First[l], l < Served'[a]
                 PROVE  Broken(c, l)'
      BY DEF StaleBroken
    <2>1. CASE Cleared
      <3>1. c \in 1..Len(m_buffer)
        BY <1>0, <2>1 DEF Cleared
      <3>2. m_buffer'[c] = 0
        BY <2>1, <3>1 DEF Cleared
      <3>3. First[l] \in Nat /\ First[l] >= 1
        BY FirstLen
      <3> QED
        BY <3>2, <3>3
    <2>2. CASE Taken(n)
      <3>0. /\ c \in m_read_index + n + 1 .. m_write_index
            /\ m_buffer'[c] = m_buffer[c]
        BY <2>2 DEF Taken
      <3>1. c \in m_read_index + 1 .. m_write_index /\ m_buffer[c] = First[l]
        BY <1>0, <1>2, <3>0
      <3>2. CASE a \in DOMAIN Served
        <4>1. Broken(c, l)
          BY <1>5, <3>1, <3>2 DEF StaleBroken
        <4> QED
          BY <1>2, <2>2, <3>1, <4>1, BrokenStays
      <3>3. CASE Served'[a] \in RequestAt(i)
        <4>1. Broken(c, l)
          BY <1>1, <3>1, <3>3, EarlierIsBroken
        <4> QED
          BY <1>2, <2>2, <3>1, <4>1, BrokenStays
      <3>4. CASE Served'[a] = 0
        BY <3>4
      <3> QED
        BY <1>5, <3>2, <3>3, <3>4
    <2> QED
      BY <1>3, <2>1, <2>2
  <1> QED
    BY <1>8, <1>9, <1>10

\* So does every step.
LEMMA OrderStep == LifeInv /\ OrderInv /\ [Next]_vars => OrderInv'
  <1> SUFFICES ASSUME LifeInv, OrderInv, [Next]_vars, ~back'
               PROVE  ServedReceived' /\ StaleBroken' /\ Sorted'
    BY DEF OrderInv
  <1> USE DEF LifeInv
  <1>0. ~back
    <2>1. CASE Decode
      <3>1. \E i \in Unread : back' = (back \/ PkLen(i) < 0)
        BY <2>1 DEF Decode
      <3> QED
        BY <3>1
    <2>2. CASE ~Decode
      BY <2>2, ServedSteps
    <2> QED
      BY <2>1, <2>2
  <1>o. ServedReceived /\ StaleBroken /\ Sorted
    BY <1>0 DEF OrderInv
  <1>1. CASE Decode
    BY <1>1, <1>o, OrderDecode
  <1>2. CASE Read
    <2>1. Served' = Served
      BY <1>2 DEF Read, Served, decoded
    <2>2. PICK n \in Nat : received' = received + n
      BY <1>2, ReadCells
    <2>3. ServedReceived'
      <3> SUFFICES ASSUME NEW a \in DOMAIN Served, Served[a] # 0
                   PROVE  First[Served[a] + 1] <= received' + 1
        BY <2>1 DEF ServedReceived
      <3>1. First[Served[a] + 1] <= received + 1
        BY <1>o DEF ServedReceived
      <3>2. Served[a] \in 1..Requests
        BY ServedIsSeq, StreamFacts
      <3>3. First[Served[a] + 1] \in Nat
        BY <3>2, FirstLen
      <3> DEFINE f == First[Served[a] + 1]
      <3> HIDE DEF f
      <3>4. f <= received + 1 /\ f \in Nat
        BY <3>1, <3>3 DEF f
      <3>5. f <= received' + 1
        BY <2>2, <3>4, Indices
      <3> QED
        BY <3>5 DEF f
    <2>4. Sorted'
      BY <1>o, <2>1 DEF Sorted
    <2> QED
      BY <1>2, <1>o, <2>3, <2>4, StaleRead
  <1>3. CASE ~Read /\ ~Decode
    <2>1. Served' = Served /\ UNCHANGED in_buffer
      BY <1>3, ServedSteps, Frozen
    <2>2. /\ received' = received /\ m_buffer' = m_buffer
          /\ m_read_index' = m_read_index /\ m_write_index' = m_write_index
      BY <2>1 DEF in_buffer
    <2> HIDE DEF Served
    <2> QED
      BY <1>o, <2>1, <2>2 DEF ServedReceived, Sorted, StaleBroken, Broken, FrameLen
  <1> QED
    BY <1>1, <1>2, <1>3

\* decode never finds a request after a later one, whatever adjustBuffer zeroed,
\* moveWriteIndex refused and a false frame took with it, as long as no length below
\* zero moves the read index back: a request may be lost or come twice, not go back.
THEOREM NoRequestAfterALaterOne == Spec => []ServedInOrder
  <1>1. Init => OrderInv
    <2> SUFFICES ASSUME Init PROVE OrderInv
      OBVIOUS
    <2>1. Served = <<>>
      BY DEF Init, Served
    <2>2. DOMAIN Served = {}
      BY <2>1
    <2> QED
      BY <2>2 DEF OrderInv, ServedReceived, Sorted, StaleBroken
  <1>2. OrderInv => ServedInOrder
    BY DEF OrderInv, Sorted, ServedInOrder
  <1> QED
    BY <1>1, <1>2, LifeInit, LifeStep, OrderStep, PTL DEF Spec

-----------------------------------------------------------------------------
(* As long as moveWriteIndex has refused nothing and decode was not misled. *)

\* The bytes that adjustBuffer zeroed come first, the others are the last received,
\* and nothing is past them.
LastReceived(buf, r, w, top) ==
  /\ \A c \in r + 1 .. w : buf[c] # 0 => buf[c] = top - (w - c)
  /\ \A c \in w + 1 .. Len(buf) : buf[c] = 0
  /\ \A c, d \in r + 1 .. w : c < d /\ buf[c] # 0 => buf[d] # 0

TailInv == LastReceived(m_buffer, m_read_index, m_write_index, received)

RequestsInv ==
  ~dropped /\ ~misled => /\ TailInv
                         /\ \A a \in DOMAIN Served : Served[a] # 0

\* Zeroing the vector leaves no byte of the stream in it.
LEMMA TailCleared ==
  ASSUME Len(m_buffer) \in Nat, Cleared
  PROVE  TailInv'
  <1>1. \A c \in 1..Len(m_buffer) : m_buffer'[c] = 0
    BY DEF Cleared
  <1>2. /\ m_read_index' = 0 /\ m_write_index' \in Nat
        /\ m_write_index' < Len(m_buffer) /\ Len(m_buffer') = Len(m_buffer)
    BY DEF Cleared
  <1>3. \A c \in 0 + 1 .. m_write_index' : m_buffer'[c] = 0
    <2> TAKE c \in 0 + 1 .. m_write_index'
    <2>1. c \in 1..Len(m_buffer)
      BY <1>2
    <2> QED
      BY <1>1, <2>1
  <1>4. \A c \in m_write_index' + 1 .. Len(m_buffer) : m_buffer'[c] = 0
    <2> TAKE c \in m_write_index' + 1 .. Len(m_buffer)
    <2>1. c \in 1..Len(m_buffer)
      <3> DEFINE w == m_write_index'  size == Len(m_buffer)
      <3>1. w \in Nat /\ size \in Nat /\ c \in w + 1 .. size
        BY <1>2
      <3> HIDE DEF w, size
      <3>2. c \in 1..size
        BY <3>1
      <3> QED
        BY <3>2 DEF size
    <2> QED
      BY <1>1, <2>1
  <1>5. LastReceived(m_buffer', 0, m_write_index', received')
    BY <1>2, <1>3, <1>4 DEF LastReceived
  <1> QED
    BY <1>2, <1>5 DEF TailInv

\* The next bytes of the stream come after the others.
LEMMA TailAppended ==
  ASSUME InBufferInv, TailInv, NEW n \in Nat, Appended(n), received' = received + n
  PROVE  TailInv'
  <1>0. /\ m_read_index \in Nat /\ m_write_index \in Nat /\ Len(m_buffer) \in Nat
        /\ received \in Nat /\ m_read_index <= m_write_index
    BY Indices
  <1>1. /\ m_read_index' = m_read_index /\ m_write_index' = m_write_index + n
        /\ m_write_index + n < Len(m_buffer) /\ Len(m_buffer') = Len(m_buffer)
        /\ \A c \in 1..Len(m_buffer) :
             m_buffer'[c] = IF c \in m_write_index + 1 .. m_write_index + n
                            THEN received + (c - m_write_index) ELSE m_buffer[c]
    BY DEF Appended
  <1>2. ASSUME NEW c \in m_read_index + 1 .. m_write_index
        PROVE  m_buffer'[c] = m_buffer[c]
    <2>1. c \in 1..Len(m_buffer) /\ c \notin m_write_index + 1 .. m_write_index + n
      BY <1>0, <1>1
    <2> QED
      BY <1>1, <2>1
  <1>3. ASSUME NEW c \in m_write_index + 1 .. m_write_index + n
        PROVE  m_buffer'[c] = received + (c - m_write_index) /\ m_buffer'[c] # 0
    <2>1. c \in 1..Len(m_buffer)
      BY <1>0, <1>1
    <2>2. m_buffer'[c] = received + (c - m_write_index)
      BY <1>1, <2>1
    <2> QED
      BY <1>0, <2>2
  <1>4. ASSUME NEW c \in m_read_index + 1 .. m_write_index + n
        PROVE  \/ c \in m_read_index + 1 .. m_write_index
               \/ c \in m_write_index + 1 .. m_write_index + n
    BY <1>0
  <1>5. ASSUME NEW c \in m_read_index + 1 .. m_write_index + n, m_buffer'[c] # 0
        PROVE  m_buffer'[c] = (received + n) - ((m_write_index + n) - c)
    <2>1. CASE c \in m_read_index + 1 .. m_write_index
      <3>1. m_buffer'[c] = received - (m_write_index - c)
        BY <1>2, <1>5, <2>1 DEF TailInv, LastReceived
      <3> QED
        BY <1>0, <3>1
    <2>2. CASE c \in m_write_index + 1 .. m_write_index + n
      BY <1>0, <1>3, <2>2
    <2> QED
      BY <1>4, <2>1, <2>2
  <1>6. ASSUME NEW c \in m_write_index + n + 1 .. Len(m_buffer)
        PROVE  m_buffer'[c] = 0
    <2>1. /\ c \in 1..Len(m_buffer) /\ c \in m_write_index + 1 .. Len(m_buffer)
          /\ c \notin m_write_index + 1 .. m_write_index + n
      BY <1>0
    <2> QED
      BY <1>1, <2>1 DEF TailInv, LastReceived
  <1>7. ASSUME NEW c \in m_read_index + 1 .. m_write_index + n,
               NEW d \in m_read_index + 1 .. m_write_index + n,
               c < d, m_buffer'[c] # 0
        PROVE  m_buffer'[d] # 0
    <2>1. CASE d \in m_write_index + 1 .. m_write_index + n
      BY <1>3, <2>1
    <2>2. CASE d \in m_read_index + 1 .. m_write_index
      <3>1. c \in m_read_index + 1 .. m_write_index
        BY <1>0, <1>7, <2>2
      <3> QED
        BY <1>2, <1>7, <2>2, <3>1 DEF TailInv, LastReceived
    <2> QED
      BY <1>4, <2>1, <2>2
  <1>8. LastReceived(m_buffer', m_read_index, m_write_index + n, received + n)
    <2>1. \A c \in m_read_index + 1 .. m_write_index + n :
            m_buffer'[c] # 0
            => m_buffer'[c] = (received + n) - ((m_write_index + n) - c)
      BY <1>5
    <2>2. \A c \in m_write_index + n + 1 .. Len(m_buffer') : m_buffer'[c] = 0
      BY <1>1, <1>6
    <2>3. \A c, d \in m_read_index + 1 .. m_write_index + n :
            c < d /\ m_buffer'[c] # 0 => m_buffer'[d] # 0
      BY <1>7
    <2> QED
      BY <2>1, <2>2, <2>3, Zenon DEF LastReceived
  <1> QED
    BY <1>1, <1>8 DEF TailInv

\* Taking bytes out leaves the last ones.
LEMMA TailTaken ==
  ASSUME InBufferInv, TailInv, NEW n \in Nat, Taken(n), received' = received
  PROVE  TailInv'
  <1>0. m_read_index \in Nat /\ m_write_index \in Nat
    BY Indices
  <1>1. /\ m_buffer' = m_buffer /\ m_write_index' = m_write_index
        /\ m_read_index' = m_read_index + n
    BY DEF Taken
  <1>2. \A c \in m_read_index + n + 1 .. m_write_index : c \in m_read_index + 1 .. m_write_index
    BY <1>0
  <1> QED
    BY <1>1, <1>2 DEF TailInv, LastReceived

\* What follows the first byte of a request is the request, as far as it is received.
LEMMA TailIsStream ==
  ASSUME InBufferInv, TailInv, NEW i \in Unread, NEW k \in 1..Requests,
         m_buffer[i + 1] = First[k], NEW q \in Nat
  PROVE  /\ i + q < m_write_index => /\ m_buffer[i + 1 + q] = First[k] + q
                                     /\ Byte(i + q) = Stream[First[k] + q]
         /\ ~(i + q < m_write_index) => Byte(i + q) = 0
  <1>0. /\ m_read_index \in Nat /\ m_write_index \in Nat /\ Len(m_buffer) \in Nat
        /\ received \in Nat /\ m_write_index < Len(m_buffer)
    BY Indices
  <1>1. i \in Nat /\ i >= m_read_index /\ i < m_write_index
    BY <1>0 DEF Unread
  <1>f. First[k] \in Nat /\ First[k] >= 1
    BY FirstLen
  <1>2. ASSUME i + q < m_write_index PROVE m_buffer[i + 1 + q] = First[k] + q
    <2>1. /\ i + 1 \in m_read_index + 1 .. m_write_index
          /\ i + 1 + q \in m_read_index + 1 .. m_write_index
      BY <1>0, <1>1, <1>2
    <2>0. m_buffer[i + 1] # 0
      BY <1>f
    <2>2. m_buffer[i + 1] = received - (m_write_index - (i + 1))
      BY <2>0, <2>1 DEF TailInv, LastReceived
    <2>3. CASE q = 0
      BY <1>1, <1>f, <2>3
    <2>4. CASE q > 0
      <3>1. i + 1 < i + 1 + q
        BY <1>1, <2>4
      <3>2. m_buffer[i + 1 + q] # 0
        BY <2>0, <2>1, <3>1 DEF TailInv, LastReceived
      <3>3. m_buffer[i + 1 + q] = received - (m_write_index - (i + 1 + q))
        BY <2>1, <3>2 DEF TailInv, LastReceived
      <3> QED
        BY <1>0, <1>1, <1>f, <2>2, <3>3
    <2> QED
      BY <2>3, <2>4
  <1>3. ASSUME i + q < m_write_index PROVE Byte(i + q) = Stream[First[k] + q]
    <2>1. i + q \in Nat /\ i + q < Len(m_buffer) /\ (i + q) + 1 = i + 1 + q
      BY <1>0, <1>1, <1>3
    <2>2. m_buffer[(i + q) + 1] = First[k] + q
      BY <1>2, <1>3, <2>1
    <2>3. First[k] + q # 0
      BY <1>f
    <2> QED
      BY <2>1, <2>2, <2>3, ByteAt
  <1>4. ASSUME ~(i + q < m_write_index) PROVE Byte(i + q) = 0
    <2>1. CASE i + q >= Len(m_buffer)
      BY <2>1 DEF Byte, In!Size
    <2>2. CASE i + q < Len(m_buffer)
      <3>1. (i + q) + 1 \in m_write_index + 1 .. Len(m_buffer)
        BY <1>0, <1>1, <1>4, <2>2
      <3>2. m_buffer[(i + q) + 1] = 0
        BY <3>1 DEF TailInv, LastReceived
      <3> QED
        BY <3>2 DEF Byte
    <2> QED
      BY <1>0, <1>1, <2>1, <2>2
  <1> QED
    BY <1>2, <1>3, <1>4

\* So a frame that decode takes where a request begins is that request, all of it:
\* a length of which not all bytes are received is 0, or points past what is.
LEMMA FoundIsRequest ==
  ASSUME InBufferInv, TailInv, NEW i \in Unread, StartsFrame(i), PkLen(i) # 0,
         NEW k \in 1..Requests, m_buffer[i + 1] = First[k]
  PROVE  k \in RequestAt(i)
  <1> DEFINE f == First[k]
             a == Stream[f + 1]  b == Stream[f + 2]  c == Stream[f + 3]  d == Stream[f + 4]
  <1>0. /\ m_read_index \in Nat /\ m_write_index \in Nat
        /\ i \in Nat /\ i >= m_read_index /\ i < m_write_index
    BY Indices DEF Unread
  <1>1. /\ FrameLen(k) \in Nat /\ FrameLen(k) >= 6
        /\ f \in Nat /\ f >= 1 /\ f + FrameLen(k) <= MaxBytes + 1 /\ MaxBytes \in Nat
    <2>1. First[k + 1] \in 1 .. MaxBytes + 1
      BY FrameFacts
    <2> QED
      BY <2>1, FirstLen, StreamFacts
  <1>2. a \in 0..255 /\ b \in 0..255 /\ c \in 0..255 /\ d \in 0..255
    <2>1. \A q \in 1..4 : f + q \in 1..MaxBytes
      BY <1>1
    <2>2. \A q \in 1..4 : Stream[f + q] \in 0..255
      BY <2>1, StreamFacts
    <2> QED
      BY <2>2
  <1>3. Int32(a, b, c, d) = FrameLen(k)
    BY FrameFacts
  <1>4. a <= 127
    <2>1. Int32(a, b, c, d) > 0
      BY <1>1, <1>3
    <2> HIDE DEF a, b, c, d
    <2> QED
      BY <1>2, <2>1, SMT DEF Int32
  <1>5. ASSUME NEW q \in 1..4
        PROVE  /\ i + q < m_write_index => Byte(i + q) = Stream[f + q]
               /\ ~(i + q < m_write_index) => Byte(i + q) = 0
    BY TailIsStream
  <1>6. i + 1 < m_write_index /\ PkLen(i) <= m_write_index - i
    BY <1>0 DEF StartsFrame, Starts
  <1> HIDE DEF f, a, b, c, d
  <1>7. /\ Byte(i + 1) = a
        /\ Byte(i + 2) \in {0, b} /\ Byte(i + 3) \in {0, c}
        /\ Byte(i + 4) = IF i + 4 < m_write_index THEN d ELSE 0
        /\ i + 4 < m_write_index => Byte(i + 2) = b /\ Byte(i + 3) = c
    BY <1>0, <1>5, <1>6 DEF a, b, c, d
  <1>8. PkLen(i) = Int32(Byte(i + 1), Byte(i + 2), Byte(i + 3), Byte(i + 4))
    BY DEF PkLen
  <1>9. i + 4 < m_write_index
    <2> SUFFICES ASSUME ~(i + 4 < m_write_index) PROVE FALSE
      OBVIOUS
    <2> DEFINE x == Byte(i + 1)  y == Byte(i + 2)  z == Byte(i + 3)
    <2>1. x \in 0..127 /\ y \in 0..255 /\ z \in 0..255 /\ Byte(i + 4) = 0
      BY <1>2, <1>4, <1>7
    <2>2. PkLen(i) = Int32(x, y, z, 0)
      BY <1>8, <2>1
    <2> HIDE DEF x, y, z
    <2>3. Int32(x, y, z, 0) <= 4
      <3>1. PkLen(i) \in Int
        BY <1>0, PkLenIsInt
      <3>2. m_write_index - i <= 4
        BY <1>0
      <3>3. PkLen(i) <= 4
        BY <1>0, <1>6, <3>1, <3>2
      <3> QED
        BY <2>2, <3>3
    <2>4. Int32(x, y, z, 0) # 0
      BY <2>2
    <2> QED
      BY <2>1, <2>3, <2>4, SMT DEF Int32
  <1>10. PkLen(i) = FrameLen(k)
    BY <1>3, <1>7, <1>8, <1>9
  <1>11. i + FrameLen(k) <= m_write_index
    BY <1>0, <1>1, <1>6, <1>10
  <1>12. ASSUME NEW q \in 0 .. FrameLen(k) - 1
         PROVE  m_buffer[i + 1 + q] = First[k] + q
    <2>1. q \in Nat /\ i + q < m_write_index
      BY <1>0, <1>1, <1>11
    <2> QED
      BY <2>1, TailIsStream
  <1> QED
    BY <1>11, <1>12 DEF RequestAt

\* What decode does as long as nothing misleads it: it takes all of a request.
LEMMA DecodeRequest ==
  InBufferInv /\ StateTypes /\ TailInv /\ Decode /\ ~misled'
  => (\E i \in Unread :
        /\ FirstFrame(i) /\ i \in Nat
        /\ \E k \in RequestAt(i) : /\ In!moveReadIndex(FrameLen(k))
                                   /\ Served' = Served \o <<k>>)
  <1> SUFFICES ASSUME InBufferInv, StateTypes, TailInv, Decode, ~misled'
               PROVE  \E i \in Unread :
                        /\ FirstFrame(i) /\ i \in Nat
                        /\ \E k \in RequestAt(i) : /\ In!moveReadIndex(FrameLen(k))
                                                   /\ Served' = Served \o <<k>>
    OBVIOUS
  <1>1. PICK i \in Unread :
          /\ FirstFrame(i) /\ i \in Nat /\ ~Endless(i)
          /\ In!moveReadIndex(PkLen(i))
          /\ \E m \in Messages(i) : Served' = Served \o m
          /\ misled' = (misled \/ \A k \in 1..Requests : m_buffer[i + 1] # First[k])
    BY ServedDecode, Zenon
  <1>2. PICK k \in 1..Requests : m_buffer[i + 1] = First[k]
    BY <1>1
  <1>3. StartsFrame(i) /\ PkLen(i) # 0
    BY <1>1 DEF FirstFrame, Endless
  <1>4. k \in RequestAt(i)
    BY <1>2, <1>3, FoundIsRequest
  <1>5. PkLen(i) = FrameLen(k) /\ Messages(i) = {<<k>>}
    BY <1>1, <1>4, MessageIsRequest
  <1>6. Served' = Served \o <<k>>
    BY <1>1, <1>5
  <1> QED
    BY <1>1, <1>4, <1>5, <1>6, Zenon

\* Every step keeps that.
LEMMA RequestsStep == LifeInv /\ RequestsInv /\ [Next]_vars => RequestsInv'
  <1> SUFFICES ASSUME LifeInv, RequestsInv, [Next]_vars, ~dropped', ~misled'
               PROVE  TailInv' /\ \A a \in DOMAIN Served' : Served'[a] # 0
    BY DEF RequestsInv
  <1> USE DEF LifeInv
  <1>0. Len(m_buffer) \in Nat
    BY Indices
  <1>m. ~misled
    <2>1. CASE Decode
      <3>1. \E i \in Unread :
              misled' = (misled \/ \A k \in 1..Requests : m_buffer[i + 1] # First[k])
        BY <2>1 DEF Decode
      <3> QED
        BY <3>1
    <2>2. CASE ~Decode
      BY <2>2, ServedSteps
    <2> QED
      BY <2>1, <2>2
  <1>1. CASE Decode
    <2>1. dropped' = dropped
      <3>1. PICK i \in Unread : In!moveReadIndex(PkLen(i))
        BY <1>1 DEF Decode
      <3> QED
        BY <3>1 DEF In!moveReadIndex
    <2>2. TailInv /\ \A a \in DOMAIN Served : Served[a] # 0
      BY <1>m, <2>1 DEF RequestsInv
    <2>i. PICK i \in Unread :
            /\ i \in Nat
            /\ \E k \in RequestAt(i) : /\ In!moveReadIndex(FrameLen(k))
                                       /\ Served' = Served \o <<k>>
      BY <1>1, <2>2, DecodeRequest
    <2>3. PICK k \in RequestAt(i) :
            /\ i \in Nat /\ In!moveReadIndex(FrameLen(k)) /\ Served' = Served \o <<k>>
      BY <2>i
    <2>4. k \in 1..Requests /\ Messages(i) = {<<k>>} /\ FrameLen(k) \in Nat
      BY <2>3, MessageIsRequest, FirstLen
    <2>5. received' = received /\ (Taken(FrameLen(k)) \/ Cleared)
      BY <2>3, <2>4, DecodeCells
    <2>6. TailInv'
      BY <1>0, <2>2, <2>4, <2>5, TailTaken, TailCleared
    <2>7. \A a \in DOMAIN Served' :
            \/ a \in DOMAIN Served /\ Served'[a] = Served[a]
            \/ Served'[a] \in RequestAt(i)
      <3>1. <<k>> \in Messages(i) /\ RequestAt(i) # {}
        BY <2>4
      <3> QED
        BY <2>3, <3>1, LastServed
    <2>8. \A l \in RequestAt(i) : l # 0
      BY DEF RequestAt
    <2> QED
      BY <2>2, <2>6, <2>7, <2>8
  <1>2. CASE Read
    <2>1. Served' = Served
      BY <1>2 DEF Read, Served, decoded
    <2>2. PICK n \in Nat : received' = received + n /\ (Appended(n) \/ Refused \/ Cleared)
      BY <1>2, ReadCells
    <2>3. ~dropped /\ ~Refused
      <3>1. dropped => dropped'
        BY <1>2 DEF Read, In!moveWriteIndex
      <3> QED
        BY <1>2, <3>1 DEF Refused
    <2>4. TailInv /\ \A a \in DOMAIN Served : Served[a] # 0
      BY <1>m, <2>3 DEF RequestsInv
    <2>5. TailInv'
      BY <1>0, <2>2, <2>3, <2>4, TailAppended, TailCleared
    <2> QED
      BY <2>1, <2>4, <2>5
  <1>3. CASE ~Read /\ ~Decode
    <2>1. Served' = Served /\ UNCHANGED in_buffer
      BY <1>3, ServedSteps, Frozen
    <2>2. /\ received' = received /\ m_buffer' = m_buffer /\ dropped' = dropped
          /\ m_read_index' = m_read_index /\ m_write_index' = m_write_index
      BY <2>1 DEF in_buffer
    <2> HIDE DEF Served
    <2> QED
      BY <1>m, <2>1, <2>2 DEF RequestsInv, TailInv, LastReceived
  <1> QED
    BY <1>1, <1>2, <1>3

\* It is true of the new in-buffer.
LEMMA RequestsInit == Init => RequestsInv
  <1> SUFFICES ASSUME Init PROVE RequestsInv
    OBVIOUS
  <1>1. DOMAIN Served = {}
    <2>1. Served = <<>>
      BY DEF Init, Served
    <2> QED
      BY <2>1
  <1>2. /\ m_buffer = In!Zeros(InitSize) /\ m_read_index = 0 /\ m_write_index = 0
    BY DEF Init, In!Init
  <1>3. Len(m_buffer) = InitSize /\ \A c \in 1..InitSize : m_buffer[c] = 0
    BY <1>2, ConnectionAssumption DEF In!Zeros
  <1>4. TailInv
    BY <1>2, <1>3, ConnectionAssumption DEF TailInv, LastReceived
  <1> QED
    BY <1>1, <1>4 DEF RequestsInv

\* Unless moveWriteIndex has refused bytes or decode took a frame that begins inside
\* a request, no message it finds is put together from parts of two requests, whatever
\* adjustBuffer zeroed and whatever bytes the requests have.
THEOREM NoGarbledMessage == Spec => []MessagesAreRequests
  <1>1. RequestsInv => MessagesAreRequests
    BY DEF RequestsInv, MessagesAreRequests
  <1> QED
    BY <1>1, RequestsInit, LifeInit, LifeStep, RequestsStep, PTL DEF Spec


-----------------------------------------------------------------------------
(* As long as adjustBuffer has zeroed nothing either.                      *)

\* The requests taken out are those served, each once and in order, and all that are
\* wholly read when excute returns.
StreamInv ==
  ~zeroed /\ ~dropped /\ ~misled =>
    /\ Len(Served) \in 0..Requests
    /\ consumed = First[Len(Served) + 1] - 1
    /\ \A k \in DOMAIN Served : Served[k] = k
    /\ pc = "idle" => WhollyRead = 1..Len(Served)

\* The unread bytes are then the stream, from the first one not taken out.
LEMMA IntactFacts ==
  ASSUME InBufferInv, ~zeroed, ~dropped
  PROVE  /\ m_write_index - m_read_index = received - consumed
         /\ \A c \in m_read_index + 1 .. m_write_index :
              m_buffer[c] = consumed + (c - m_read_index)
  <1>1. B!Intact
    BY DEF InBufferInv, B!BufferInv
  <1>2. /\ m_write_index - m_read_index = received - consumed
        /\ B!Holds(m_buffer, m_read_index, m_write_index, consumed)
    BY <1>1 DEF B!Intact
  <1>3. \A c \in m_read_index + 1 .. m_write_index : c \in 1..m_write_index
    BY Indices
  <1> QED
    BY <1>2, <1>3 DEF B!Holds

\* If they are enough for the next request they are all of it.
LEMMA NextIsFrame ==
  ASSUME InBufferInv, ~zeroed, ~dropped, NEW k \in 1..Requests,
         consumed = First[k] - 1, m_read_index + FrameLen(k) <= m_write_index
  PROVE  m_read_index \in Unread /\ StartsFrame(m_read_index)
  <1> DEFINE r == m_read_index  n == FrameLen(k)  f == First[k]
  <1>0. r \in Nat /\ m_write_index \in Nat
    BY Indices
  <1>f. n \in Nat /\ n >= 6 /\ f \in Nat
    BY FirstLen
  <1>1. \A q \in 0 .. n - 1 : m_buffer[r + 1 + q] = f + q
    <2> TAKE q \in 0 .. n - 1
    <2>1. r + 1 + q \in r + 1 .. m_write_index
      BY <1>0, <1>f
    <2>2. m_buffer[r + 1 + q] = consumed + ((r + 1 + q) - r)
      BY <2>1, IntactFacts
    <2>3. (r + 1 + q) - r = 1 + q
      BY <1>0, <1>f
    <2> QED
      BY <1>f, <2>2, <2>3
  <1>2. r \in Unread
    BY <1>0, <1>f DEF Unread
  <1>3. StartsFrame(r)
    <2> HIDE DEF r
    <2> QED
      BY <1>0, <1>1, WholeRequest DEF r
  <1> QED
    BY <1>2, <1>3

\* A read undoes no damage.
LEMMA ReadKeeps ==
  ASSUME Read, zeroed \in BOOLEAN
  PROVE  /\ zeroed => zeroed'
         /\ dropped => dropped'
         /\ consumed' = consumed
  BY DEF Read, In!moveWriteIndex, In!adjustBuffer

\* decode takes the next request, and no other.
LEMMA StreamDecode ==
  ASSUME InBufferInv, StateTypes, RequestsInv, StreamInv, Decode,
         ~zeroed', ~dropped', ~misled'
  PROVE  /\ Len(Served') \in 0..Requests
         /\ consumed' = First[Len(Served') + 1] - 1
         /\ \A k \in DOMAIN Served' : Served'[k] = k
         /\ pc' # "idle"
  <1>m. ~misled
    <2>1. \E i \in Unread :
            misled' = (misled \/ \A k \in 1..Requests : m_buffer[i + 1] # First[k])
      BY DEF Decode
    <2> QED
      BY <2>1
  <1>d. ~dropped
    <2>1. PICK i \in Unread : In!moveReadIndex(PkLen(i))
      BY DEF Decode
    <2> QED
      BY <2>1 DEF In!moveReadIndex
  <1>t. TailInv
    BY <1>m, <1>d DEF RequestsInv
  <1>1. PICK i \in Unread :
          /\ FirstFrame(i) /\ i \in Nat
          /\ \E k \in RequestAt(i) : /\ In!moveReadIndex(FrameLen(k))
                                     /\ Served' = Served \o <<k>>
    BY <1>t, DecodeRequest
  <1>2. PICK k \in RequestAt(i) :
          In!moveReadIndex(FrameLen(k)) /\ Served' = Served \o <<k>>
    BY <1>1
  <1>3. /\ k \in 1..Requests /\ m_buffer[i + 1] = First[k]
        /\ FrameLen(k) \in Nat
    BY FirstLen DEF RequestAt
  <1>4. consumed' = consumed + FrameLen(k) /\ ~zeroed
    BY <1>2, <1>3, DecodeCells
  <1> DEFINE n == Len(Served)
  <1>5. n \in 0..Requests /\ consumed = First[n + 1] - 1 /\ \A l \in DOMAIN Served : Served[l] = l
    BY <1>4, <1>m, <1>d DEF StreamInv
  <1>6. Served \in Seq(0..Requests)
    BY ServedIsSeq
  <1> HIDE DEF n
  <1>7. /\ m_read_index \in Nat /\ m_write_index \in Nat
        /\ i \in Nat /\ i >= m_read_index /\ i < m_write_index
    BY <1>1, Indices DEF Unread
  <1>8. /\ Requests \in Nat /\ n \in Nat /\ n <= Requests
        /\ n + 1 \in 1..Requests + 1 /\ k \in 1..Requests + 1
    BY <1>3, <1>5, StreamFacts
  <1>9. First[n + 1] \in Nat /\ First[k] \in Nat
    BY <1>8, StreamAssumption
  <1>10. First[k] = First[n + 1] + (i - m_read_index)
    <2>1. i + 1 \in m_read_index + 1 .. m_write_index
      BY <1>7
    <2>2. m_buffer[i + 1] = consumed + ((i + 1) - m_read_index)
      BY <1>4, <1>d, <2>1, IntactFacts
    <2> QED
      BY <1>3, <1>5, <1>7, <1>9, <2>2
  <1>11. n + 1 <= k
    <2> SUFFICES ASSUME k < n + 1 PROVE FALSE
      BY <1>3, <1>8
    <2>1. First[k] < First[n + 1]
      BY <1>8, FirstRises
    <2> QED
      BY <1>7, <1>9, <1>10, <2>1
  <1>12. n + 1 \in 1..Requests
    BY <1>3, <1>8, <1>11
  <1>13. i = m_read_index
    <2> SUFFICES ASSUME i > m_read_index PROVE FALSE
      BY <1>7
    <2>1. n + 1 < k
      BY <1>3, <1>7, <1>8, <1>9, <1>10, <1>11
    <2>2. First[(n + 1) + 1] <= First[k]
      BY <1>8, <2>1, FirstRises
    <2>3. FrameLen(n + 1) \in Nat /\ First[(n + 1) + 1] = First[n + 1] + FrameLen(n + 1)
      BY <1>12, FirstLen
    <2>4. m_read_index + FrameLen(n + 1) <= m_write_index
      BY <1>7, <1>9, <1>10, <2>2, <2>3
    <2>5. StartsFrame(m_read_index)
      BY <1>4, <1>5, <1>d, <1>12, <2>4, NextIsFrame
    <2>6. m_read_index \in Before(i)
      BY <1>7 DEF Before
    <2> QED
      BY <1>1, <2>5, <2>6 DEF FirstFrame
  <1>14. k = n + 1
    <2>1. ~(n + 1 < k)
      <3> SUFFICES ASSUME n + 1 < k PROVE FALSE
        OBVIOUS
      <3>1. First[n + 1] < First[k]
        BY <1>8, FirstRises
      <3> QED
        BY <1>7, <1>9, <1>10, <1>13, <3>1
    <2> QED
      BY <1>3, <1>8, <1>11, <2>1
  <1> DEFINE s == Served  t == s \o <<k>>
  <1>15. s \in Seq(0..Requests) /\ Len(s) = n /\ \A l \in DOMAIN s : s[l] = l
    BY <1>5, <1>6 DEF n
  <1>16. Served' = t
    BY <1>2
  <1> HIDE DEF s
  <1>17. Len(t) = n + 1 /\ \A l \in DOMAIN t : t[l] = l
    BY <1>8, <1>14, <1>15
  <1> HIDE DEF t
  <1>18. consumed' = First[(n + 1) + 1] - 1
    <2>1. First[(n + 1) + 1] = First[n + 1] + FrameLen(n + 1) /\ FrameLen(n + 1) \in Nat
      BY <1>12, FirstLen
    <2> QED
      BY <1>4, <1>5, <1>9, <1>14, <2>1
  <1>19. Len(Served') = n + 1 /\ n + 1 \in 0..Requests
    BY <1>12, <1>16, <1>17
  <1>20. pc' # "idle"
    BY DEF Decode
  <1> QED
    BY <1>16, <1>17, <1>18, <1>19, <1>20

\* When decode finds nothing more, the requests served are those wholly read.
LEMMA StreamExcute ==
  ASSUME InBufferInv, StateTypes, StreamInv, Excute, ~zeroed, ~dropped, ~misled
  PROVE  WhollyRead = 1..Len(Served)
  <1> DEFINE n == Len(Served)
  <1>1. n \in 0..Requests /\ consumed = First[n + 1] - 1
    BY DEF StreamInv
  <1> HIDE DEF n
  <1>2. Requests \in Nat /\ n \in Nat /\ n <= Requests /\ n + 1 \in 1..Requests + 1
    BY <1>1, StreamFacts
  <1>3. /\ received \in Nat /\ consumed \in Nat /\ m_read_index \in Nat
        /\ m_write_index \in Nat /\ m_read_index <= m_write_index
        /\ m_write_index - m_read_index = received - consumed
    BY Indices, IntactFacts
  <1>4. \A l \in 1..Requests + 1 : First[l] \in Nat
    BY StreamAssumption
  <1>5. First[n + 1] <= received + 1
    BY <1>1, <1>2, <1>3, <1>4
  <1>6. ASSUME NEW k \in 1..Requests, k <= n
        PROVE  First[k + 1] <= received + 1
    <2>1. k + 1 \in 1..Requests + 1 /\ (k = n \/ k + 1 < n + 1)
      BY <1>2, <1>6
    <2>2. k + 1 < n + 1 => First[k + 1] < First[n + 1]
      BY <1>2, <2>1, FirstRises
    <2> QED
      BY <1>2, <1>3, <1>4, <1>5, <2>1, <2>2
  <1>7. ASSUME NEW k \in 1..Requests, n < k
        PROVE  ~(First[k + 1] <= received + 1)
    <2> SUFFICES ASSUME First[k + 1] <= received + 1 PROVE FALSE
      OBVIOUS
    <2>1. /\ n + 1 \in 1..Requests
          /\ k + 1 \in 1..Requests + 1 /\ n + 1 < k + 1
      BY <1>2, <1>7
    <2>2. First[(n + 1) + 1] <= First[k + 1]
      BY <1>2, <2>1, FirstRises
    <2>3. FrameLen(n + 1) \in Nat /\ First[(n + 1) + 1] = First[n + 1] + FrameLen(n + 1)
      BY <2>1, FirstLen
    <2>4. First[n + 1] \in Nat /\ First[k + 1] \in Nat
      BY <1>2, <1>4, <2>1
    <2>5. m_read_index + FrameLen(n + 1) <= m_write_index
      BY <1>1, <1>3, <2>2, <2>3, <2>4
    <2>6. m_read_index \in Unread /\ StartsFrame(m_read_index)
      BY <1>1, <2>1, <2>5, NextIsFrame
    <2> QED
      BY <2>6 DEF Excute, NoFrame
  <1>8. \A k \in 1..Requests : k \in WhollyRead <=> k <= n
    BY <1>2, <1>6, <1>7 DEF WhollyRead
  <1>9. WhollyRead \subseteq 1..Requests
    BY DEF WhollyRead
  <1>10. \A k : k \in WhollyRead <=> k \in 1..n
    <2>1. \A k : k \in 1..n <=> k \in 1..Requests /\ k <= n
      BY <1>2
    <2> QED
      BY <1>8, <1>9, <2>1
  <1>11. WhollyRead = 1..n
    BY <1>10
  <1> QED
    BY <1>11 DEF n

\* Every step keeps each request served once.
LEMMA StreamStep == LifeInv /\ RequestsInv /\ StreamInv /\ [Next]_vars => StreamInv'
  <1> SUFFICES ASSUME LifeInv, RequestsInv, StreamInv, [Next]_vars,
                      ~zeroed', ~dropped', ~misled'
               PROVE  /\ Len(Served') \in 0..Requests
                      /\ consumed' = First[Len(Served') + 1] - 1
                      /\ \A k \in DOMAIN Served' : Served'[k] = k
                      /\ pc' = "idle" => WhollyRead' = 1..Len(Served')
    BY DEF StreamInv
  <1> USE DEF LifeInv
  <1>1. CASE Decode
    BY <1>1, StreamDecode
  <1>2. CASE Read
    <2>1. Served' = Served /\ pc' # "idle" /\ misled' = misled
      BY <1>2 DEF Read, Served, decoded
    <2>2. consumed' = consumed /\ ~zeroed /\ ~dropped
      BY <1>2, ReadKeeps, Indices
    <2> HIDE DEF Served
    <2> QED
      BY <2>1, <2>2 DEF StreamInv
  <1>3. CASE ~Read /\ ~Decode
    <2>1. Served' = Served /\ misled' = misled /\ UNCHANGED in_buffer
      BY <1>3, ServedSteps, Frozen
    <2>2. /\ received' = received /\ consumed' = consumed
          /\ zeroed' = zeroed /\ dropped' = dropped
      BY <2>1 DEF in_buffer
    <2>3. WhollyRead' = WhollyRead
      BY <2>2 DEF WhollyRead
    <2>4. ~zeroed /\ ~dropped /\ ~misled
      BY <2>1, <2>2
    <2>5. pc' = "idle" /\ ~Excute => pc = "idle"
      BY <1>3, <2>4 DEF Next, setState, listenRead, ReadEnds, ReadCloses, DecodeLoops,
         DecodeStrays, OnRead, OnWrite, WriteAll, WriteAgain, WriteFails, ClientSends,
         PeerCloses, vars, StateInv
    <2>6. pc' = "idle" => WhollyRead = 1..Len(Served)
      <3>1. CASE Excute
        BY <2>4, <3>1, StreamExcute
      <3>2. CASE ~Excute
        BY <2>4, <2>5, <3>2 DEF StreamInv
      <3> QED
        BY <3>1, <3>2
    <2> HIDE DEF Served, WhollyRead
    <2> QED
      BY <2>1, <2>2, <2>3, <2>4, <2>6 DEF StreamInv
  <1> QED
    BY <1>1, <1>2, <1>3

\* Until the in-buffer loses bytes or decode takes a frame that begins inside a
\* request, the requests are served each once and in order, however the stream is cut
\* up, and none that is read is left behind.
THEOREM EachServedOnce == Spec => []ServedUntilDamaged
  <1>1. Init => StreamInv
    <2> SUFFICES ASSUME Init PROVE StreamInv
      OBVIOUS
    <2>1. Served = <<>>
      BY DEF Init, Served
    <2>2. Len(Served) = 0 /\ DOMAIN Served = {}
      BY <2>1
    <2>3. received = 0 /\ consumed = 0 /\ Requests \in Nat /\ First[1] = 1
      BY StreamAssumption DEF Init, In!Init
    <2>4. WhollyRead = {}
      <3> SUFFICES ASSUME NEW k \in 1..Requests PROVE ~(First[k + 1] <= 1)
        BY <2>3 DEF WhollyRead
      <3> QED
        BY FirstLen
    <2> QED
      BY <2>2, <2>3, <2>4 DEF StreamInv
  <1>2. LifeInv /\ StreamInv => ServedUntilDamaged
    <2> SUFFICES ASSUME LifeInv, StreamInv, ~zeroed, ~dropped, ~misled
                 PROVE  /\ Served = [k \in 1..Len(Served) |-> k]
                        /\ pc = "idle" => WhollyRead = 1..Len(Served)
      BY DEF ServedUntilDamaged
    <2>1. /\ Served \in Seq(0..Requests) /\ Len(Served) \in Nat
          /\ DOMAIN Served = 1..Len(Served)
      BY ServedIsSeq DEF LifeInv
    <2>2. /\ \A k \in DOMAIN Served : Served[k] = k
          /\ pc = "idle" => WhollyRead = 1..Len(Served)
      BY DEF StreamInv
    <2>3. Served = [k \in 1..Len(Served) |-> k]
      <3> DEFINE s == Served
      <3>1. s \in Seq(0..Requests) /\ DOMAIN s = 1..Len(s) /\ \A k \in 1..Len(s) : s[k] = k
        BY <2>1, <2>2
      <3> HIDE DEF s
      <3>2. s = [k \in 1..Len(s) |-> k]
        BY <3>1
      <3> QED
        BY <3>2 DEF s
    <2> QED
      BY <2>2, <2>3
  <1>3. Init => RequestsInv
    BY RequestsInit
  <1> QED
    BY <1>1, <1>2, <1>3, LifeInit, LifeStep, RequestsStep, StreamStep, PTL DEF Spec
=============================================================================
