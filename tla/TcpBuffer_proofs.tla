--------------------------- MODULE TcpBuffer_proofs ---------------------------
(* TcpBuffer for every size, every stream and every mix of its operations.   *)
EXTENDS TcpBuffer, SequenceTheorems, TLAPS

Bytes == 0..MaxBytes

\* A vector built cell by cell is a sequence of that many cells.
LEMMA Vector ==
  ASSUME NEW n \in Nat, NEW f \in [1..n -> Bytes]
  PROVE  f \in Seq(Bytes) /\ Len(f) = n
  <1>1. f \in Seq(Bytes)
    BY SeqDef
  <1> QED
    BY <1>1, LenProperties

\* A new vector holds zeros.
LEMMA ZerosAreBytes ==
  ASSUME NEW n \in Nat
  PROVE  Zeros(n) \in Seq(Bytes) /\ Len(Zeros(n)) = n
  <1>1. Zeros(n) \in [1..n -> Bytes]
    BY BufferAssumption DEF Zeros, Bytes
  <1> QED
    BY <1>1, Vector

\* Copying the next n bytes of the stream into a vector.
LEMMA CopiedBytes ==
  ASSUME received \in 0..MaxBytes, NEW buf \in Seq(Bytes), NEW at \in Nat,
         NEW n \in Nat, received + n <= MaxBytes
  PROVE  /\ Copied(buf, at, n) \in Seq(Bytes)
         /\ Len(Copied(buf, at, n)) = Len(buf)
         /\ \A i \in 1..Len(buf) : Copied(buf, at, n)[i] =
              IF i \in at + 1 .. at + n THEN received + (i - at) ELSE buf[i]
  <1> DEFINE c == Copied(buf, at, n)
  <1>1. Len(buf) \in Nat /\ \A i \in 1..Len(buf) : buf[i] \in Bytes
    OBVIOUS
  <1>2. \A i \in at + 1 .. at + n : received + (i - at) \in Bytes
    BY BufferAssumption DEF Bytes
  <1>3. c \in [1..Len(buf) -> Bytes]
    BY <1>1, <1>2 DEF Copied
  <1>4. \A i \in 1..Len(buf) :
          c[i] = IF i \in at + 1 .. at + n THEN received + (i - at) ELSE buf[i]
    BY <1>1 DEF Copied
  <1> QED
    BY <1>1, <1>3, <1>4, Vector

\* Moving the unread bytes to the front of a new vector.
LEMMA MovedBytes ==
  ASSUME NEW buf \in Seq(Bytes), NEW at \in Nat, NEW count \in Nat,
         at + count <= Len(buf), NEW size \in Nat, count <= size
  PROVE  /\ Moved(buf, at, count, size) \in Seq(Bytes)
         /\ Len(Moved(buf, at, count, size)) = size
         /\ \A i \in 1..count : Moved(buf, at, count, size)[i] = buf[at + i]
  <1> DEFINE c == Moved(buf, at, count, size)
  <1>1. \A i \in 1..size : i <= count => buf[at + i] \in Bytes
    <2> SUFFICES ASSUME NEW i \in 1..size, i <= count PROVE buf[at + i] \in Bytes
      OBVIOUS
    <2>1. at + i \in 1..Len(buf)
      OBVIOUS
    <2> QED
      BY <2>1
  <1>2. c \in [1..size -> Bytes]
    BY <1>1, BufferAssumption DEF Moved, Bytes
  <1>3. \A i \in 1..count : c[i] = buf[at + i]
    BY DEF Moved
  <1> QED
    BY <1>2, <1>3, Vector

-----------------------------------------------------------------------------
\* buf holds, up to cell w, the bytes of the stream, those after cell r following
\* the first `from'.
Holds(buf, r, w, from) == \A i \in 1..w : buf[i] = from + (i - r)

\* adjustBuffer, called with the bytes from r to w unread.
LEMMA AdjustTypes ==
  ASSUME NEW buf \in Seq(Bytes), NEW r \in Nat, NEW w \in Nat,
         r <= w, w <= Len(buf), zeroed \in BOOLEAN, adjustBuffer(buf, r, w)
  PROVE  /\ m_buffer' \in Seq(Bytes) /\ Len(m_buffer') = Len(buf)
         /\ m_read_index' \in Nat /\ m_write_index' \in Nat
         /\ zeroed' \in BOOLEAN
         /\ m_read_index' <= m_write_index' /\ m_write_index' <= w
         /\ m_write_index' - m_read_index' = w - r /\ m_read_index' <= r
  <1>1. CASE r < Len(buf) \div 3
    <2>1. /\ m_buffer' = buf /\ m_read_index' = r /\ m_write_index' = w
          /\ zeroed' = zeroed
      BY <1>1 DEF adjustBuffer
    <2> QED
      BY <2>1
  <1>2. CASE ~(r < Len(buf) \div 3)
    <2>1. /\ m_buffer' = Zeros(Len(buf)) /\ m_read_index' = 0
          /\ m_write_index' = w - r
      BY <1>2 DEF adjustBuffer
    <2>2. zeroed' \in BOOLEAN
      BY <1>2 DEF adjustBuffer
    <2>3. Len(buf) \in Nat
      OBVIOUS
    <2>4. Zeros(Len(buf)) \in Seq(Bytes) /\ Len(Zeros(Len(buf))) = Len(buf)
      BY <2>3, ZerosAreBytes
    <2> QED
      BY <2>1, <2>2, <2>4
  <1> QED
    BY <1>1, <1>2

\* If adjustBuffer damages nothing, the unread bytes stay where they are.
LEMMA AdjustKeeps ==
  ASSUME NEW buf \in Seq(Bytes), NEW r \in Nat, NEW w \in Nat, NEW from \in Nat,
         r <= w, Holds(buf, r, w, from), adjustBuffer(buf, r, w), ~zeroed'
  PROVE  ~zeroed /\ Holds(m_buffer', m_read_index', m_write_index', from)
  <1>1. CASE r < Len(buf) \div 3
    BY <1>1 DEF adjustBuffer
  <1>2. CASE ~(r < Len(buf) \div 3)
    <2>1. /\ m_read_index' = 0 /\ m_write_index' = w - r
          /\ zeroed' = (zeroed \/ r < w)
      BY <1>2 DEF adjustBuffer
    <2>2. ~zeroed /\ ~(r < w)
      BY <2>1, Zenon
    <2>3. m_write_index' = 0
      BY <2>1, <2>2
    <2> QED
      BY <2>1, <2>2, <2>3 DEF Holds
  <1> QED
    BY <1>1, <1>2

-----------------------------------------------------------------------------
Shape ==
  /\ m_buffer \in Seq(Bytes) /\ Len(m_buffer) > 0
  /\ m_read_index \in Nat /\ m_write_index \in Nat
  /\ received \in 0..MaxBytes /\ consumed \in Nat
  /\ zeroed \in BOOLEAN /\ dropped \in BOOLEAN
  /\ m_read_index <= m_write_index /\ m_write_index <= Len(m_buffer)
  /\ m_read_index <= consumed

\* The bytes taken out are still before the read index: moveReadIndex may go back.
Intact ==
  ~zeroed /\ ~dropped =>
    /\ m_write_index - m_read_index = received - consumed
    /\ Holds(m_buffer, m_read_index, m_write_index, consumed)

BufferInv == calls \in Roles /\ Shape /\ Intact

\* The invariant holds types, indices and contents.
LEMMA BufferInvMeans == BufferInv => TypeOK /\ IndicesOrdered /\ IntactUntilDamaged
  <1> SUFFICES ASSUME BufferInv PROVE TypeOK /\ IndicesOrdered /\ IntactUntilDamaged
    OBVIOUS
  <1>1. TypeOK /\ IndicesOrdered
    BY DEF BufferInv, Shape, TypeOK, IndicesOrdered, Size, Bytes
  <1>2. ASSUME ~zeroed, ~dropped PROVE UnreadIsStream
    <2>1. \A i \in m_read_index + 1 .. m_write_index : i \in 1..m_write_index
      BY DEF BufferInv, Shape
    <2> QED
      BY <1>2, <2>1 DEF BufferInv, Intact, Holds, UnreadIsStream, readAble
  <1> QED
    BY <1>1, <1>2 DEF IntactUntilDamaged

\* One read of onRead and its moveWriteIndex.
LEMMA ReceiveStep ==
  ASSUME Shape, Intact, NEW n \in 1..MaxBytes, moveWriteIndex(n)
  PROVE  Shape' /\ Intact'
  <1> USE BufferAssumption
  <1> DEFINE buf == Copied(m_buffer, m_write_index, n)
  <1>1. /\ n \in Nat /\ n <= Len(m_buffer) - m_write_index
        /\ received + n <= MaxBytes
        /\ received' = received + n /\ consumed' = consumed
    BY DEF moveWriteIndex, writeAble, Size
  <1>2. /\ buf \in Seq(Bytes) /\ Len(buf) = Len(m_buffer)
        /\ \A i \in 1..Len(m_buffer) : buf[i] =
             IF i \in m_write_index + 1 .. m_write_index + n
             THEN received + (i - m_write_index) ELSE m_buffer[i]
    BY <1>1, CopiedBytes DEF Shape
  <1>3. CASE m_write_index + n >= Len(m_buffer)
    <2>1. /\ m_buffer' = buf /\ dropped' = TRUE /\ zeroed' = zeroed
          /\ m_read_index' = m_read_index /\ m_write_index' = m_write_index
      BY <1>3 DEF moveWriteIndex, Size
    <2> HIDE DEF buf
    <2> QED
      BY <1>1, <1>2, <2>1 DEF Shape, Intact
  <1>4. CASE m_write_index + n < Len(m_buffer)
    <2>1. adjustBuffer(buf, m_read_index, m_write_index + n) /\ dropped' = dropped
      BY <1>1, <1>4 DEF moveWriteIndex, Size, Shape
    <2> HIDE DEF buf
    <2>2. m_write_index + n \in Nat /\ m_read_index <= m_write_index + n
      BY <1>1 DEF Shape
    <2>3. Shape' /\ m_write_index' - m_read_index' = m_write_index + n - m_read_index
      BY <1>1, <1>2, <1>4, <2>1, <2>2, AdjustTypes DEF Shape
    <2>4. ASSUME ~zeroed, ~dropped
          PROVE  Holds(buf, m_read_index, m_write_index + n, consumed)
      <3>1. /\ m_read_index \in Nat /\ m_write_index \in Nat /\ consumed \in Nat
            /\ received \in Nat /\ m_read_index <= m_write_index
        BY DEF Shape
      <3>2. /\ m_write_index - m_read_index = received - consumed
            /\ \A i \in 1..m_write_index : m_buffer[i] = consumed + (i - m_read_index)
        BY <2>4 DEF Intact, Holds
      <3> SUFFICES ASSUME NEW i \in 1 .. m_write_index + n
                   PROVE  buf[i] = consumed + (i - m_read_index)
        BY DEF Holds
      <3>3. i \in 1..Len(m_buffer)
        BY <1>1, <1>4, <3>1, <1>2
      <3>4. CASE i <= m_write_index
        <4>1. buf[i] = m_buffer[i]
          BY <1>1, <1>2, <3>1, <3>3, <3>4
        <4> QED
          BY <3>1, <3>2, <3>4, <4>1
      <3>5. CASE i > m_write_index
        <4>1. buf[i] = received + (i - m_write_index)
          BY <1>1, <1>2, <3>1, <3>3, <3>5
        <4> QED
          BY <3>1, <3>2, <4>1
      <3> QED
        BY <3>1, <3>4, <3>5
    <2>5. ASSUME ~zeroed', ~dropped'
          PROVE  Holds(m_buffer', m_read_index', m_write_index', consumed')
      <3>1. ~zeroed
        BY <2>1, <2>5 DEF adjustBuffer
      <3> QED
        BY <1>1, <1>2, <2>1, <2>2, <2>4, <2>5, <3>1, AdjustKeeps DEF Shape
    <2>6. ASSUME ~zeroed', ~dropped'
          PROVE  m_write_index' - m_read_index' = received' - consumed'
      <3>1. ~zeroed
        BY <2>1, <2>6 DEF adjustBuffer
      <3> QED
        <4>1. m_write_index - m_read_index = received - consumed
          BY <2>1, <2>6, <3>1 DEF Intact
        <4>2. received \in Int /\ consumed \in Int
              /\ m_write_index \in Int /\ m_read_index \in Int
          BY DEF Shape
        <4> QED
          BY <1>1, <2>3, <4>1, <4>2
    <2> QED
      BY <2>3, <2>5, <2>6 DEF Intact
  <1> QED
    BY <1>1, <1>3, <1>4 DEF Shape

\* The doubling of a full buffer.
LEMMA GrowStep ==
  ASSUME Shape, Intact, resizeBuffer
  PROVE  Shape' /\ Intact'
  <1> DEFINE count == m_write_index - m_read_index
             size == 2 * Len(m_buffer)
             buf == Moved(m_buffer, m_read_index, count, size)
  <1>1. count \in Nat /\ size \in Nat /\ count <= size /\ size > 0
        /\ m_read_index + count <= Len(m_buffer)
    BY DEF Shape
  <1>2. /\ m_buffer' = buf /\ m_read_index' = 0 /\ m_write_index' = count
        /\ UNCHANGED <<received, consumed, zeroed, dropped>>
    BY DEF resizeBuffer, readAble, Size
  <1>3. /\ buf \in Seq(Bytes) /\ Len(buf) = size
        /\ \A i \in 1..count : buf[i] = m_buffer[m_read_index + i]
    <2>1. m_buffer \in Seq(Bytes) /\ m_read_index \in Nat
      BY DEF Shape
    <2>2. ASSUME NEW c \in Nat, NEW z \in Nat, c <= z, m_read_index + c <= Len(m_buffer)
          PROVE  /\ Moved(m_buffer, m_read_index, c, z) \in Seq(Bytes)
                 /\ Len(Moved(m_buffer, m_read_index, c, z)) = z
                 /\ \A i \in 1..c : Moved(m_buffer, m_read_index, c, z)[i]
                                   = m_buffer[m_read_index + i]
      <3> HIDE BufferAssumption
      <3> QED
        BY <2>1, <2>2, MovedBytes
    <2> HIDE DEF count, size
    <2> QED
      BY <1>1, <2>2, Zenon
  <1> HIDE DEF buf, size
  <1>4. Shape'
    BY <1>1, <1>2, <1>3 DEF Shape
  <1>5. ASSUME Holds(m_buffer, m_read_index, m_write_index, consumed)
        PROVE  Holds(buf, 0, count, consumed)
    BY <1>1, <1>3, <1>5 DEF Shape, Holds
  <1> QED
    BY <1>1, <1>2, <1>4, <1>5 DEF Shape, Intact

\* Bytes taken out, or put back: readFromBuffer, and moveReadIndex when it is not
\* refused.
LEMMA TakeStep ==
  ASSUME Shape, Intact, NEW n \in Int, m_read_index + n <= m_write_index,
         m_read_index + n >= 0,
         adjustBuffer(m_buffer, m_read_index + n, m_write_index),
         consumed' = consumed + n, UNCHANGED <<received, dropped>>
  PROVE  Shape' /\ Intact'
  <1>0. m_read_index + n \in Nat /\ consumed + n \in Nat /\ m_read_index + n <= consumed + n
    BY DEF Shape
  <1>1. Shape' /\ m_write_index' - m_read_index' = m_write_index - (m_read_index + n)
    BY <1>0, AdjustTypes DEF Shape
  <1>2. ASSUME ~zeroed', ~dropped'
        PROVE  /\ m_write_index' - m_read_index' = received' - consumed'
               /\ Holds(m_buffer', m_read_index', m_write_index', consumed')
    <2>1. ~zeroed /\ ~dropped
      BY <1>2 DEF adjustBuffer
    <2>2. m_write_index' - m_read_index' = received' - consumed'
      <3>1. m_write_index - m_read_index = received - consumed
        BY <2>1 DEF Intact
      <3>2. received \in Int /\ consumed \in Int
            /\ m_write_index \in Int /\ m_read_index \in Int
        BY DEF Shape
      <3> QED
        BY <1>1, <3>1, <3>2
    <2>3. Holds(m_buffer, m_read_index + n, m_write_index, consumed + n)
      BY <2>1 DEF Shape, Intact, Holds
    <2> QED
      BY <1>0, <1>2, <2>2, <2>3, AdjustKeeps DEF Shape
  <1> QED
    BY <1>1, <1>2 DEF Intact

\* encode's append, in place or in a larger vector.
LEMMA AppendStep ==
  ASSUME Shape, Intact, NEW n \in 1..MaxBytes, writeToBuffer(n)
  PROVE  Shape' /\ Intact'
  <1> USE BufferAssumption
  <1>1. /\ n \in Nat /\ received + n <= MaxBytes /\ received' = received + n
        /\ UNCHANGED <<consumed, zeroed, dropped>>
    BY DEF writeToBuffer
  <1>2. CASE n <= Len(m_buffer) - m_write_index
    <2> DEFINE buf == Copied(m_buffer, m_write_index, n)
    <2>1. /\ buf \in Seq(Bytes) /\ Len(buf) = Len(m_buffer)
          /\ \A i \in 1..Len(m_buffer) : buf[i] =
               IF i \in m_write_index + 1 .. m_write_index + n
               THEN received + (i - m_write_index) ELSE m_buffer[i]
      BY <1>1, CopiedBytes DEF Shape
    <2>2. ~(n > writeAble)
      BY <1>1, <1>2 DEF Shape, writeAble, Size
    <2>3. /\ m_buffer' = buf /\ m_read_index' = m_read_index
          /\ m_write_index' = m_write_index + n
      BY <2>2 DEF writeToBuffer
    <2> HIDE DEF buf
    <2>4. Shape'
      BY <1>1, <1>2, <2>1, <2>3 DEF Shape
    <2>5. ASSUME ~zeroed, ~dropped
          PROVE  Holds(buf, m_read_index, m_write_index + n, consumed)
      <3>1. /\ m_read_index \in Nat /\ m_write_index \in Nat /\ consumed \in Nat
            /\ received \in Nat /\ m_read_index <= m_write_index
        BY DEF Shape
      <3>2. /\ m_write_index - m_read_index = received - consumed
            /\ \A i \in 1..m_write_index : m_buffer[i] = consumed + (i - m_read_index)
        BY <2>5 DEF Intact, Holds
      <3> SUFFICES ASSUME NEW i \in 1 .. m_write_index + n
                   PROVE  buf[i] = consumed + (i - m_read_index)
        BY DEF Holds
      <3>3. i \in 1..Len(m_buffer)
        BY <1>1, <1>2, <2>1, <3>1
      <3>4. CASE i <= m_write_index
        <4>1. buf[i] = m_buffer[i]
          BY <1>1, <2>1, <3>1, <3>3, <3>4
        <4> QED
          BY <3>1, <3>2, <3>4, <4>1
      <3>5. CASE i > m_write_index
        <4>1. buf[i] = received + (i - m_write_index)
          BY <1>1, <2>1, <3>1, <3>3, <3>5
        <4> QED
          BY <3>1, <3>2, <4>1
      <3> QED
        BY <3>1, <3>4, <3>5
    <2> QED
      BY <1>1, <2>3, <2>4, <2>5 DEF Shape, Intact
  <1>3. CASE n > Len(m_buffer) - m_write_index
    <2> DEFINE count == m_write_index - m_read_index
               size == (3 * (m_write_index + n)) \div 2
               old == Moved(m_buffer, m_read_index, count, size)
               buf == Copied(old, count, n)
    <2>1. /\ count \in Nat /\ size \in Nat /\ count + n <= size /\ size > 0
          /\ count <= size /\ m_read_index + count <= Len(m_buffer)
      BY <1>1 DEF Shape
    <2>r. received \in 0..MaxBytes /\ m_buffer \in Seq(Bytes) /\ m_read_index \in Nat
      BY DEF Shape
    <2>2. n > writeAble
      BY <1>3 DEF writeAble, Size
    <2>3. /\ m_buffer' = buf /\ m_read_index' = 0 /\ m_write_index' = count + n
      BY <2>2 DEF writeToBuffer, readAble
    <2>4. /\ old \in Seq(Bytes) /\ Len(old) = size
          /\ \A i \in 1..count : old[i] = m_buffer[m_read_index + i]
      <3>1. ASSUME NEW c \in Nat, NEW z \in Nat, c <= z,
                   m_read_index + c <= Len(m_buffer)
            PROVE  /\ Moved(m_buffer, m_read_index, c, z) \in Seq(Bytes)
                   /\ Len(Moved(m_buffer, m_read_index, c, z)) = z
                   /\ \A i \in 1..c : Moved(m_buffer, m_read_index, c, z)[i]
                                     = m_buffer[m_read_index + i]
        <4> HIDE BufferAssumption
        <4> QED
          BY <2>r, <3>1, MovedBytes
      <3> HIDE DEF size, count
      <3> QED
        BY <2>1, <3>1, Zenon
    <2>5. /\ buf \in Seq(Bytes) /\ Len(buf) = size
          /\ \A i \in 1..size : buf[i] =
               IF i \in count + 1 .. count + n THEN received + (i - count) ELSE old[i]
      <3>1. ASSUME NEW b \in Seq(Bytes), NEW at \in Nat
            PROVE  /\ Copied(b, at, n) \in Seq(Bytes)
                   /\ Len(Copied(b, at, n)) = Len(b)
                   /\ \A i \in 1..Len(b) : Copied(b, at, n)[i] =
                        IF i \in at + 1 .. at + n THEN received + (i - at) ELSE b[i]
        BY <1>1, <2>r, CopiedBytes
      <3> HIDE DEF size, old, count
      <3> QED
        BY <2>1, <2>4, <3>1, Zenon
    <2> HIDE DEF size, old, buf
    <2>6. Shape'
      BY <1>1, <2>1, <2>3, <2>5 DEF Shape
    <2>7. ASSUME ~zeroed, ~dropped
          PROVE  Holds(buf, 0, count + n, consumed)
      <3>1. /\ count = received - consumed
            /\ \A i \in 1..count : m_buffer[m_read_index + i] = consumed + i
        BY <2>7 DEF Shape, Intact, Holds
      <3> HIDE DEF count
      <3>2. \A i \in 1..count : buf[i] = consumed + i
        BY <1>1, <2>1, <2>4, <2>5, <3>1
      <3>3. \A i \in count + 1 .. count + n : buf[i] = consumed + i
        BY <1>1, <2>1, <2>5, <3>1 DEF Shape
      <3>4. consumed \in Nat
        BY DEF Shape
      <3> QED
        BY <1>1, <2>1, <3>2, <3>3, <3>4 DEF Holds
    <2> QED
      BY <1>1, <2>1, <2>3, <2>6, <2>7 DEF Shape, Intact
  <1> QED
    BY <1>1, <1>2, <1>3 DEF Shape

\* A new buffer, of any size.
LEMMA BufferInit == Init => BufferInv
  <1> USE BufferAssumption
  <1> SUFFICES ASSUME Init PROVE calls \in Roles /\ Shape /\ Intact
    BY DEF BufferInv
  <1>c. calls \in Roles
    BY DEF Init
  <1>1. m_buffer \in Seq(Bytes) /\ Len(m_buffer) = InitSize
    BY ZerosAreBytes DEF Init
  <1>2. Shape
    <2>1. zeroed \in BOOLEAN /\ dropped \in BOOLEAN
      BY DEF Init
    <2>2. /\ m_read_index \in Nat /\ m_write_index \in Nat
          /\ received \in 0..MaxBytes /\ consumed \in Nat
          /\ m_read_index <= m_write_index /\ m_write_index <= Len(m_buffer)
          /\ m_read_index <= consumed /\ Len(m_buffer) > 0
      <3>1. /\ m_read_index = 0 /\ m_write_index = 0
            /\ received = 0 /\ consumed = 0
        BY DEF Init
      <3> QED
        BY <1>1, <3>1
    <2> QED
      BY <1>1, <2>1, <2>2 DEF Shape
  <1>3. /\ m_read_index = 0 /\ m_write_index = 0
        /\ received = 0 /\ consumed = 0
    BY DEF Init
  <1> QED
    BY <1>c, <1>2, <1>3 DEF Intact, Holds

\* Every call keeps it.
LEMMA BufferStep == BufferInv /\ [Next]_vars => BufferInv'
  <1> USE BufferAssumption
  <1>x. SUFFICES ASSUME BufferInv, [Next]_vars PROVE BufferInv'
    OBVIOUS
  <1>0. calls \in Roles /\ Shape /\ Intact
    BY <1>x DEF BufferInv
  <1>1. ASSUME NEW n \in -Size .. readAble, moveReadIndex(n) PROVE Shape' /\ Intact'
    <2>1. n \in Int /\ m_read_index + n <= m_write_index
      BY <1>0 DEF readAble, Size, Shape
    <2>2. CASE m_read_index + n \notin 0 .. Size - 1
      BY <1>0, <1>1, <2>2 DEF moveReadIndex, Shape, Intact, Holds
    <2>3. CASE m_read_index + n \in 0 .. Size - 1
      BY <1>0, <1>1, <2>1, <2>3, TakeStep DEF moveReadIndex, Shape
    <2> QED
      BY <2>2, <2>3
  <1>2. ASSUME NEW n \in 1..MaxBytes, readFromBuffer(n) PROVE Shape' /\ Intact'
    <2> DEFINE size == IF readAble > n THEN n ELSE readAble
    <2>1. size \in Int /\ m_read_index + size <= m_write_index /\ m_read_index + size >= 0
      BY <1>0 DEF Shape, readAble
    <2>2. /\ adjustBuffer(m_buffer, m_read_index + size, m_write_index)
          /\ consumed' = consumed + size /\ UNCHANGED <<received, dropped>>
      BY <1>2 DEF readFromBuffer
    <2> HIDE DEF size
    <2> QED
      BY <1>0, <2>1, <2>2, TakeStep
  <1>3. ASSUME UNCHANGED vars PROVE Shape' /\ Intact'
    BY <1>0, <1>3 DEF vars, Shape, Intact, Holds
  <1>4. calls' = calls
    BY <1>x DEF Next, vars
  <1>5. \/ resizeBuffer
        \/ \E n \in 1..MaxBytes : moveWriteIndex(n) \/ readFromBuffer(n) \/ writeToBuffer(n)
        \/ \E n \in -Size .. readAble : moveReadIndex(n)
        \/ UNCHANGED vars
    BY <1>x DEF Next
  <1>6. Shape' /\ Intact'
    BY <1>0, <1>1, <1>2, <1>3, <1>5, ReceiveStep, GrowStep, AppendStep, Zenon
  <1>7. (calls \in Roles)'
    BY <1>0, <1>4, Zenon
  <1> QED
    BY <1>6, <1>7, Zenon DEF BufferInv

\* The code's buffer keeps its indices in order and its bytes intact, whatever
\* calls are made in whatever order, until adjustBuffer or moveWriteIndex
\* damages it.
THEOREM BufferInvariant == Spec => []BufferInv
  BY BufferInit, BufferStep, PTL DEF Spec

\* readAble() and writeAble() are never negative: every copy stays inside the
\* vector.
COROLLARY IndicesStayInside == Spec => []IndicesOrdered
  <1> QED
    BY BufferInvMeans, BufferInvariant, PTL

\* adjustBuffer and moveWriteIndex are the only operations that lose a byte.
COROLLARY OnlyTwoWaysToDamage == Spec => []IntactUntilDamaged
  <1> QED
    BY BufferInvMeans, BufferInvariant, PTL

\* A new buffer has room.
LEMMA NotFullInit == Init => InBufferNeverFull
  <1> SUFFICES ASSUME Init PROVE m_write_index < Size
    BY DEF InBufferNeverFull
  <1>1. Len(m_buffer) = InitSize /\ m_write_index = 0
    BY BufferAssumption, ZerosAreBytes DEF Init
  <1> QED
    BY <1>1, BufferAssumption DEF Size

\* A reading connection's operations leave room.
LEMMA NotFullStep == BufferInv /\ InBufferNeverFull /\ [Next]_vars => InBufferNeverFull'
  <1>x. SUFFICES ASSUME BufferInv, InBufferNeverFull, [Next]_vars PROVE InBufferNeverFull'
    OBVIOUS
  <1> SUFFICES ASSUME calls \subseteq {"receive", "grow", "moveRead"}
               PROVE  m_write_index' < Len(m_buffer')
    <2>1. calls' = calls
      BY <1>x DEF Next, vars
    <2> QED
      BY <2>1 DEF InBufferNeverFull, Size
  <1>0. Shape /\ m_write_index < Len(m_buffer)
    BY <1>x DEF BufferInv, InBufferNeverFull, Size
  <1>1. ASSUME NEW buf \in Seq(Bytes), NEW r \in Nat, NEW w \in Nat,
               r <= w, w < Len(buf), adjustBuffer(buf, r, w)
        PROVE  m_write_index' < Len(m_buffer')
    BY <1>0, <1>1, AdjustTypes DEF Shape
  <1>2. ASSUME NEW n \in 1..MaxBytes, moveWriteIndex(n)
        PROVE  m_write_index' < Len(m_buffer')
    <2> DEFINE buf == Copied(m_buffer, m_write_index, n)
    <2>1. /\ n \in Nat /\ received + n <= MaxBytes
          /\ buf \in Seq(Bytes) /\ Len(buf) = Len(m_buffer)
      <3>1. n \in Nat /\ received + n <= MaxBytes
        BY <1>2, BufferAssumption DEF moveWriteIndex
      <3> QED
        BY <1>0, <3>1, CopiedBytes DEF Shape
    <2>2. CASE m_write_index + n >= Len(m_buffer)
      <3>1. m_buffer' = buf /\ m_write_index' = m_write_index
        BY <1>2, <2>2 DEF moveWriteIndex, Size
      <3> HIDE DEF buf
      <3> QED
        BY <1>0, <2>1, <3>1
    <2>3. CASE m_write_index + n < Len(m_buffer)
      <3>1. adjustBuffer(buf, m_read_index, m_write_index + n)
        BY <1>0, <1>2, <2>1, <2>3 DEF moveWriteIndex, Size, Shape
      <3> HIDE DEF buf
      <3> QED
        BY <1>0, <1>1, <2>1, <2>3, <3>1 DEF Shape
    <2> QED
      BY <1>0, <2>1, <2>2, <2>3 DEF Shape
  <1>3. ASSUME NEW n \in -Size .. readAble, moveReadIndex(n)
        PROVE  m_write_index' < Len(m_buffer')
    <2>1. n \in Int /\ m_read_index + n <= m_write_index
      BY <1>0 DEF readAble, Size, Shape
    <2>2. CASE m_read_index + n \in 0 .. Size - 1
      <3>1. adjustBuffer(m_buffer, m_read_index + n, m_write_index)
        BY <1>3, <2>2 DEF moveReadIndex
      <3>2. m_read_index + n \in Nat
        BY <1>0, <2>1, <2>2 DEF Size, Shape
      <3> QED
        BY <1>0, <1>1, <2>1, <3>1, <3>2 DEF Shape
    <2>3. CASE m_read_index + n \notin 0 .. Size - 1
      BY <1>0, <1>3, <2>3 DEF moveReadIndex
    <2> QED
      BY <2>2, <2>3
  <1>4. ~resizeBuffer
    BY <1>0 DEF resizeBuffer, writeAble, Size, Shape
  <1>5. \A n \in 1..MaxBytes : ~readFromBuffer(n) /\ ~writeToBuffer(n)
    BY DEF readFromBuffer, writeToBuffer
  <1>6. CASE UNCHANGED vars
    BY <1>0, <1>6 DEF vars
  <1> QED
    BY <1>x, <1>2, <1>3, <1>4, <1>5, <1>6, Zenon DEF Next

\* The indices a reading connection leaves are below the size of the vector.
\* moveReadIndex is never refused and the buffer is never resized there.
THEOREM NeverFull == Spec => []InBufferNeverFull
  BY NotFullInit, NotFullStep, BufferInvariant, PTL DEF Spec

-----------------------------------------------------------------------------
(* The order of the bytes, damaged or not.                                  *)

\* Up to cell w of buf, the bytes that were not zeroed come in the order of the
\* stream and none is past byte `top'.
Rising(buf, w, top) ==
  /\ \A i \in 1..w : buf[i] <= top
  /\ \A i, j \in 1..w : i < j /\ buf[i] # 0 /\ buf[j] # 0 => buf[i] < buf[j]

\* adjustBuffer may zero the bytes, it does not move one before another.
LEMMA RisingAdjusted ==
  ASSUME NEW buf \in Seq(Bytes), NEW r \in Nat, NEW w \in Nat, NEW top \in Nat,
         r <= w, w <= Len(buf), Rising(buf, w, top), adjustBuffer(buf, r, w)
  PROVE  Rising(m_buffer', m_write_index', top)
  <1>1. CASE r < Len(buf) \div 3
    BY <1>1 DEF adjustBuffer
  <1>2. CASE ~(r < Len(buf) \div 3)
    <2>1. m_buffer' = Zeros(Len(buf)) /\ m_write_index' = w - r
      BY <1>2 DEF adjustBuffer
    <2>2. \A i \in 1..Len(buf) : Zeros(Len(buf))[i] = 0
      BY DEF Zeros
    <2>3. \A i \in 1 .. w - r : i \in 1..Len(buf)
      OBVIOUS
    <2> HIDE DEF Zeros
    <2>4. \A i \in 1 .. w - r : Zeros(Len(buf))[i] = 0
      BY <2>2, <2>3
    <2> QED
      BY <2>1, <2>4 DEF Rising
  <1> QED
    BY <1>1, <1>2

\* The next bytes of the stream come after all those in the vector.
LEMMA RisingCopied ==
  ASSUME received \in 0..MaxBytes, NEW buf \in Seq(Bytes), NEW at \in Nat,
         NEW n \in Nat, at + n <= Len(buf),
         received + n <= MaxBytes, Rising(buf, at, received)
  PROVE  Rising(Copied(buf, at, n), at + n, received + n)
  <1> DEFINE c == Copied(buf, at, n)
  <1>0. received \in Nat
    BY BufferAssumption
  <1>1. \A i \in 1..Len(buf) :
          c[i] = IF i \in at + 1 .. at + n THEN received + (i - at) ELSE buf[i]
    BY CopiedBytes
  <1>2. \A i \in 1..Len(buf) : buf[i] \in Nat
    BY BufferAssumption DEF Bytes
  <1> HIDE DEF c
  <1>3. \A i \in 1..at : c[i] = buf[i] /\ c[i] <= received /\ c[i] \in Nat
    <2> TAKE i \in 1..at
    <2>1. i \in 1..Len(buf) /\ i \notin at + 1 .. at + n
      OBVIOUS
    <2>2. c[i] = buf[i] /\ buf[i] \in Nat
      BY <1>1, <1>2, <2>1, Zenon
    <2>3. buf[i] <= received
      BY Zenon DEF Rising
    <2> QED
      BY <2>2, <2>3
  <1>4. \A i \in at + 1 .. at + n : c[i] = received + (i - at)
    BY <1>0, <1>1
  <1>5. \A i \in 1 .. at + n : i \in 1..at \/ i \in at + 1 .. at + n
    OBVIOUS
  <1>6. \A i \in 1 .. at + n : c[i] <= received + n
    BY <1>0, <1>3, <1>4, <1>5
  <1>7. \A i, j \in 1 .. at + n : i < j /\ c[i] # 0 /\ c[j] # 0 => c[i] < c[j]
    <2> SUFFICES ASSUME NEW i \in 1 .. at + n, NEW j \in 1 .. at + n,
                        i < j, c[i] # 0, c[j] # 0
                 PROVE  c[i] < c[j]
      OBVIOUS
    <2>1. CASE j \in 1..at
      <3>1. i \in 1..at
        BY <2>1
      <3> QED
        BY <1>3, <2>1, <3>1 DEF Rising
    <2>2. CASE j \in at + 1 .. at + n /\ i \in 1..at
      BY <1>0, <1>3, <1>4, <2>2
    <2>3. CASE j \in at + 1 .. at + n /\ i \in at + 1 .. at + n
      BY <1>0, <1>4, <2>3
    <2> QED
      BY <1>5, <2>1, <2>2, <2>3
  <1> QED
    BY <1>6, <1>7, Zenon DEF Rising, c

\* Moved to a new vector, the unread bytes keep their order.
LEMMA RisingMoved ==
  ASSUME NEW buf \in Seq(Bytes), NEW at \in Nat, NEW count \in Nat, NEW top \in Nat,
         at + count <= Len(buf), NEW size \in Nat, count <= size,
         Rising(buf, at + count, top)
  PROVE  Rising(Moved(buf, at, count, size), count, top)
  <1> DEFINE c == Moved(buf, at, count, size)
  <1>1. \A i \in 1..count : c[i] = buf[at + i]
    BY DEF Moved
  <1> HIDE DEF c
  <1>2. \A i \in 1..count : at + i \in 1 .. at + count
    OBVIOUS
  <1>3. \A i \in 1..count : c[i] <= top
    BY <1>1, <1>2 DEF Rising
  <1>4. \A i, j \in 1..count : i < j /\ c[i] # 0 /\ c[j] # 0 => c[i] < c[j]
    <2> SUFFICES ASSUME NEW i \in 1..count, NEW j \in 1..count,
                        i < j, c[i] # 0, c[j] # 0
                 PROVE  c[i] < c[j]
      OBVIOUS
    <2>1. at + i < at + j /\ at + i \in 1 .. at + count /\ at + j \in 1 .. at + count
      OBVIOUS
    <2> QED
      BY <1>1, <2>1 DEF Rising
  <1> QED
    BY <1>3, <1>4, Zenon DEF Rising, c

\* Bytes that are taken out stay in order too: moveReadIndex may go back to them.
UnreadRises == Rising(m_buffer, m_write_index, received)

\* Each operation keeps the bytes rising.
LEMMA RisingSteps ==
  ASSUME Shape, UnreadRises,
         \/ \E n \in 1..MaxBytes : moveWriteIndex(n) \/ readFromBuffer(n) \/ writeToBuffer(n)
         \/ \E n \in -Size .. readAble : moveReadIndex(n)
  PROVE  UnreadRises'
  <1>0. /\ received \in Nat /\ received \in 0..MaxBytes
        /\ m_read_index \in Nat /\ m_write_index \in Nat
        /\ m_read_index <= m_write_index /\ m_write_index <= Len(m_buffer)
        /\ m_buffer \in Seq(Bytes)
    BY BufferAssumption DEF Shape
  <1>r. Rising(m_buffer, m_write_index, received)
    BY DEF UnreadRises
  <1>1. ASSUME NEW r \in Nat, r <= m_write_index,
               adjustBuffer(m_buffer, r, m_write_index), received' = received
        PROVE  UnreadRises'
    <2>1. Rising(m_buffer', m_write_index', received)
      BY <1>0, <1>r, <1>1, RisingAdjusted
    <2> QED
      BY <1>1, <2>1 DEF UnreadRises
  <1>2. ASSUME NEW n \in 1..MaxBytes, moveWriteIndex(n) PROVE UnreadRises'
    <2> DEFINE buf == Copied(m_buffer, m_write_index, n)
    <2>1. /\ n <= Len(m_buffer) - m_write_index /\ received + n <= MaxBytes
          /\ received' = received + n /\ n \in Nat
      BY <1>2, BufferAssumption DEF moveWriteIndex, writeAble, Size
    <2>2. /\ buf \in Seq(Bytes) /\ Len(buf) = Len(m_buffer)
          /\ \A i \in 1..Len(m_buffer) : buf[i] =
               IF i \in m_write_index + 1 .. m_write_index + n
               THEN received + (i - m_write_index) ELSE m_buffer[i]
      BY <1>0, <2>1, CopiedBytes
    <2>3. Rising(buf, m_write_index + n, received + n)
      BY <1>0, <1>r, <2>1, RisingCopied
    <2>4. CASE m_write_index + n >= Len(m_buffer)
      <3>1. m_buffer' = buf /\ m_write_index' = m_write_index
        BY <1>2, <2>4 DEF moveWriteIndex, Size
      <3> HIDE DEF buf
      <3>2. Rising(buf, m_write_index, received + n)
        BY <1>0, <2>1, <2>3 DEF Rising
      <3> QED
        BY <2>1, <3>1, <3>2 DEF UnreadRises
    <2>5. CASE ~(m_write_index + n >= Len(m_buffer))
      <3>1. adjustBuffer(buf, m_read_index, m_write_index + n)
        BY <1>2, <2>5 DEF moveWriteIndex, Size
      <3> HIDE DEF buf
      <3>2. /\ m_write_index + n \in Nat /\ m_read_index <= m_write_index + n
            /\ m_write_index + n <= Len(buf) /\ received + n \in Nat
        BY <1>0, <2>1, <2>2
      <3>3. Rising(m_buffer', m_write_index', received + n)
        BY <1>0, <2>2, <2>3, <3>1, <3>2, RisingAdjusted
      <3> QED
        BY <2>1, <3>3 DEF UnreadRises
    <2> QED
      BY <2>4, <2>5
  <1>3. ASSUME NEW n \in -Size .. readAble, moveReadIndex(n) PROVE UnreadRises'
    <2>1. m_read_index + n \in Int /\ m_read_index + n <= m_write_index
      BY <1>0 DEF readAble, Size
    <2>2. CASE m_read_index + n \notin 0 .. Size - 1
      BY <1>3, <2>2 DEF moveReadIndex, UnreadRises, Rising
    <2>3. CASE m_read_index + n \in 0 .. Size - 1
      <3>1. /\ adjustBuffer(m_buffer, m_read_index + n, m_write_index)
            /\ received' = received
        BY <1>3, <2>3 DEF moveReadIndex
      <3>2. m_read_index + n \in Nat
        BY <2>1, <2>3 DEF Size
      <3> QED
        BY <1>1, <2>1, <3>1, <3>2
    <2> QED
      BY <2>2, <2>3
  <1>4. ASSUME NEW n \in 1..MaxBytes, readFromBuffer(n) PROVE UnreadRises'
    <2> DEFINE size == IF readAble > n THEN n ELSE readAble
    <2>1. m_read_index + size \in Nat /\ m_read_index + size <= m_write_index
      BY <1>0, BufferAssumption DEF readAble
    <2>2. /\ adjustBuffer(m_buffer, m_read_index + size, m_write_index)
          /\ received' = received
      BY <1>4 DEF readFromBuffer
    <2> HIDE DEF size
    <2> QED
      BY <1>1, <2>1, <2>2
  <1>5. ASSUME NEW n \in 1..MaxBytes, writeToBuffer(n) PROVE UnreadRises'
    <2>1. received + n <= MaxBytes /\ received' = received + n /\ n \in Nat
      BY <1>5, BufferAssumption DEF writeToBuffer
    <2>2. CASE ~(n > writeAble)
      <3>1. /\ m_buffer' = Copied(m_buffer, m_write_index, n)
            /\ m_write_index' = m_write_index + n
        BY <1>5, <2>2 DEF writeToBuffer
      <3>2. m_write_index + n <= Len(m_buffer)
        BY <1>0, <2>1, <2>2 DEF writeAble, Size
      <3>3. Rising(Copied(m_buffer, m_write_index, n), m_write_index + n, received + n)
        BY <1>0, <1>r, <2>1, <3>2, RisingCopied
      <3> QED
        BY <2>1, <3>1, <3>3 DEF UnreadRises
    <2>3. CASE n > writeAble
      <3> DEFINE count == m_write_index - m_read_index
                 size == (3 * (m_write_index + n)) \div 2
                 old == Moved(m_buffer, m_read_index, count, size)
      <3>1. m_buffer' = Copied(old, count, n) /\ m_write_index' = count + n
        BY <1>5, <2>3 DEF writeToBuffer, readAble
      <3>2. /\ count \in Nat /\ size \in Nat /\ count + n <= size /\ count <= size
            /\ m_read_index + count = m_write_index
        BY <1>0, <2>1
      <3> HIDE DEF count, size
      <3>3. old \in Seq(Bytes) /\ Len(old) = size
        BY <1>0, <3>2, MovedBytes
      <3>4. Rising(old, count, received)
        BY <1>0, <1>r, <3>2, RisingMoved
      <3> HIDE DEF old
      <3>5. Rising(Copied(old, count, n), count + n, received + n)
        BY <1>0, <2>1, <3>2, <3>3, <3>4, RisingCopied
      <3> QED
        BY <2>1, <3>1, <3>5 DEF UnreadRises
    <2> QED
      BY <2>2, <2>3
  <1> QED
    BY <1>2, <1>3, <1>4, <1>5

\* A new buffer has nothing in it.
LEMMA RisingInit == Init => UnreadRises
  BY DEF Init, UnreadRises, Rising

\* Every operation leaves the bytes in order.
LEMMA RisingStep == BufferInv /\ UnreadRises /\ [Next]_vars => UnreadRises'
  <1>x. SUFFICES ASSUME BufferInv, UnreadRises, [Next]_vars PROVE UnreadRises'
    OBVIOUS
  <1>0. Shape
    BY <1>x DEF BufferInv
  <1>1. CASE resizeBuffer
    <2> DEFINE count == m_write_index - m_read_index
               size == 2 * Len(m_buffer)
    <2>1. /\ m_buffer' = Moved(m_buffer, m_read_index, count, size)
          /\ m_write_index' = count /\ received' = received
      BY <1>1 DEF resizeBuffer, readAble, Size
    <2>2. /\ count \in Nat /\ size \in Nat /\ count <= size
          /\ m_read_index + count = m_write_index /\ m_write_index <= Len(m_buffer)
          /\ m_buffer \in Seq(Bytes) /\ m_read_index \in Nat /\ received \in Nat
      BY <1>0, BufferAssumption DEF Shape
    <2>3. Rising(m_buffer, m_read_index + count, received)
      BY <1>x, <2>2 DEF UnreadRises
    <2> HIDE DEF count, size
    <2>4. Rising(Moved(m_buffer, m_read_index, count, size), count, received)
      BY <2>2, <2>3, RisingMoved
    <2> QED
      BY <2>1, <2>4 DEF UnreadRises
  <1>2. CASE UNCHANGED vars
    BY <1>x, <1>2 DEF vars, UnreadRises, Rising
  <1> QED
    BY <1>x, <1>0, <1>1, <1>2, RisingSteps, Zenon DEF Next

\* A damaged buffer still gives its bytes in the order of the stream: what a
\* receiver reads is the stream with bytes missing or zeroed, never one twice
\* or before an earlier one.
THEOREM UnreadNeverReordered == Spec => []UnreadInOrder
  <1>1. BufferInv /\ UnreadRises => UnreadInOrder
    <2> SUFFICES ASSUME BufferInv, UnreadRises PROVE UnreadInOrder
      OBVIOUS
    <2>1. \A i \in m_read_index + 1 .. m_write_index : i \in 1..m_write_index
      BY DEF BufferInv, Shape
    <2> QED
      BY <2>1 DEF UnreadRises, Rising, UnreadInOrder
  <1> QED
    BY <1>1, RisingInit, RisingStep, BufferInvariant, PTL DEF Spec
=============================================================================
