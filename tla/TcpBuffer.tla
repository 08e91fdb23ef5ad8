----------------------------- MODULE TcpBuffer -----------------------------
(***************************************************************************)
(* rocket/net/tcp/tcp_buffer.cc: the growable byte buffer a TcpConnection  *)
(* reads requests into and writes answers from.                            *)
(*                                                                         *)
(* A byte is its position in the stream that goes through the buffer: 1,   *)
(* 2, 3...; 0 is a byte nobody put there.  Cell m_buffer[i] of the code is *)
(* m_buffer[i + 1] here.                                                   *)
(***************************************************************************)
EXTENDS Integers, Sequences

CONSTANTS
  InitSize,   \* the buffer_size a TcpConnection passes
  Roles,      \* the sets of operations a buffer's owner may use
  MaxBytes    \* bound: length of the stream

Operations == {"receive", "grow", "moveRead", "readFrom", "writeTo"}

ASSUME BufferAssumption ==
  /\ InitSize \in Nat \ {0}
  /\ Roles \subseteq SUBSET Operations
  /\ MaxBytes \in Nat

VARIABLES
  calls,      \* the operations this buffer's owner uses
  m_buffer, m_read_index, m_write_index,
  received,   \* history: bytes of the stream put in so far
  consumed,   \* history: bytes taken out so far
  zeroed,     \* history: adjustBuffer has run with unread bytes in the buffer
  dropped     \* history: moveWriteIndex has refused bytes that were read

vars == <<calls, m_buffer, m_read_index, m_write_index, received, consumed, zeroed,
          dropped>>

Size == Len(m_buffer)
readAble == m_write_index - m_read_index
writeAble == Size - m_write_index

TypeOK ==
  /\ calls \in Roles
  /\ m_buffer \in Seq(0..MaxBytes)
  /\ m_read_index \in Nat
  /\ m_write_index \in Nat
  /\ received \in 0..MaxBytes
  /\ consumed \in Nat
  /\ zeroed \in BOOLEAN
  /\ dropped \in BOOLEAN

Zeros(n) == [i \in 1..n |-> 0]

Init ==
  /\ calls \in Roles
  /\ m_buffer = Zeros(InitSize)
  /\ m_read_index = 0
  /\ m_write_index = 0
  /\ received = 0
  /\ consumed = 0
  /\ zeroed = FALSE
  /\ dropped = FALSE

-----------------------------------------------------------------------------
\* Defect: they go to the read index, not the write index.
CopiedToReadIndex(buf, at, n) ==
  [i \in 1..Len(buf) |-> IF i \in m_read_index + 1 .. m_read_index + n
                         THEN received + (i - m_read_index) ELSE buf[i]]

\* The next n bytes of the stream, copied into buf from cell `at' on.
Copied(buf, at, n) ==
  [i \in 1..Len(buf) |-> IF i \in at + 1 .. at + n THEN received + (i - at)
                                                   ELSE buf[i]]

\* Defect: the front of the old vector is copied, not its unread part.
MovedFromFront(buf, at, count, size) ==
  [i \in 1..size |-> IF i <= count THEN buf[i] ELSE 0]

\* The first `count' bytes of buf from cell `at' on, moved to the front of a
\* new vector of `size' cells.
Moved(buf, at, count, size) ==
  [i \in 1..size |-> IF i <= count THEN buf[at + i] ELSE 0]

\* Defect: the memcpy reads from the start of the old vector.
adjustBufferFromFront(buf, r, w) ==
  IF r < Len(buf) \div 3
  THEN /\ m_buffer' = buf
       /\ m_read_index' = r
       /\ m_write_index' = w
       /\ UNCHANGED zeroed
  ELSE /\ m_buffer' = Moved(buf, 0, w - r, Len(buf))
       /\ m_read_index' = 0
       /\ m_write_index' = w - r
       /\ zeroed' = (zeroed \/ r < w)

\* adjustBuffer: once a third of the vector has been read, make a new one.
\* Its memcpy copies the new vector onto itself, so the unread bytes of the
\* old one are lost and what is left to read is zeros.
adjustBuffer(buf, r, w) ==
  IF r < Len(buf) \div 3
  THEN /\ m_buffer' = buf
       /\ m_read_index' = r
       /\ m_write_index' = w
       /\ UNCHANGED zeroed
  ELSE /\ m_buffer' = Zeros(Len(buf))
       /\ m_read_index' = 0
       /\ m_write_index' = w - r
       /\ zeroed' = (zeroed \/ r < w)

-----------------------------------------------------------------------------
\* Defect: an index one past the end is accepted.
moveWriteIndexPastEnd(n) ==
  /\ "receive" \in calls
  /\ n \in 1..writeAble
  /\ received + n <= MaxBytes
  /\ adjustBuffer(Copied(m_buffer, m_write_index, n), m_read_index, m_write_index + n)
  /\ received' = received + n
  /\ UNCHANGED <<consumed, dropped>>

\* One read(2) of TcpConnection::onRead: n bytes land after m_write_index and
\* moveWriteIndex(n) follows.  It refuses the n that fills the buffer, and the
\* next read overwrites the bytes.
moveWriteIndex(n) ==
  /\ "receive" \in calls
  /\ n \in 1..writeAble
  /\ received + n <= MaxBytes
  /\ LET buf == Copied(m_buffer, m_write_index, n)
     IN  IF m_write_index + n >= Size
         THEN /\ m_buffer' = buf
              /\ dropped' = TRUE
              /\ UNCHANGED <<m_read_index, m_write_index, zeroed>>
         ELSE /\ adjustBuffer(buf, m_read_index, m_write_index + n)
              /\ UNCHANGED dropped
  /\ received' = received + n
  /\ UNCHANGED consumed

\* onRead doubles a buffer that has no room left.
resizeBuffer ==
  /\ "grow" \in calls
  /\ writeAble = 0
  /\ m_buffer' = Moved(m_buffer, m_read_index, readAble, 2 * Size)
  /\ m_read_index' = 0
  /\ m_write_index' = readAble
  /\ UNCHANGED <<received, consumed, zeroed, dropped>>

\* decode moves the read index by the length of a frame that ends before the
\* write index.  The length is what four bytes of the stream say: below zero it
\* moves the index back, and before the start of the vector it is refused.
moveReadIndex(n) ==
  /\ "moveRead" \in calls
  /\ n <= readAble
  /\ IF m_read_index + n \in 0 .. Size - 1
     THEN /\ adjustBuffer(m_buffer, m_read_index + n, m_write_index)
          /\ consumed' = consumed + n
          /\ UNCHANGED <<received, dropped>>
     ELSE UNCHANGED <<m_buffer, m_read_index, m_write_index, received,
                      consumed, zeroed, dropped>>

\* Defect: the size asked for is not cut to what there is.
readFromBufferPastEnd(n) ==
  /\ "readFrom" \in calls
  /\ readAble > 0
  /\ adjustBuffer(m_buffer, m_read_index + n, m_write_index)
  /\ consumed' = consumed + n
  /\ UNCHANGED <<received, dropped>>

\* readFromBuffer: up to n bytes are handed to the caller.
readFromBuffer(n) ==
  /\ "readFrom" \in calls
  /\ readAble > 0
  /\ LET size == IF readAble > n THEN n ELSE readAble
     IN  /\ adjustBuffer(m_buffer, m_read_index + size, m_write_index)
         /\ consumed' = consumed + size
  /\ UNCHANGED <<received, dropped>>

\* writeToBuffer: encode appends the n bytes of an answer, in a new vector
\* when there is no room for them.
writeToBuffer(n) ==
  /\ "writeTo" \in calls
  /\ received + n <= MaxBytes
  /\ LET size == (3 * (m_write_index + n)) \div 2
         buf == IF n > writeAble
                THEN Moved(m_buffer, m_read_index, readAble, size) ELSE m_buffer
         w == IF n > writeAble THEN readAble ELSE m_write_index
     IN  /\ m_buffer' = Copied(buf, w, n)
         /\ m_read_index' = IF n > writeAble THEN 0 ELSE m_read_index
         /\ m_write_index' = w + n
  /\ received' = received + n
  /\ UNCHANGED <<consumed, zeroed, dropped>>

Next ==
  /\ \/ resizeBuffer
     \/ \E n \in 1..MaxBytes : moveWriteIndex(n) \/ readFromBuffer(n) \/ writeToBuffer(n)
     \/ \E n \in -Size .. readAble : moveReadIndex(n)
  /\ UNCHANGED calls

Spec == Init /\ [][Next]_vars

-----------------------------------------------------------------------------
\* The read index never passes the write index and the write index never
\* leaves the vector: readAble() and writeAble() are what they say, and every
\* copy stays inside.
IndicesOrdered ==
  /\ m_read_index <= m_write_index
  /\ m_write_index <= Size

\* The bytes left to read are those put in and not taken out, in order.
UnreadIsStream ==
  /\ readAble = received - consumed
  /\ \A i \in m_read_index + 1 .. m_write_index :
       m_buffer[i] = consumed + (i - m_read_index)

\* The buffer is a byte queue until adjustBuffer or moveWriteIndex damages it:
\* growing, appending and taking out never lose, repeat or reorder a byte.  (The picture
\* in tcp_buffer.h:15-18 has adjustBuffer keep the unread bytes d...j; it zeroes them.)
IntactUntilDamaged == ~zeroed /\ ~dropped => UnreadIsStream

\* Even damaged, what is left to read is the stream with bytes missing or
\* zeroed: no byte comes twice or before an earlier one.
UnreadInOrder ==
  \A i, j \in m_read_index + 1 .. m_write_index :
    i < j /\ m_buffer[i] # 0 /\ m_buffer[j] # 0 => m_buffer[i] < m_buffer[j]

\* The buffer a connection reads into is never full: moveWriteIndex refuses
\* the last cell, so no moveReadIndex of decode's is refused for going too far, and
\* onRead's test for a full buffer never succeeds.
InBufferNeverFull ==
  calls \subseteq {"receive", "grow", "moveRead"} => m_write_index < Size
=============================================================================
