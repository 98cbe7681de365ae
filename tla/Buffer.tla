------------------------------- MODULE Buffer -------------------------------
(***************************************************************************)
(* TcFrame::Buffer (src/src/buffer.cpp): a vector of bytes with a read and *)
(* a write index.  Space is made by moving the unread bytes to the front   *)
(* or by growing the vector; a socket is read into the free space and,     *)
(* when that is short, into a second buffer on the stack.                  *)
(*                                                                         *)
(* The asserts of the code are the guards: callers respect them.           *)
(***************************************************************************)
EXTENDS Integers, Sequences

CONSTANTS
  Byte,        \* values of a byte
  Zero,        \* the byte a vector is filled with
  InitialSize, \* kInitialSize
  Extra,       \* sizeof(extrabuf)
  SizeT,        \* 2^64: size_t wraps around here
  MaxSize,     \* bound: bytes in the vector
  MaxLen       \* bound: bytes handed over in one call

ASSUME BufferAssumption ==
  /\ Zero \in Byte
  /\ InitialSize \in 0..MaxSize /\ Extra \in Nat /\ MaxLen \in Nat
  /\ MaxSize \in Nat /\ SizeT \in Nat /\ MaxSize + 1 < SizeT - MaxSize

VARIABLES
  size,      \* m_buf.size()
  buf,       \* m_buf
  readIdx,   \* m_read_idx
  writeIdx,  \* m_write_idx
  last       \* the latest call, with the bytes it was given or gave back

bufferVars == <<size, buf, readIdx, writeIdx, last>>

Data == UNION {[1..n -> Byte] : n \in 0..MaxLen}
Strings == UNION {[1..n -> Byte] : n \in 0..MaxSize}
Call(op, data) == [op |-> op, data |-> data]

\* The indices are in order and inside the vector, so that ReadableBytes and
\* WritableBytes do not wrap around, whatever sequence of calls was made.
BufferType ==
  /\ size \in 0..MaxSize
  /\ buf \in [0..(size - 1) -> Byte]
  /\ readIdx \in 0..writeIdx
  /\ writeIdx \in 0..size
  /\ last \in [op : {"new", "put", "prepend", "take", "room"}, data : Strings]

BufferInit ==
  /\ size = InitialSize
  /\ buf = [i \in 0..(InitialSize - 1) |-> Zero]
  /\ readIdx = 0 /\ writeIdx = 0
  /\ last = Call("new", <<>>)

ReadableBytes == writeIdx - readIdx
WritableBytes == size - writeIdx
Peek(n) == [i \in 1..n |-> buf[readIdx + i - 1]]

-----------------------------------------------------------------------------
(* Room, and bytes put into it, as operators on the buffer as a record.    *)

This == [size |-> size, buf |-> buf, r |-> readIdx, w |-> writeIdx]
Become(b) == size' = b.size /\ buf' = b.buf /\ readIdx' = b.r /\ writeIdx' = b.w

\* Mutant: the indices are moved but the bytes are not.
MoveIndicesOnly(b) == [b EXCEPT !.r = 0, !.w = b.w - b.r]

\* The unread bytes go to the front of the vector.
MoveToFront(b) ==
  [b EXCEPT !.buf = [i \in 0..(b.size - 1) |->
                       IF i < b.w - b.r THEN b.buf[b.r + i] ELSE b.buf[i]],
            !.r = 0, !.w = b.w - b.r]

\* m_buf.resize(n)
Resize(b, n) ==
  [b EXCEPT !.size = n,
            !.buf = [i \in 0..(n - 1) |-> IF i < b.size THEN b.buf[i] ELSE Zero]]

MakeSpace(b, len) ==
  IF b.r + (b.size - b.w) >= len THEN MoveToFront(b) ELSE Resize(b, b.w + len)

EnsureWritable(b, len) == IF b.size - b.w >= len THEN b ELSE MakeSpace(b, len)

\* data is copied behind the write index, which moves past it.
CopyIn(b, data) ==
  [b EXCEPT !.buf = [i \in 0..(b.size - 1) |->
                       IF b.w <= i /\ i < b.w + Len(data) THEN data[i - b.w + 1] ELSE b.buf[i]],
            !.w = b.w + Len(data)]

Appended(b, data) == CopyIn(EnsureWritable(b, Len(data)), data)

\* readv into the free space and extrabuf; what is in extrabuf is appended.
ReadIn(b, data) ==
  LET free == b.size - b.w IN
  IF Len(data) <= free
  THEN CopyIn(b, data)
  ELSE Appended(CopyIn(b, SubSeq(data, 1, free)), SubSeq(data, free + 1, Len(data)))

-----------------------------------------------------------------------------
(* Operations.                                                             *)

\* Append and AppendInt32.
AppendBytes(data) ==
  /\ Appended(This, data).size <= MaxSize
  /\ Become(Appended(This, data))
  /\ last' = Call("put", data)

\* readv returns at most what fits the two buffers; nothing at end of file.
ReadFromFd(data) ==
  /\ Len(data) <= WritableBytes + (IF WritableBytes < Extra THEN Extra ELSE 0)
  /\ ReadIn(This, data).size <= MaxSize
  /\ Become(ReadIn(This, data))
  /\ last' = Call("put", data)

EnsureWritableBytes(len) ==
  /\ EnsureWritable(This, len).size <= MaxSize
  /\ Become(EnsureWritable(This, len))
  /\ last' = Call("room", <<>>)

\* The caller has stored data in the free space by itself.
HasWritten(data) ==
  /\ Len(data) <= WritableBytes
  /\ Become(CopyIn(This, data))
  /\ last' = Call("put", data)

\* The space in front of the unread bytes is what was retrieved before.
Prepend(data) ==
  /\ Len(data) <= readIdx
  /\ readIdx' = readIdx - Len(data)
  /\ buf' = [i \in 0..(size - 1) |->
               IF readIdx' <= i /\ i < readIdx THEN data[i - readIdx' + 1] ELSE buf[i]]
  /\ last' = Call("prepend", data)
  /\ UNCHANGED <<size, writeIdx>>

\* Retrieve, RetrieveUntil, RetrieveAsString, RetrieveAllAsString, and
\* WriteToFd, which retrieves what write took; n = 0 if it took nothing.
Retrieve(n) ==
  /\ n \in 0..ReadableBytes
  /\ readIdx' = readIdx + n
  /\ last' = Call("take", Peek(n))
  /\ UNCHANGED <<size, buf, writeIdx>>

RetrieveAll ==
  /\ readIdx' = 0 /\ writeIdx' = 0
  /\ last' = Call("take", Peek(ReadableBytes))
  /\ UNCHANGED <<size, buf>>

\* ReadFromFd when readv returns -1.  The count is cast to size_t and is not
\* small: the write index goes to the end, and the bytes "in extrabuf" are
\* appended, -1 - WritableBytes of them.  No space can be made for so many by
\* moving; the size resize is called with wraps around, and either the vector
\* is cut or resize throws.  The copy over a range with a negative length is
\* taken to copy nothing.
ReadFails ==
  LET len     == SizeT - 1 - WritableBytes
      newSize == (size + len) % SizeT
  IN  /\ last' = Call("readError", <<>>)
      /\ UNCHANGED readIdx
      /\ IF newSize > MaxSize
         THEN writeIdx' = size /\ UNCHANGED <<size, buf>>
         ELSE /\ size' = newSize
              /\ buf' = Resize(This, newSize).buf
              /\ writeIdx' = (size + len) % SizeT

BufferNext ==
  \/ \E data \in Data :
       AppendBytes(data) \/ ReadFromFd(data) \/ HasWritten(data) \/ Prepend(data)
  \/ \E len \in 0..MaxLen : EnsureWritableBytes(len)
  \/ \E n \in 0..ReadableBytes : Retrieve(n)
  \/ RetrieveAll

BufferSpec == BufferInit /\ [][BufferNext]_bufferVars

\* Reads may fail as well.
ErrorSpec == BufferInit /\ [][BufferNext \/ (last.op # "readError" /\ ReadFails)]_bufferVars

-----------------------------------------------------------------------------
(* Properties.                                                             *)

\* The unread bytes.
Contents == Peek(ReadableBytes)

Queue == INSTANCE ByteQueue WITH q <- Contents, Data <- Data

\* Buffer is a queue of bytes: moves inside the vector, growth, the detour of
\* a read over the stack and the reuse of retrieved space for Prepend neither
\* lose, duplicate, reorder nor change a byte.
IsByteQueue == Queue!Spec

\* "input_buffer.ReadFromFd已经处理了非阻塞读，返回读到的字节数"
\* (src/src/tcpconnection.cpp:101), ReadFromFd deals with non-blocking reads: one
\* that fails, for lack of data for instance, leaves the unread bytes as they are.
FailedReadKeepsData == [][last'.op = "readError" => Contents' = Contents]_bufferVars
=============================================================================
