---------------------------- MODULE StreamProofs ----------------------------
(***************************************************************************)
(* Proofs about a stream of bytes on its way to the messages in it.        *)
(* First Buffer, for bytes, sizes and calls of any number: it implements   *)
(* ByteQueue.  Then LengthFieldCodec, whose input is such a queue, for any *)
(* payloads, limit and cuts of the stream: the messages come out as they   *)
(* were put in.                                                            *)
(***************************************************************************)
EXTENDS Buffer, LengthFieldCodec, SequenceTheorems, WellFoundedInduction, TLAPS

-----------------------------------------------------------------------------
(* The indices and the unread bytes of a buffer, as a record.              *)

\* The indices are in order and inside the vector.
Good(b) ==
  /\ b \in [size : Nat, buf : [0..(b.size - 1) -> Byte], r : Nat, w : Nat]
  /\ b.r <= b.w /\ b.w <= b.size

Unread(b) == [i \in 1..(b.w - b.r) |-> b.buf[b.r + i - 1]]

\* The unread bytes are as many as ReadableBytes() says.
LEMMA UnreadIsSeq ==
  ASSUME NEW b, Good(b)
  PROVE  Unread(b) \in Seq(Byte) /\ Len(Unread(b)) = b.w - b.r
<1>1. b.w - b.r \in Nat /\ \A i \in 1..(b.w - b.r) : b.r + i - 1 \in 0..(b.size - 1)
  BY DEF Good
<1>2. Unread(b) \in [1..(b.w - b.r) -> Byte]
  BY <1>1 DEF Good, Unread
<1> QED BY <1>1, <1>2

\* The unread bytes survive their way to the front.
LEMMA MoveKeeps ==
  ASSUME NEW b, Good(b)
  PROVE  LET m == MoveToFront(b) IN
         /\ Good(m) /\ m.size = b.size /\ m.w = b.w - b.r
         /\ Unread(m) = Unread(b)
<1> DEFINE n == b.w - b.r
           v == [i \in 0..(b.size - 1) |-> IF i < n THEN b.buf[b.r + i] ELSE b.buf[i]]
           m == MoveToFront(b)
<1>1. n \in Nat /\ n <= b.size /\ \A i \in 0..(b.size - 1) : i < n => b.r + i \in 0..(b.size - 1)
  BY DEF Good
<1>2. v \in [0..(b.size - 1) -> Byte]
  BY <1>1 DEF Good
<1>3. m.size = b.size /\ m.buf = v /\ m.r = 0 /\ m.w = n /\ m \in [size : Nat, buf : [0..(b.size - 1) -> Byte], r : Nat, w : Nat]
  <2> HIDE DEF v, n
  <2> QED BY <1>1, <1>2 DEF MoveToFront, Good, v, n
<1>4. Good(m)
  BY <1>1, <1>3 DEF Good
<1>5. Unread(m) = Unread(b)
  <2>1. \A i \in 1..n : v[0 + i - 1] = b.buf[b.r + i - 1]
    <3> TAKE i \in 1..n
    <3>1. 0 + i - 1 \in 0..(b.size - 1) /\ 0 + i - 1 < n /\ b.r + (0 + i - 1) = b.r + i - 1
      BY <1>1 DEF Good
    <3> QED BY <3>1
  <2> HIDE DEF v, m
  <2> QED BY <1>1, <1>3, <2>1 DEF Unread
<1> QED BY <1>3, <1>4, <1>5

\* vector::resize beyond the write index keeps the unread bytes.
LEMMA ResizeKeeps ==
  ASSUME NEW b, Good(b), NEW n \in Nat, n >= b.w, Zero \in Byte
  PROVE  LET m == Resize(b, n) IN
         /\ Good(m) /\ m.size = n /\ m.w = b.w
         /\ Unread(m) = Unread(b)
<1> DEFINE v == [i \in 0..(n - 1) |-> IF i < b.size THEN b.buf[i] ELSE Zero]
           m == Resize(b, n)
<1>1. v \in [0..(n - 1) -> Byte]
  BY DEF Good
<1>2. m.size = n /\ m.buf = v /\ m.r = b.r /\ m.w = b.w /\ m \in [size : Nat, buf : [0..(n - 1) -> Byte], r : Nat, w : Nat]
  <2> HIDE DEF v
  <2> QED BY <1>1 DEF Resize, Good, v
<1>3. Good(m)
  BY <1>2 DEF Good
<1>4. Unread(m) = Unread(b)
  <2>1. \A i \in 1..(b.w - b.r) : v[b.r + i - 1] = b.buf[b.r + i - 1]
    <3> TAKE i \in 1..(b.w - b.r)
    <3>1. b.r + i - 1 \in 0..(n - 1) /\ b.r + i - 1 < b.size
      BY DEF Good
    <3> QED BY <3>1
  <2> HIDE DEF v, m
  <2> QED BY <1>2, <2>1 DEF Unread
<1> QED BY <1>2, <1>3, <1>4

\* Making room changes no unread byte, and there is room afterwards.
LEMMA RoomKeeps ==
  ASSUME NEW b, Good(b), NEW len \in Nat
  PROVE  LET m == EnsureWritable(b, len) IN
         Good(m) /\ Unread(m) = Unread(b) /\ m.size - m.w >= len
<1>1. b.size \in Nat /\ b.w \in Nat /\ b.r \in Nat /\ b.r <= b.w /\ b.w <= b.size
  BY DEF Good
<1>2. CASE b.size - b.w >= len
  BY <1>2 DEF EnsureWritable
<1>3. CASE ~(b.size - b.w >= len) /\ b.r + (b.size - b.w) >= len
  <2>1. EnsureWritable(b, len) = MoveToFront(b)
    BY <1>3 DEF EnsureWritable, MakeSpace
  <2> QED BY <1>1, <1>3, <2>1, MoveKeeps
<1>4. CASE ~(b.size - b.w >= len) /\ ~(b.r + (b.size - b.w) >= len)
  <2>1. EnsureWritable(b, len) = Resize(b, b.w + len)
    BY <1>4 DEF EnsureWritable, MakeSpace
  <2>2. b.w + len \in Nat /\ b.w + len >= b.w /\ (b.w + len) - b.w >= len
    BY <1>1
  <2> QED BY <2>1, <2>2, ResizeKeeps, BufferAssumption
<1> QED BY <1>2, <1>3, <1>4

\* The bytes copied in are behind the unread ones.
LEMMA CopyAppends ==
  ASSUME NEW b, Good(b), NEW data \in Seq(Byte), Len(data) <= b.size - b.w
  PROVE  LET m == CopyIn(b, data) IN
         /\ Good(m) /\ m.size = b.size /\ m.w = b.w + Len(data)
         /\ Unread(m) = Unread(b) \o data
<1> DEFINE k == Len(data)
           v == [i \in 0..(b.size - 1) |-> IF b.w <= i /\ i < b.w + k THEN data[i - b.w + 1] ELSE b.buf[i]]
           m == CopyIn(b, data)
<1>1. /\ b.size \in Nat /\ b.w \in Nat /\ b.r \in Nat /\ b.r <= b.w /\ b.w <= b.size
      /\ k \in Nat /\ b.w + k <= b.size /\ b.buf \in [0..(b.size - 1) -> Byte]
  BY DEF Good
<1>2. v \in [0..(b.size - 1) -> Byte]
  <2>1. \A j \in 1..k : data[j] \in Byte
    BY ElementOfSeq
  <2>2. \A i \in 0..(b.size - 1) : b.w <= i /\ i < b.w + k => i - b.w + 1 \in 1..k
    BY <1>1
  <2> QED BY <1>1, <2>1, <2>2
<1>3. /\ m.size = b.size /\ m.buf = v /\ m.r = b.r /\ m.w = b.w + k
      /\ m \in [size : Nat, buf : [0..(b.size - 1) -> Byte], r : Nat, w : Nat]
  <2>1. m = [b EXCEPT !.buf = v, !.w = b.w + k]
    BY DEF CopyIn
  <2>2. b \in [size : Nat, buf : [0..(b.size - 1) -> Byte], r : Nat, w : Nat] /\ b.w + k \in Nat
    BY <1>1 DEF Good
  <2> HIDE DEF v, m, k
  <2> QED BY <1>2, <2>1, <2>2
<1>4. Good(m)
  BY <1>1, <1>3 DEF Good
<1>5. \A i \in 1..(b.w + k - b.r) :
        v[b.r + i - 1] = IF i <= b.w - b.r THEN b.buf[b.r + i - 1] ELSE data[i - (b.w - b.r)]
  <2> TAKE i \in 1..(b.w + k - b.r)
  <2>1. b.r + i - 1 \in 0..(b.size - 1)
    BY <1>1, SMTT(30)
  <2>2. CASE i <= b.w - b.r
    <3>1. ~(b.w <= b.r + i - 1)
      BY <1>1, <2>2
    <3> QED BY <2>1, <2>2, <3>1
  <2>3. CASE ~(i <= b.w - b.r)
    <3>1. b.w <= b.r + i - 1 /\ b.r + i - 1 < b.w + k /\ (b.r + i - 1) - b.w + 1 = i - (b.w - b.r)
      BY <1>1, <2>3, SMTT(30)
    <3> QED BY <2>1, <2>3, <3>1
  <2> QED BY <2>2, <2>3
<1> HIDE DEF v, m, k
<1>6. Unread(m) = Unread(b) \o data
  <2>0. Unread(m) \in Seq(Byte) /\ Len(Unread(m)) = m.w - m.r
    BY ONLY <1>4, UnreadIsSeq
  <2>1. /\ Unread(b) \in Seq(Byte) /\ Len(Unread(b)) = b.w - b.r
        /\ Unread(m) \in Seq(Byte) /\ Len(Unread(m)) = b.w + k - b.r
    <3>1. m.w - m.r = b.w + k - b.r
      BY ONLY <1>1, <1>3
    <3>2. Unread(b) \in Seq(Byte) /\ Len(Unread(b)) = b.w - b.r
      BY UnreadIsSeq
    <3> QED BY ONLY <2>0, <3>1, <3>2
  <2>2. /\ Unread(b) \o data \in Seq(Byte) /\ Len(Unread(b) \o data) = (b.w - b.r) + k
        /\ \A i \in 1..((b.w - b.r) + k) : (Unread(b) \o data)[i] =
             IF i <= b.w - b.r THEN Unread(b)[i] ELSE data[i - (b.w - b.r)]
    BY <2>1, ConcatProperties DEF k
  <2>3. (b.w - b.r) + k = b.w + k - b.r
    BY <1>1
  <2>4. \A i \in 1..(b.w + k - b.r) : Unread(m)[i] = v[b.r + i - 1]
    <3>1. m.w - m.r = b.w + k - b.r
      BY ONLY <1>1, <1>3
    <3>2. \A i \in 1..(m.w - m.r) : Unread(m)[i] = m.buf[m.r + i - 1]
      BY ONLY TRUE DEF Unread
    <3> QED BY ONLY <1>3, <3>1, <3>2
  <2>5. \A i \in 1..(b.w + k - b.r) : i <= b.w - b.r => Unread(b)[i] = b.buf[b.r + i - 1]
    BY <1>1 DEF Unread
  <2>6. \A i \in 1..(b.w + k - b.r) : Unread(m)[i] = (Unread(b) \o data)[i]
    BY <1>5, <2>2, <2>3, <2>4, <2>5
  <2> QED BY <2>1, <2>2, <2>3, <2>6, SeqEqual
<1> QED BY <1>3, <1>4, <1>6 DEF m, k

\* Append puts its bytes behind the unread ones.
LEMMA AppendAppends ==
  ASSUME NEW b, Good(b), NEW data \in Seq(Byte)
  PROVE  LET m == Appended(b, data) IN
         /\ Good(m) /\ Unread(m) = Unread(b) \o data
         /\ Len(data) <= m.size
<1> DEFINE e == EnsureWritable(b, Len(data))
<1>1. Len(data) \in Nat
  OBVIOUS
<1>2. Good(e) /\ Unread(e) = Unread(b) /\ e.size - e.w >= Len(data)
  BY <1>1, RoomKeeps
<1>3. e.size \in Nat /\ e.w \in Nat
  BY <1>2 DEF Good
<1> HIDE DEF e
<1>4. Good(CopyIn(e, data)) /\ Unread(CopyIn(e, data)) = Unread(e) \o data /\ CopyIn(e, data).size = e.size
  BY <1>1, <1>2, <1>3, CopyAppends
<1> QED BY <1>1, <1>2, <1>3, <1>4 DEF Appended, e

\* The detour over extrabuf keeps the order of what was read.
LEMMA ReadAppends ==
  ASSUME NEW b, Good(b), NEW data \in Seq(Byte)
  PROVE  LET m == ReadIn(b, data) IN
         /\ Good(m) /\ Unread(m) = Unread(b) \o data
         /\ m.size <= MaxSize => Len(data) <= MaxSize
<1> DEFINE free == b.size - b.w
           k == Len(data)
           d1 == SubSeq(data, 1, free)
           d2 == SubSeq(data, free + 1, k)
<1>1. free \in Nat /\ k \in Nat /\ b.size \in Nat /\ b.w \in Nat /\ MaxSize \in Nat
  BY BufferAssumption DEF Good
<1>2. CASE k <= free
  <2>1. ReadIn(b, data) = CopyIn(b, data)
    BY <1>2 DEF ReadIn
  <2>2. /\ Good(CopyIn(b, data)) /\ CopyIn(b, data).size = b.size
        /\ Unread(CopyIn(b, data)) = Unread(b) \o data
    BY <1>1, <1>2, CopyAppends
  <2>3. b.size <= MaxSize => k <= MaxSize
    BY <1>1, <1>2
  <2> QED BY <2>1, <2>2, <2>3
<1>3. CASE ~(k <= free)
  <2> DEFINE c == CopyIn(b, d1)
             m == Appended(c, d2)
  <2>1. ReadIn(b, data) = m
    BY <1>3 DEF ReadIn
  <2>2. d1 \in Seq(Byte) /\ Len(d1) = free
    <3>1. \A i \in 1..free : data[i] \in Byte
      BY <1>1, <1>3, ElementOfSeq
    <3>2. /\ SubSeq(data, 1, free) \in Seq(Byte)
          /\ Len(SubSeq(data, 1, free)) = IF 1 <= free THEN free - 1 + 1 ELSE 0
      BY <1>1, <3>1, SubSeqProperties
    <3> QED BY <1>1, <3>2
  <2>3. d2 \in Seq(Byte) /\ Len(d2) = k - free
    <3>1. \A i \in (free + 1)..k : data[i] \in Byte
      BY <1>1, ElementOfSeq
    <3>2. /\ SubSeq(data, free + 1, k) \in Seq(Byte)
          /\ Len(SubSeq(data, free + 1, k)) = IF free + 1 <= k THEN k - (free + 1) + 1 ELSE 0
      <4>1. free + 1 \in Int /\ k \in Int
        BY <1>1
      <4> HIDE DEF k
      <4> QED BY <4>1, <3>1, SubSeqProperties
    <3> QED BY <1>1, <1>3, <3>2
  <2>4. d1 \o d2 = data
    <3>1. SubSeq(data, 1, k) = data
      BY SubSeqFull
    <3>2. 1 \in 1..(Len(data) + 1) /\ free \in (1 - 1)..Len(data) /\ k \in free..Len(data)
      BY <1>1, <1>3
    <3>3. SubSeq(data, 1, free) \o SubSeq(data, free + 1, k) = SubSeq(data, 1, k)
      <4> HIDE DEF free, k
      <4> QED BY ONLY <3>2, data \in Seq(Byte), ConcatAdjacentSubSeq
    <3> QED BY <3>1, <3>3
  <2> HIDE DEF d1, d2
  <2>5. Good(c) /\ c.size = b.size /\ c.w = b.w + free /\ Unread(c) = Unread(b) \o d1
    BY <1>1, <2>2, CopyAppends
  <2>6. c.size - c.w = 0 /\ c.size \in Nat /\ c.w = c.size
    BY <1>1, <2>5
  <2> HIDE DEF c
  <2>7. Good(m) /\ Unread(m) = Unread(c) \o d2
    BY <2>3, <2>5, AppendAppends
  <2>8. Unread(m) = Unread(b) \o data
    <3>1. Unread(b) \in Seq(Byte)
      BY UnreadIsSeq
    <3>2. (Unread(b) \o d1) \o d2 = Unread(b) \o (d1 \o d2)
      <4> DEFINE u == Unread(b)
      <4>1. u \in Seq(Byte) /\ d1 \in Seq(Byte) /\ d2 \in Seq(Byte)
        BY <2>2, <2>3, <3>1
      <4> HIDE DEF u
      <4>2. (u \o d1) \o d2 = u \o (d1 \o d2)
        BY ONLY <4>1, ConcatAssociative
      <4> QED BY <4>2 DEF u
    <3> QED BY <2>4, <2>5, <2>7, <3>2
  <2> HIDE DEF m
  <2>9. m.size <= MaxSize => k <= MaxSize
    <3>1. Unread(b) \in Seq(Byte) /\ Len(Unread(m)) = m.w - m.r
      <4>1. Good(m) => Len(Unread(m)) = m.w - m.r
        BY ONLY UnreadIsSeq
      <4> QED BY <2>7, <4>1, UnreadIsSeq
    <3>2. Len(Unread(b) \o data) = Len(Unread(b)) + k
      BY <3>1, ConcatProperties
    <3>3. Len(Unread(b)) \in Nat
      BY <3>1
    <3>4. m.w - m.r = Len(Unread(b)) + k
      BY <2>8, <3>1, <3>2
    <3>5. m.size \in Nat /\ m.w \in Nat /\ m.r \in Nat /\ m.w <= m.size
      BY <2>7 DEF Good
    <3> QED BY <1>1, <3>3, <3>4, <3>5
  <2> QED BY <2>1, <2>7, <2>8, <2>9
<1> QED BY <1>2, <1>3

-----------------------------------------------------------------------------
(* The buffer in its specification.                                        *)

\* The indices stay in order and inside the vector.
BufferInv == Good(This) /\ size <= MaxSize

\* Data is what a caller may hand over.
LEMMA DataAreSeqs == \A data \in Data : data \in Seq(Byte) /\ Len(data) \in 0..MaxLen
<1> SUFFICES ASSUME NEW n \in 0..MaxLen, NEW data \in [1..n -> Byte]
             PROVE  data \in Seq(Byte) /\ Len(data) \in 0..MaxLen
  BY DEF Data
<1>1. n \in Nat
  BY BufferAssumption
<1> QED BY <1>1

\* A string that fits into the largest vector is one of the abstract strings.
LEMMA StringsAre == \A n \in 0..MaxSize : \A s \in Seq(Byte) : Len(s) = n => s \in Strings
<1> SUFFICES ASSUME NEW s \in Seq(Byte), Len(s) \in 0..MaxSize PROVE s \in Strings
  OBVIOUS
<1>1. s \in [1..Len(s) -> Byte]
  BY LenProperties
<1> QED BY <1>1 DEF Strings

\* So is the empty one.
LEMMA EmptyIsString == <<>> \in Strings
<1> DEFINE e == <<>>
<1>1. 0 \in 0..MaxSize
  BY BufferAssumption
<1>2. e \in Seq(Byte) /\ Len(e) = 0
  OBVIOUS
<1> HIDE DEF e
<1>3. e \in Strings
  BY <1>1, <1>2, StringsAre
<1> QED BY <1>3 DEF e

\* The refinement mapping and the lemmas above speak of the same bytes.
LEMMA ContentsAreUnread == Contents = Unread(This)
BY DEF Contents, Peek, ReadableBytes, Unread, This

\* After a call that makes the buffer b, the contents are the unread bytes of b.
LEMMA Becoming ==
  ASSUME NEW b, Good(b), Become(b)
  PROVE  This' = b /\ Contents' = Unread(b) /\ size' = b.size
<1>1. b = [size |-> b.size, buf |-> b.buf, r |-> b.r, w |-> b.w]
  BY DEF Good
<1>2. This' = b
  BY <1>1 DEF This, Become
<1>3. Contents' = Unread(This')
  BY DEF Contents, Peek, ReadableBytes, Unread, This
<1> QED BY <1>2, <1>3 DEF Become

\* The bytes that the calls of a step put in, and what becomes of the unread ones.
LEMMA PutStep ==
  ASSUME BufferInv, NEW data \in Data, AppendBytes(data) \/ ReadFromFd(data) \/ HasWritten(data)
  PROVE  BufferInv' /\ Contents' = Contents \o data /\ last' = Call("put", data) /\ data \in Strings
<1>1. data \in Seq(Byte) /\ Len(data) \in Nat
  BY DataAreSeqs, BufferAssumption
<1>2. Good(This) /\ size <= MaxSize /\ size \in Nat /\ writeIdx \in Nat /\ MaxSize \in Nat
  BY BufferAssumption DEF BufferInv, Good, This
<1>3. CASE AppendBytes(data)
  <2> DEFINE b == Appended(This, data)
  <2>1. Good(b) /\ Unread(b) = Unread(This) \o data /\ Len(data) <= b.size
    BY <1>1, <1>2, AppendAppends
  <2>2. Become(b) /\ b.size <= MaxSize /\ last' = Call("put", data)
    BY <1>3 DEF AppendBytes
  <2>3. b.size \in Nat
    BY <2>1 DEF Good
  <2> HIDE DEF b
  <2>4. This' = b /\ Contents' = Unread(b) /\ size' = b.size
    BY <2>1, <2>2, Becoming
  <2>5. data \in Strings
    BY <1>1, <1>2, <2>1, <2>2, <2>3, StringsAre
  <2>6. BufferInv'
    BY <2>1, <2>2, <2>4 DEF BufferInv
  <2> QED BY <2>1, <2>2, <2>4, <2>5, <2>6, ContentsAreUnread
<1>4. CASE ReadFromFd(data)
  <2> DEFINE b == ReadIn(This, data)
  <2>1. Good(b) /\ Unread(b) = Unread(This) \o data /\ (b.size <= MaxSize => Len(data) <= MaxSize)
    BY <1>1, <1>2, ReadAppends
  <2>2. Become(b) /\ b.size <= MaxSize /\ last' = Call("put", data)
    BY <1>4 DEF ReadFromFd
  <2> HIDE DEF b
  <2>4. This' = b /\ Contents' = Unread(b) /\ size' = b.size
    BY <2>1, <2>2, Becoming
  <2>5. data \in Strings
    BY <1>1, <1>2, <2>1, <2>2, StringsAre
  <2>6. BufferInv'
    BY <2>1, <2>2, <2>4 DEF BufferInv
  <2> QED BY <2>1, <2>2, <2>4, <2>5, <2>6, ContentsAreUnread
<1>5. CASE HasWritten(data)
  <2> DEFINE b == CopyIn(This, data)
  <2>1. This.size = size /\ This.w = writeIdx /\ Len(data) <= This.size - This.w
    BY <1>5 DEF HasWritten, WritableBytes, This
  <2>2. Good(b) /\ b.size = This.size /\ Unread(b) = Unread(This) \o data
    BY <1>1, <1>2, <2>1, CopyAppends
  <2>3. Become(b) /\ last' = Call("put", data)
    BY <1>5 DEF HasWritten
  <2> HIDE DEF b
  <2>4. This' = b /\ Contents' = Unread(b) /\ size' = b.size
    BY <2>2, <2>3, Becoming
  <2>5. data \in Strings
    BY <1>1, <1>2, <2>1, StringsAre
  <2>6. BufferInv'
    BY <1>2, <2>1, <2>2, <2>4 DEF BufferInv
  <2> QED BY <2>2, <2>3, <2>4, <2>5, <2>6, ContentsAreUnread
<1> QED BY <1>3, <1>4, <1>5

\* EnsureWritableBytes keeps the contents.
LEMMA RoomStep ==
  ASSUME BufferInv, NEW len \in 0..MaxLen, EnsureWritableBytes(len)
  PROVE  BufferInv' /\ Contents' = Contents /\ last' = Call("room", <<>>)
<1> DEFINE b == EnsureWritable(This, len)
<1>1. len \in Nat /\ Good(This)
  BY BufferAssumption DEF BufferInv
<1>2. Good(b) /\ Unread(b) = Unread(This)
  BY <1>1, RoomKeeps
<1>3. Become(b) /\ b.size <= MaxSize /\ last' = Call("room", <<>>)
  BY DEF EnsureWritableBytes
<1> HIDE DEF b
<1>4. This' = b /\ Contents' = Unread(b) /\ size' = b.size
  BY <1>2, <1>3, Becoming
<1>5. BufferInv'
  BY <1>2, <1>3, <1>4 DEF BufferInv
<1> QED BY <1>2, <1>3, <1>4, <1>5, ContentsAreUnread

\* The indices and the vector, without the record.
LEMMA Indices ==
  BufferInv <=> /\ size \in Nat /\ size <= MaxSize /\ buf \in [0..(size - 1) -> Byte]
           /\ readIdx \in Nat /\ writeIdx \in Nat /\ readIdx <= writeIdx /\ writeIdx <= size
BY DEF BufferInv, Good, This

\* The contents, byte by byte.
LEMMA ContentsType ==
  ASSUME BufferInv
  PROVE  /\ Contents \in Seq(Byte) /\ Len(Contents) = writeIdx - readIdx
         /\ Contents = [i \in 1..(writeIdx - readIdx) |-> buf[readIdx + i - 1]]
<1>1. Unread(This) \in Seq(Byte) /\ Len(Unread(This)) = This.w - This.r
  BY UnreadIsSeq DEF BufferInv
<1> QED BY <1>1, ContentsAreUnread DEF This, Contents, Peek, ReadableBytes

\* The same after a step.
LEMMA ContentsTypeNext ==
  ASSUME BufferInv'
  PROVE  /\ Contents' \in Seq(Byte) /\ Len(Contents') = writeIdx' - readIdx'
         /\ Contents' = [i \in 1..(writeIdx' - readIdx') |-> buf'[readIdx' + i - 1]]
<1>1. Unread(This') \in Seq(Byte) /\ Len(Unread(This')) = This'.w - This'.r
  BY UnreadIsSeq DEF BufferInv
<1>2. Contents' = Unread(This') /\ This'.w = writeIdx' /\ This'.r = readIdx'
  BY DEF Contents, Peek, ReadableBytes, Unread, This
<1> QED BY <1>1, <1>2 DEF Contents, Peek, ReadableBytes

\* Prepend puts its bytes in front of the contents.
LEMMA PrependStep ==
  ASSUME BufferInv, NEW data \in Data, Prepend(data)
  PROVE  BufferInv' /\ Contents' = data \o Contents /\ last' = Call("prepend", data) /\ data \in Strings
<1> DEFINE k == Len(data)
           r1 == readIdx - k
           v == [i \in 0..(size - 1) |-> IF r1 <= i /\ i < readIdx THEN data[i - r1 + 1] ELSE buf[i]]
<1>1. data \in Seq(Byte) /\ k \in Nat
  BY DataAreSeqs, BufferAssumption
<1>2. /\ size \in Nat /\ size <= MaxSize /\ buf \in [0..(size - 1) -> Byte]
      /\ readIdx \in Nat /\ writeIdx \in Nat /\ readIdx <= writeIdx /\ writeIdx <= size
  BY Indices
<1>3. /\ k <= readIdx /\ readIdx' = r1 /\ buf' = v /\ size' = size /\ writeIdx' = writeIdx
      /\ last' = Call("prepend", data)
  BY DEF Prepend
<1>4. r1 \in Nat /\ r1 <= readIdx
  BY <1>1, <1>2, <1>3
<1>5. v \in [0..(size - 1) -> Byte]
  <2>1. \A j \in 1..k : data[j] \in Byte
    BY <1>1, ElementOfSeq
  <2>2. \A i \in 0..(size - 1) : r1 <= i /\ i < readIdx => i - r1 + 1 \in 1..k
    BY <1>1, <1>2, <1>3
  <2> HIDE DEF r1
  <2> QED BY <1>2, <2>1, <2>2
<1>6. BufferInv'
  <2>1. /\ size' \in Nat /\ size' <= MaxSize /\ buf' \in [0..(size' - 1) -> Byte]
        /\ readIdx' \in Nat /\ writeIdx' \in Nat /\ readIdx' <= writeIdx' /\ writeIdx' <= size'
    <3> HIDE DEF r1, v
    <3> QED BY <1>2, <1>3, <1>4, <1>5
  <2> QED BY <2>1 DEF BufferInv, Good, This
<1>7. /\ Contents \in Seq(Byte) /\ Len(Contents) = writeIdx - readIdx
      /\ Contents = [i \in 1..(writeIdx - readIdx) |-> buf[readIdx + i - 1]]
  BY ContentsType
<1>8. /\ Contents' \in Seq(Byte) /\ Len(Contents') = writeIdx - r1
      /\ Contents' = [i \in 1..(writeIdx - r1) |-> v[r1 + i - 1]]
  <2>1. BufferInv' => /\ Contents' \in Seq(Byte) /\ Len(Contents') = writeIdx' - readIdx'
                 /\ Contents' = [i \in 1..(writeIdx' - readIdx') |-> buf'[readIdx' + i - 1]]
    BY ContentsTypeNext
  <2> HIDE DEF r1, v
  <2> QED BY <1>3, <1>6, <2>1
<1>9. \A i \in 1..(writeIdx - r1) :
        v[r1 + i - 1] = IF i <= k THEN data[i] ELSE buf[readIdx + (i - k) - 1]
  <2> TAKE i \in 1..(writeIdx - r1)
  <2>1. r1 + i - 1 \in 0..(size - 1)
    BY <1>1, <1>2, <1>4
  <2>2. CASE i <= k
    <3>1. r1 <= r1 + i - 1 /\ r1 + i - 1 < readIdx /\ (r1 + i - 1) - r1 + 1 = i
      BY <1>1, <1>2, <1>3, <1>4, <2>2
    <3> QED BY <2>1, <2>2, <3>1
  <2>3. CASE ~(i <= k)
    <3>1. ~(r1 + i - 1 < readIdx) /\ r1 + i - 1 = readIdx + (i - k) - 1
      BY <1>1, <1>2, <1>3, <1>4, <2>3
    <3> QED BY <2>1, <2>3, <3>1
  <2> QED BY <2>2, <2>3
<1>10. Contents' = data \o Contents
  <2>1. /\ data \o Contents \in Seq(Byte) /\ Len(data \o Contents) = k + (writeIdx - readIdx)
        /\ \A i \in 1..(k + (writeIdx - readIdx)) : (data \o Contents)[i] =
             IF i <= k THEN data[i] ELSE Contents[i - k]
    <3> DEFINE n == Len(Contents)
    <3>1. Contents \in Seq(Byte) /\ n = writeIdx - readIdx
      BY <1>7
    <3>2. /\ data \o Contents \in Seq(Byte) /\ Len(data \o Contents) = Len(data) + n
          /\ \A i \in 1..(Len(data) + n) : (data \o Contents)[i] =
               IF i <= Len(data) THEN data[i] ELSE Contents[i - Len(data)]
      BY ONLY <1>1, <3>1, ConcatProperties
    <3> HIDE DEF n
    <3> QED BY ONLY <3>1, <3>2
  <2>2. k + (writeIdx - readIdx) = writeIdx - r1
    BY <1>1, <1>2
  <2>3. \A i \in 1..(writeIdx - r1) : ~(i <= k) => Contents[i - k] = buf[readIdx + (i - k) - 1]
    <3> SUFFICES ASSUME NEW i \in 1..(writeIdx - r1), ~(i <= k)
                 PROVE  Contents[i - k] = buf[readIdx + (i - k) - 1]
      OBVIOUS
    <3>1. i - k \in 1..(writeIdx - readIdx)
      BY <1>1, <1>2
    <3> QED BY ONLY <1>7, <3>1
  <2>4. \A i \in 1..(writeIdx - r1) : Contents'[i] = v[r1 + i - 1]
    <3> HIDE DEF v, r1
    <3> QED BY <1>8
  <2> HIDE DEF v, r1, k
  <2>5. \A i \in 1..(writeIdx - r1) : Contents'[i] = (data \o Contents)[i]
    BY ONLY <1>9, <2>1, <2>2, <2>3, <2>4
  <2>6. Len(Contents') = Len(data \o Contents)
    BY ONLY <1>8, <2>1, <2>2
  <2> QED BY ONLY <1>8, <2>1, <2>5, <2>6, SeqEqual
<1>11. data \in Strings
  BY <1>1, <1>2, <1>3, BufferAssumption, StringsAre
<1> QED BY <1>3, <1>6, <1>10, <1>11

\* Bytes are given back from the front, and the others stay.
LEMMA TakeStep ==
  ASSUME BufferInv, NEW n \in 0..ReadableBytes, Retrieve(n) \/ (n = ReadableBytes /\ RetrieveAll)
  PROVE  /\ BufferInv' /\ n \in 0..Len(Contents)
         /\ Contents' = SubSeq(Contents, n + 1, Len(Contents))
         /\ last' = Call("take", SubSeq(Contents, 1, n))
         /\ SubSeq(Contents, 1, n) \in Strings
<1> DEFINE q == Contents
           len == writeIdx - readIdx
<1>1. /\ size \in Nat /\ size <= MaxSize /\ buf \in [0..(size - 1) -> Byte]
      /\ readIdx \in Nat /\ writeIdx \in Nat /\ readIdx <= writeIdx /\ writeIdx <= size
  BY Indices
<1>2. q \in Seq(Byte) /\ Len(q) = len /\ q = [i \in 1..len |-> buf[readIdx + i - 1]]
  BY ContentsType
<1>3. len \in Nat /\ n \in 0..len /\ n \in Nat
  BY <1>1 DEF ReadableBytes
<1> HIDE DEF q
<1>4. \A i \in 1..len : q[i] = buf[readIdx + i - 1] /\ q[i] \in Byte
  BY <1>2, ElementOfSeq
<1>5. /\ SubSeq(q, 1, n) \in Seq(Byte) /\ Len(SubSeq(q, 1, n)) = n
      /\ \A i \in 1..n : SubSeq(q, 1, n)[i] = q[i]
  <2>1. \A i \in 1..n : q[i] \in Byte
    BY <1>3, <1>4
  <2>2. /\ SubSeq(q, 1, n) \in Seq(Byte)
        /\ Len(SubSeq(q, 1, n)) = IF 1 <= n THEN n - 1 + 1 ELSE 0
        /\ \A i \in 1..(n - 1 + 1) : SubSeq(q, 1, n)[i] = q[1 + i - 1]
    BY <1>3, <2>1, SubSeqProperties
  <2> QED BY <1>3, <2>2
<1>6. /\ SubSeq(q, n + 1, len) \in Seq(Byte) /\ Len(SubSeq(q, n + 1, len)) = len - n
      /\ \A i \in 1..(len - n) : SubSeq(q, n + 1, len)[i] = q[n + i]
  <2>1. \A i \in (n + 1)..len : q[i] \in Byte
    BY <1>3, <1>4
  <2>2. /\ SubSeq(q, n + 1, len) \in Seq(Byte)
        /\ Len(SubSeq(q, n + 1, len)) = IF n + 1 <= len THEN len - (n + 1) + 1 ELSE 0
        /\ \A i \in 1..(len - (n + 1) + 1) : SubSeq(q, n + 1, len)[i] = q[(n + 1) + i - 1]
    <3>1. n + 1 \in Int /\ len \in Int
      BY <1>3
    <3> HIDE DEF len
    <3> QED BY <2>1, <3>1, SubSeqProperties
  <2>3. len - (n + 1) + 1 = len - n /\ \A i \in 1..(len - n) : (n + 1) + i - 1 = n + i
    BY <1>3
  <2>4. Len(SubSeq(q, n + 1, len)) = len - n
    BY <1>3, <2>2
  <2> HIDE DEF len
  <2> QED BY ONLY <2>2, <2>3, <2>4
<1>7. Peek(n) = SubSeq(q, 1, n)
  <2>1. \A i \in 1..n : Peek(n)[i] = SubSeq(q, 1, n)[i]
    BY <1>3, <1>4, <1>5 DEF Peek
  <2>2. \A i \in 1..n : buf[readIdx + i - 1] \in Byte
    BY <1>3, <1>4
  <2>3. Peek(n) \in Seq(Byte) /\ Len(Peek(n)) = n
    BY <1>3, <2>2 DEF Peek
  <2> QED BY <1>5, <2>1, <2>3, SeqEqual
<1>8. last' = Call("take", SubSeq(q, 1, n)) /\ size' = size /\ buf' = buf
  BY <1>7 DEF Retrieve, RetrieveAll
<1>9. BufferInv' /\ Contents' = SubSeq(q, n + 1, len)
  <2>1. CASE Retrieve(n)
    <3>1. readIdx' = readIdx + n /\ writeIdx' = writeIdx
      BY <2>1 DEF Retrieve
    <3>2. BufferInv'
      BY <1>1, <1>3, <1>8, <3>1 DEF BufferInv, Good, This
    <3>3. /\ Contents' \in Seq(Byte) /\ Len(Contents') = writeIdx' - readIdx'
          /\ Contents' = [i \in 1..(writeIdx' - readIdx') |-> buf'[readIdx' + i - 1]]
      BY <3>2, ContentsTypeNext
    <3>4. writeIdx' - readIdx' = len - n
      BY <1>1, <1>3, <3>1
    <3>5. \A i \in 1..(len - n) : Contents'[i] = SubSeq(q, n + 1, len)[i]
      <4> TAKE i \in 1..(len - n)
      <4>1. Contents'[i] = buf[(readIdx + n) + i - 1]
        BY <1>8, <3>1, <3>3, <3>4
      <4>2. n + i \in 1..len /\ (readIdx + n) + i - 1 = readIdx + (n + i) - 1
        BY <1>1, <1>3
      <4>3. SubSeq(q, n + 1, len)[i] = q[n + i]
        BY <1>6
      <4>4. q[n + i] = buf[readIdx + (n + i) - 1]
        BY <1>4, <4>2
      <4> QED BY ONLY <4>1, <4>2, <4>3, <4>4
    <3>6. Len(Contents') = Len(SubSeq(q, n + 1, len))
      BY <1>6, <3>3, <3>4
    <3>7. Len(Contents') = len - n
      BY <3>3, <3>4
    <3> HIDE DEF len
    <3>8. Contents' = SubSeq(q, n + 1, len)
      BY ONLY <1>6, <3>3, <3>5, <3>6, <3>7, SeqEqual
    <3> QED BY <3>2, <3>8
  <2>2. CASE n = ReadableBytes /\ RetrieveAll
    <3>1. readIdx' = 0 /\ writeIdx' = 0 /\ n = len
      BY <2>2 DEF RetrieveAll, ReadableBytes
    <3>2. BufferInv'
      BY <1>1, <1>3, <1>8, <3>1 DEF BufferInv, Good, This
    <3>3. Contents' \in Seq(Byte) /\ Len(Contents') = writeIdx' - readIdx'
      BY <3>2, ContentsTypeNext
    <3>4. Contents' = <<>>
      BY <3>1, <3>3
    <3>5. SubSeq(q, n + 1, len) = <<>>
      BY <1>3, <1>6, <3>1
    <3> QED BY <3>2, <3>4, <3>5
  <2> QED BY <2>1, <2>2
<1>10. SubSeq(q, 1, n) \in Strings
  <2>1. n \in 0..MaxSize
    BY <1>1, <1>3, BufferAssumption
  <2> QED BY <1>5, <2>1, StringsAre
<1> QED BY <1>2, <1>3, <1>8, <1>9, <1>10 DEF q

\* A new buffer is in order and empty.
LEMMA BufferInvInit == BufferInit => BufferInv /\ Contents = <<>>
<1> SUFFICES ASSUME BufferInit PROVE BufferInv /\ Contents = <<>>
  OBVIOUS
<1>1. BufferInv
  BY Indices, BufferAssumption DEF BufferInit
<1>2. Contents \in Seq(Byte) /\ Len(Contents) = 0
  BY <1>1, ContentsType DEF BufferInit
<1> QED BY <1>1, <1>2

\* What a step may do to the queue of unread bytes.
LEMMA QueueStep ==
  ASSUME BufferInv, BufferNext
  PROVE  /\ BufferInv' /\ Queue!Next
         /\ last'.op \in {"put", "prepend", "take", "room"} /\ last'.data \in Strings
         /\ last' = Call(last'.op, last'.data)
<1>1. ASSUME NEW data \in Data, AppendBytes(data) \/ ReadFromFd(data) \/ HasWritten(data)
      PROVE  /\ BufferInv' /\ Queue!PutBack(data) /\ last' = Call("put", data) /\ data \in Strings
  BY <1>1, PutStep DEF Queue!PutBack, Queue!Call, Call
<1>2. ASSUME NEW data \in Data, Prepend(data)
      PROVE  /\ BufferInv' /\ Queue!PutFront(data) /\ last' = Call("prepend", data) /\ data \in Strings
  BY <1>2, PrependStep DEF Queue!PutFront, Queue!Call, Call
<1>3. ASSUME NEW len \in 0..MaxLen, EnsureWritableBytes(len)
      PROVE  BufferInv' /\ Queue!Keep /\ last' = Call("room", <<>>)
  BY <1>3, RoomStep DEF Queue!Keep, Queue!Call, Call
<1>4. ASSUME NEW n \in 0..ReadableBytes, Retrieve(n) \/ (n = ReadableBytes /\ RetrieveAll)
      PROVE  /\ BufferInv' /\ n \in 0..Len(Contents) /\ Queue!TakeFront(n)
             /\ \E s \in Strings : last' = Call("take", s)
  BY <1>4, TakeStep DEF Queue!TakeFront, Queue!Call, Call
<1>5. ReadableBytes \in 0..ReadableBytes
  BY Indices DEF ReadableBytes
<1>6. <<>> \in Strings
  BY EmptyIsString
<1>7. \A op, s : Call(op, s).op = op /\ Call(op, s).data = s
  BY DEF Call
<1>8. CASE \E data \in Data : AppendBytes(data) \/ ReadFromFd(data) \/ HasWritten(data)
  BY <1>1, <1>7, <1>8 DEF Queue!Next
<1>9. CASE \E data \in Data : Prepend(data)
  BY <1>2, <1>7, <1>9 DEF Queue!Next
<1>10. CASE \E len \in 0..MaxLen : EnsureWritableBytes(len)
  BY <1>3, <1>6, <1>7, <1>10 DEF Queue!Next
<1>11. CASE \E n \in 0..ReadableBytes : Retrieve(n)
  BY <1>4, <1>7, <1>11 DEF Queue!Next
<1>12. CASE RetrieveAll
  <2> DEFINE n == ReadableBytes
  <2>1. n \in 0..ReadableBytes /\ n = ReadableBytes /\ RetrieveAll
    BY <1>5, <1>12
  <2> HIDE DEF n
  <2>2. /\ BufferInv' /\ n \in 0..Len(Contents) /\ Queue!TakeFront(n)
        /\ \E s \in Strings : last' = Call("take", s)
    BY <1>4, <2>1
  <2> QED BY <1>7, <2>2 DEF Queue!Next
<1> QED BY <1>8, <1>9, <1>10, <1>11, <1>12 DEF BufferNext

\* What leaves the buffer alone leaves its contents alone.
LEMMA Stutters == BufferInv /\ UNCHANGED bufferVars => BufferInv' /\ UNCHANGED <<Contents, last>>
BY DEF bufferVars, BufferInv, Good, This, Contents, Peek, ReadableBytes

\* The indices are in order and the vector within its bound, always.
THEOREM BufferInvHolds == BufferSpec => []BufferInv
<1>1. BufferInv /\ [BufferNext]_bufferVars => BufferInv'
  BY QueueStep, Stutters
<1> QED BY <1>1, BufferInvInit, PTL DEF BufferSpec

\* Whatever sequence of calls is made, the indices of the buffer are in order and inside
\* the vector, so that ReadableBytes() and WritableBytes() do not wrap around, and the
\* vector keeps its length (src/src/buffer.cpp).
THEOREM BufferTypeCorrect == BufferSpec => []BufferType
<1> DEFINE LastType == last \in [op : {"new", "put", "prepend", "take", "room"}, data : Strings]
<1>1. BufferInit => LastType
  <2>1. <<>> \in Strings
    BY EmptyIsString
  <2> QED BY <2>1 DEF BufferInit, Call
<1>2. BufferInv /\ LastType /\ [BufferNext]_bufferVars => LastType'
  <2> SUFFICES ASSUME BufferInv, LastType, [BufferNext]_bufferVars PROVE LastType'
    OBVIOUS
  <2>1. CASE BufferNext
    <3>1. /\ last' = Call(last'.op, last'.data)
          /\ last'.op \in {"put", "prepend", "take", "room"} /\ last'.data \in Strings
      BY <2>1, QueueStep
    <3> DEFINE o == last'.op
               d == last'.data
    <3>2. last' = [op |-> o, data |-> d] /\ o \in {"put", "prepend", "take", "room"} /\ d \in Strings
      BY <3>1 DEF Call
    <3> HIDE DEF o, d
    <3> QED BY <3>2
  <2>2. CASE UNCHANGED bufferVars
    BY <2>2 DEF bufferVars
  <2> QED BY <2>1, <2>2
<1>3. BufferInv /\ LastType => BufferType
  BY Indices, BufferAssumption DEF BufferType
<1> HIDE DEF LastType
<1> QED BY <1>1, <1>2, <1>3, BufferInvHolds, PTL DEF BufferSpec

\* Buffer is a queue of bytes: moves inside the vector, growth, the detour of a read over
\* extrabuf and the reuse of retrieved space by Prepend neither lose, duplicate, reorder
\* nor change a byte, whatever the bytes, the sizes and the calls (src/src/buffer.cpp).
THEOREM BufferRefines == BufferSpec => IsByteQueue
<1>1. BufferInit => Queue!Init
  BY BufferInvInit DEF BufferInit, Queue!Init, Queue!Call, Call
<1>2. BufferInv /\ [BufferNext]_bufferVars => [Queue!Next]_<<Contents, last>>
  BY QueueStep, Stutters
<1> QED BY <1>1, <1>2, BufferInvHolds, PTL DEF BufferSpec, IsByteQueue, Queue!Spec

-----------------------------------------------------------------------------
(* Induction over the recursive FlattenSeq.                                *)

\* The library's principles of induction take a predicate as a parameter; the facts
\* about well-founded relations do not, and give this: a set of numbers has a least one.
LEMMA LeastNumber ==
  ASSUME NEW T \in SUBSET Nat, T # {}
  PROVE  \E n \in T : \A m \in T : n <= m
<1> DEFINE R == OpToRel(<, Nat)
<1>1. IsWellFoundedOn(R, Nat)
  BY NatLessThanWellFounded
<1>2. \A m, n \in Nat : m < n => <<m, n>> \in R
  <2> SUFFICES ASSUME NEW m \in Nat, NEW n \in Nat, m < n
               PROVE  <<m, n>> \in {ss \in Nat \X Nat : ss[1] < ss[2]}
    BY DEF OpToRel
  <2> QED OBVIOUS
<1> HIDE DEF R
<1>3. PICK n \in T : \A m \in T : ~(<<m, n>> \in R)
  BY <1>1, WFMin
<1>4. n \in Nat /\ \A m \in T : m \in Nat /\ ~(m < n)
  BY <1>2, <1>3
<1> QED BY <1>4

\* A set of numbers that has 0 and the successors of its own has every number.
LEMMA SetInduction ==
  ASSUME NEW S \in SUBSET Nat, 0 \in S, \A n \in S : n + 1 \in S
  PROVE  S = Nat
<1> DEFINE T == Nat \ S
<1> SUFFICES ASSUME T # {} PROVE FALSE
  OBVIOUS
<1>1. PICK n \in T : \A m \in T : n <= m
  BY LeastNumber
<1>2. n # 0 /\ n - 1 \in Nat
  BY <1>1
<1>3. n - 1 \in S
  BY <1>1, <1>2
<1>4. (n - 1) + 1 \in S
  BY <1>3
<1> QED BY <1>1, <1>2, <1>4

\* Concatenations of the first, the first two ... sequences of ss.
IsPartial(g, ss, k) ==
  /\ g[1] = ss[1]
  /\ \A i \in 2..k : g[i] = g[i - 1] \o ss[i]

\* There are such concatenations for every front of ss.
LEMMA PartialExists ==
  ASSUME NEW S, NEW ss \in Seq(Seq(S)), NEW k \in 1..Len(ss)
  PROVE  \E g \in [1..k -> Seq(S)] : IsPartial(g, ss, k)
<1> DEFINE P(j) == \E g \in [1..j -> Seq(S)] : IsPartial(g, ss, j)
           T == {j \in Nat : j + 1 \in 1..Len(ss) => P(j + 1)}
<1>0. Len(ss) \in Nat /\ \A i \in 1..Len(ss) : ss[i] \in Seq(S)
  OBVIOUS
<1>1. 0 \in T
  <2> SUFFICES ASSUME 1 \in 1..Len(ss) PROVE P(1)
    OBVIOUS
  <2> DEFINE g == [i \in 1..1 |-> ss[1]]
  <2>1. g \in [1..1 -> Seq(S)] /\ IsPartial(g, ss, 1)
    BY <1>0 DEF IsPartial
  <2> QED BY <2>1
<1>2. ASSUME NEW j \in T PROVE j + 1 \in T
  <2> SUFFICES ASSUME j + 2 \in 1..Len(ss) PROVE P(j + 2)
    BY <1>2
  <2>0. j \in Nat /\ j + 1 \in 1..Len(ss)
    BY <1>0
  <2>1. PICK g \in [1..(j + 1) -> Seq(S)] : IsPartial(g, ss, j + 1)
    BY <2>0
  <2> DEFINE h == [i \in 1..(j + 2) |-> IF i = j + 2 THEN g[j + 1] \o ss[j + 2] ELSE g[i]]
  <2>2. g[j + 1] \o ss[j + 2] \in Seq(S)
    BY <1>0, <2>0, <2>1
  <2>3. h \in [1..(j + 2) -> Seq(S)]
    BY <2>0, <2>1, <2>2
  <2>4. h[j + 2] = g[j + 1] \o ss[j + 2] /\ \A i \in 1..(j + 1) : h[i] = g[i]
    <3>1. j + 2 \in 1..(j + 2) /\ \A i \in 1..(j + 1) : i \in 1..(j + 2) /\ i # j + 2
      BY <2>0
    <3> QED BY <3>1
  <2>5. IsPartial(h, ss, j + 2)
    <3>1. h[1] = ss[1]
      BY <2>0, <2>1, <2>4 DEF IsPartial
    <3>2. ASSUME NEW i \in 2..(j + 2) PROVE h[i] = h[i - 1] \o ss[i]
      <4> HIDE DEF h
      <4>0. i = j + 2 \/ i \in 2..(j + 1)
        BY <2>0
      <4>1. CASE i = j + 2
        <5>1. i - 1 = j + 1 /\ j + 1 \in 1..(j + 1)
          BY <2>0, <4>1
        <5> QED BY <2>4, <4>1, <5>1
      <4>2. CASE i \in 2..(j + 1)
        <5>1. i - 1 \in 1..(j + 1) /\ i \in 1..(j + 1)
          BY <2>0, <4>2
        <5>2. g[i] = g[i - 1] \o ss[i]
          BY <2>1, <4>2 DEF IsPartial
        <5> QED BY <2>4, <5>1, <5>2
      <4> QED BY <4>0, <4>1, <4>2
    <3> HIDE DEF h
    <3> QED BY <3>1, <3>2 DEF IsPartial
  <2> HIDE DEF h
  <2> QED BY <2>3, <2>5
<1>3. T = Nat
  <2> HIDE DEF P
  <2>1. T \in SUBSET Nat
    OBVIOUS
  <2> HIDE DEF T
  <2> QED BY <1>1, <1>2, <2>1, SetInduction
<1>4. k - 1 \in Nat /\ (k - 1) + 1 = k
  BY <1>0
<1>5. P((k - 1) + 1)
  <2> HIDE DEF P
  <2> QED BY <1>3, <1>4
<1> QED BY <1>4, <1>5

\* The last of them is what the recursive FlattenSeq computes.
LEMMA FlattenIsLast ==
  ASSUME NEW S, NEW ss \in Seq(Seq(S)), Len(ss) > 0
  PROVE  \E g \in [1..Len(ss) -> Seq(S)] :
           IsPartial(g, ss, Len(ss)) /\ FlattenSeq(ss) = g[Len(ss)]
<1> DEFINE n == Len(ss)
           F(g) == [i \in 1..n |-> IF i = 1 THEN ss[i] ELSE g[i - 1] \o ss[i]]
           h == CHOOSE g : g = F(g)
<1>0. n \in Nat \ {0} /\ \A i \in 1..n : ss[i] \in Seq(S)
  OBVIOUS
<1>1. \E g : g = F(g)
  <2>1. PICK g \in [1..n -> Seq(S)] : IsPartial(g, ss, n)
    BY <1>0, PartialExists
  <2>2. ASSUME NEW i \in 1..n PROVE g[i] = IF i = 1 THEN ss[i] ELSE g[i - 1] \o ss[i]
    <3>1. i = 1 \/ i \in 2..n
      BY <1>0
    <3> QED BY <2>1, <3>1 DEF IsPartial
  <2>3. g = F(g)
    BY <2>1, <2>2
  <2> HIDE DEF F
  <2> QED BY <2>3
<1>2. h = F(h)
  <2> HIDE DEF F
  <2> QED BY <1>1, Zenon
<1>3. FlattenSeq(ss) = h[n]
  BY <1>0 DEF FlattenSeq
<1>4. \A i \in 1..n : h[i] = IF i = 1 THEN ss[i] ELSE h[i - 1] \o ss[i]
  <2> HIDE DEF h
  <2> QED BY <1>2
<1> HIDE DEF h
<1>5. IsPartial(h, ss, n)
  <2>1. 1 \in 1..n /\ \A i \in 2..n : i \in 1..n /\ i # 1
    BY <1>0
  <2> HIDE DEF n
  <2> QED BY <1>4, <2>1 DEF IsPartial
<1>6. h \in [1..n -> Seq(S)]
  <2> DEFINE T == {j \in Nat : j + 1 \in 1..n => h[j + 1] \in Seq(S)}
  <2>1. 0 \in T
    BY <1>0, <1>5 DEF IsPartial
  <2>2. ASSUME NEW j \in T PROVE j + 1 \in T
    <3> SUFFICES ASSUME j + 2 \in 1..n PROVE h[j + 2] \in Seq(S)
      OBVIOUS
    <3>1. j + 2 \in 2..n /\ (j + 2) - 1 = j + 1 /\ j + 1 \in 1..n
      BY <1>0
    <3>2. h[j + 2] = h[j + 1] \o ss[j + 2]
      BY <1>5, <3>1 DEF IsPartial
    <3>3. h[j + 1] \in Seq(S) /\ ss[j + 2] \in Seq(S)
      BY <1>0, <3>1
    <3> QED BY <3>2, <3>3
  <2>3. T = Nat
    <3>1. T \in SUBSET Nat
      OBVIOUS
    <3> HIDE DEF T
    <3> QED BY <2>1, <2>2, <3>1, SetInduction
  <2>4. \A i \in 1..n : h[i] \in Seq(S)
    <3> TAKE i \in 1..n
    <3>1. i - 1 \in Nat /\ (i - 1) + 1 = i
      BY <1>0
    <3> QED BY <2>3, <3>1
  <2> QED BY <1>2, <2>4
<1> QED BY <1>3, <1>5, <1>6

\* Concatenation of a sequence more.
LEMMA FlattenAppend ==
  ASSUME NEW S, NEW ss \in Seq(Seq(S)), NEW x \in Seq(S)
  PROVE  /\ FlattenSeq(ss) \in Seq(S)
         /\ FlattenSeq(Append(ss, x)) = FlattenSeq(ss) \o x
<1> DEFINE n == Len(ss)
           tt == Append(ss, x)
<1>0. /\ n \in Nat /\ tt \in Seq(Seq(S)) /\ Len(tt) = n + 1
      /\ tt[n + 1] = x /\ \A i \in 1..n : tt[i] = ss[i]
  OBVIOUS
<1> HIDE DEF tt
<1>1. PICK h \in [1..(n + 1) -> Seq(S)] :
        IsPartial(h, tt, n + 1) /\ FlattenSeq(tt) = h[n + 1]
  BY <1>0, FlattenIsLast
<1>2. CASE n = 0
  <2>1. ss = <<>> /\ FlattenSeq(ss) = <<>>
    BY <1>2 DEF FlattenSeq
  <2>2. h[1] = x
    BY <1>0, <1>1, <1>2 DEF IsPartial
  <2>3. FlattenSeq(tt) = x
    BY <1>1, <1>2, <2>2
  <2>4. <<>> \o x = x /\ <<>> \in Seq(S)
    BY ConcatEmptySeq
  <2> QED BY <2>1, <2>3, <2>4 DEF tt
<1>3. CASE n > 0
  <2>1. PICK g \in [1..n -> Seq(S)] : IsPartial(g, ss, n) /\ FlattenSeq(ss) = g[n]
    BY <1>3, FlattenIsLast
  <2>2. \A i \in 1..n : h[i] = g[i]
    <3> DEFINE T == {j \in Nat : j + 1 \in 1..n => h[j + 1] = g[j + 1]}
    <3>1. 0 \in T
      BY <1>0, <1>1, <1>3, <2>1 DEF IsPartial
    <3>2. ASSUME NEW j \in T PROVE j + 1 \in T
      <4> SUFFICES ASSUME j + 2 \in 1..n PROVE h[j + 2] = g[j + 2]
        OBVIOUS
      <4>1. j \in Nat /\ j + 2 \in 2..n /\ j + 2 \in 2..(n + 1) /\ (j + 2) - 1 = j + 1 /\ j + 1 \in 1..n
        BY <1>0
      <4>2. h[j + 2] = h[j + 1] \o ss[j + 2] /\ g[j + 2] = g[j + 1] \o ss[j + 2]
        BY <1>0, <1>1, <2>1, <4>1 DEF IsPartial
      <4> QED BY <4>1, <4>2
    <3>3. T = Nat
      <4>1. T \in SUBSET Nat
        OBVIOUS
      <4> HIDE DEF T
      <4> QED BY <3>1, <3>2, <4>1, SetInduction
    <3> TAKE i \in 1..n
    <3>4. i - 1 \in Nat /\ (i - 1) + 1 = i
      BY <1>0
    <3> QED BY <3>3, <3>4
  <2>3. n \in 1..n /\ n + 1 \in 2..(n + 1) /\ (n + 1) - 1 = n
    BY <1>0, <1>3
  <2>4. h[n + 1] = h[n] \o x /\ h[n] = g[n]
    BY <1>0, <1>1, <2>2, <2>3 DEF IsPartial
  <2> QED BY <1>1, <2>1, <2>3, <2>4 DEF tt
<1> QED BY <1>0, <1>2, <1>3

\* Concatenation of a sequence in front.
LEMMA FlattenCons ==
  ASSUME NEW S, NEW ss \in Seq(Seq(S)), NEW x \in Seq(S)
  PROVE  FlattenSeq(<<x>> \o ss) = x \o FlattenSeq(ss)
<1>c. \A t, u \in Seq(S) : (x \o t) \o u = x \o (t \o u)
  BY ConcatAssociative
<1> DEFINE n == Len(ss)
           tt == <<x>> \o ss
<1>0. /\ n \in Nat /\ tt \in Seq(Seq(S)) /\ Len(tt) = n + 1
      /\ tt[1] = x /\ \A i \in 1..n : tt[i + 1] = ss[i] /\ ss[i] \in Seq(S)
  OBVIOUS
<1> HIDE DEF tt
<1>b. Len(tt) > 0
  BY <1>0
<1>1. PICK h \in [1..(n + 1) -> Seq(S)] :
        IsPartial(h, tt, n + 1) /\ FlattenSeq(tt) = h[n + 1]
  <2>1. \E h \in [1..Len(tt) -> Seq(S)] :
          IsPartial(h, tt, Len(tt)) /\ FlattenSeq(tt) = h[Len(tt)]
    BY <1>0, <1>b, FlattenIsLast
  <2> QED BY <1>0, <2>1
<1>a. h[1] = x /\ \A i \in 2..(n + 1) : h[i] = h[i - 1] \o tt[i]
  BY <1>0, <1>1 DEF IsPartial
<1>2. CASE n = 0
  <2>1. ss = <<>> /\ FlattenSeq(ss) = <<>>
    BY <1>2 DEF FlattenSeq
  <2>2. x \o <<>> = x
    BY ConcatEmptySeq
  <2>3. FlattenSeq(tt) = x
    BY <1>1, <1>2, <1>a
  <2> QED BY <2>1, <2>2, <2>3 DEF tt
<1>3. CASE n > 0
  <2>1. PICK g \in [1..n -> Seq(S)] : IsPartial(g, ss, n) /\ FlattenSeq(ss) = g[n]
    BY <1>3, FlattenIsLast
  <2>a. g[1] = ss[1] /\ \A i \in 2..n : g[i] = g[i - 1] \o ss[i]
    BY <2>1 DEF IsPartial
  <2>2. \A i \in 1..n : h[i + 1] = x \o g[i]
    <3> DEFINE T == {j \in Nat : j + 1 \in 1..n => h[j + 2] = x \o g[j + 1]}
    <3>1. 0 \in T
      <4>1. 2 \in 2..(n + 1) /\ 1 \in 1..n /\ 1 + 1 = 2 /\ 2 - 1 = 1
        BY <1>0, <1>3
      <4>2. h[2] = h[2 - 1] \o tt[2] /\ tt[1 + 1] = ss[1]
        BY <1>0, <1>a, <4>1
      <4>3. h[2] = x \o g[1]
        BY <1>a, <2>a, <4>1, <4>2
      <4> QED BY <4>3
    <3>2. ASSUME NEW j \in T PROVE j + 1 \in T
      <4> SUFFICES ASSUME j + 2 \in 1..n PROVE h[j + 3] = x \o g[j + 2]
        OBVIOUS
      <4>1. /\ j \in Nat /\ j + 2 \in 2..n /\ j + 3 \in 2..(n + 1)
            /\ (j + 2) - 1 = j + 1 /\ (j + 3) - 1 = j + 2 /\ (j + 2) + 1 = j + 3 /\ j + 1 \in 1..n
        BY <1>0
      <4>2. h[j + 3] = h[j + 2] \o ss[j + 2] /\ g[j + 2] = g[j + 1] \o ss[j + 2]
        <5>1. h[j + 3] = h[(j + 3) - 1] \o tt[(j + 2) + 1] /\ g[j + 2] = g[(j + 2) - 1] \o ss[j + 2]
          BY <1>a, <2>a, <4>1
        <5>2. tt[(j + 2) + 1] = ss[j + 2]
          BY <1>0, <4>1
        <5> QED BY <4>1, <5>1, <5>2
      <4>3. h[j + 2] = x \o g[j + 1]
        BY <4>1
      <4>4. (x \o g[j + 1]) \o ss[j + 2] = x \o (g[j + 1] \o ss[j + 2])
        <5>1. g[j + 1] \in Seq(S) /\ ss[j + 2] \in Seq(S)
          BY <1>0, <2>1, <4>1
        <5> QED BY ONLY <1>c, <5>1, Zenon
      <4> QED BY <4>2, <4>3, <4>4
    <3>3. T = Nat
      <4>1. T \in SUBSET Nat
        OBVIOUS
      <4> HIDE DEF T
      <4> QED BY <3>1, <3>2, <4>1, SetInduction
    <3> TAKE i \in 1..n
    <3>4. i - 1 \in Nat /\ (i - 1) + 1 = i /\ (i - 1) + 2 = i + 1
      BY <1>0
    <3> QED BY <3>3, <3>4
  <2>3. n \in 1..n
    BY <1>0, <1>3
  <2>4. h[n + 1] = x \o g[n]
    BY <2>2, <2>3
  <2> QED BY <1>1, <2>1, <2>4 DEF tt
<1>4. n = 0 \/ n > 0
  BY <1>0
<1> QED BY <1>2, <1>3, <1>4

-----------------------------------------------------------------------------
(* Frames.                                                                 *)

\* The payloads a frame can hold.
Payload == {m \in Seq(Bytes) : Len(m) < Word}

\* Division with remainder.
LEMMA Quotient ==
  ASSUME NEW a \in Nat, NEW b \in Nat, b > 0
  PROVE  a = b * (a \div b) + (a % b)
  OBVIOUS

\* HostToNetLong and PeekInt32 agree: the two bytes of a length give it back.
LEMMA LengthBytes ==
  ASSUME NEW n \in Nat, n < Word
  PROVE  LET b == NetLong(n) IN
         b[1] \in Bytes /\ b[2] \in Bytes /\ b[1] * Base + b[2] = n
<1>0. Base \in Nat /\ Base > 1
  BY CodecAssumption DEF Word
<1>1. n % Word = n
  <2>1. Base * Base \in Nat /\ Base * Base > 0
    BY <1>0
  <2>2. Word \in Nat /\ Word > 0
    BY <2>1 DEF Word
  <2> QED BY ONLY n \in Nat, n < Word, <2>2
<1>2. (n % Base) \in 0..(Base - 1) /\ (n \div Base) \in Nat
  BY ONLY <1>0, n \in Nat
<1>3. (n \div Base) * Base + (n % Base) = n
  <2>1. n = Base * (n \div Base) + (n % Base)
    BY <1>0, Quotient
  <2> QED BY <1>0, <1>2, <2>1
<1>4. n \div Base < Base
  <2>1. n < Base * Base
    BY DEF Word
  <2> DEFINE q == n \div Base
             r == n % Base
  <2>2. q \in Nat /\ r \in Nat /\ q * Base + r = n
    BY <1>2, <1>3
  <2> HIDE DEF q, r
  <2>3. q < Base
    BY <1>0, <2>1, <2>2
  <2> QED BY <2>3 DEF q
<1>5. NetLong(n) = <<n \div Base, n % Base>>
  BY <1>1 DEF NetLong
<1>6. n \div Base \in Bytes /\ n % Base \in Bytes
  <2>1. n \div Base \in 0..(Base - 1)
    BY <1>0, <1>2, <1>4
  <2> QED BY <1>2, <2>1 DEF Bytes
<1>7. \A x, y : <<x, y>>[1] = x /\ <<x, y>>[2] = y
  OBVIOUS
<1> QED BY ONLY <1>3, <1>5, <1>6, <1>7, Zenon

\* A frame is its length and its payload.
LEMMA FrameBytes ==
  ASSUME NEW m \in Payload
  PROVE  LET f == Frame(m) IN
         /\ f \in Seq(Bytes) /\ Len(f) = 2 + Len(m) /\ Len(m) \in Nat
         /\ f[1] * Base + f[2] = Len(m)
         /\ \A i \in 1..Len(m) : f[2 + i] = m[i]
<1> DEFINE h == NetLong(Len(m))
<1>1. Len(m) \in Nat /\ Len(m) < Word /\ m \in Seq(Bytes)
  BY DEF Payload
<1>2. h[1] \in Bytes /\ h[2] \in Bytes /\ h[1] * Base + h[2] = Len(m)
  BY <1>1, LengthBytes
<1>3. h \in Seq(Bytes) /\ Len(h) = 2
  BY <1>2 DEF NetLong
<1> HIDE DEF h
<1>4. /\ h \o m \in Seq(Bytes) /\ Len(h \o m) = 2 + Len(m)
      /\ (h \o m)[1] = h[1] /\ (h \o m)[2] = h[2]
      /\ \A i \in 1..Len(m) : (h \o m)[2 + i] = m[i]
  <2>1. /\ h \o m \in Seq(Bytes) /\ Len(h \o m) = Len(h) + Len(m)
        /\ \A i \in 1..(Len(h) + Len(m)) : (h \o m)[i] = IF i <= Len(h) THEN h[i] ELSE m[i - Len(h)]
    BY <1>1, <1>3, ConcatProperties
  <2>2. \A i \in 1..Len(m) : 2 + i \in 1..(2 + Len(m)) /\ ~(2 + i <= 2) /\ (2 + i) - 2 = i
    BY <1>1
  <2>3. 1 \in 1..(2 + Len(m)) /\ 2 \in 1..(2 + Len(m))
    BY <1>1
  <2> QED BY <1>3, <2>1, <2>2, <2>3
<1> QED BY <1>1, <1>2, <1>4 DEF Frame, h

\* The sequence of frames whose concatenation Frames is.
FrameSeq(ms) == [i \in 1..Len(ms) |-> Frame(ms[i])]

\* As many frames as messages, each a sequence of bytes.
LEMMA FrameSeqType ==
  ASSUME NEW ms \in Seq(Payload)
  PROVE  FrameSeq(ms) \in Seq(Seq(Bytes)) /\ Len(FrameSeq(ms)) = Len(ms)
<1>1. Len(ms) \in Nat /\ \A i \in 1..Len(ms) : ms[i] \in Payload
  OBVIOUS
<1>2. \A i \in 1..Len(ms) : Frame(ms[i]) \in Seq(Bytes)
  BY <1>1, FrameBytes
<1> QED BY <1>1, <1>2 DEF FrameSeq

\* The frames together are a sequence of bytes.
LEMMA FramesType ==
  ASSUME NEW ms \in Seq(Payload)
  PROVE  Frames(ms) \in Seq(Bytes)
<1>1. FrameSeq(ms) \in Seq(Seq(Bytes)) /\ <<>> \in Seq(Bytes)
  BY FrameSeqType
<1>2. FlattenSeq(FrameSeq(ms)) \in Seq(Bytes)
  BY <1>1, FlattenAppend
<1> QED BY <1>2 DEF Frames, FrameSeq

\* Of no messages there are no bytes.
LEMMA FramesEmpty == Frames(<<>>) = <<>>
<1>1. FrameSeq(<<>>) = <<>>
  BY DEF FrameSeq
<1>2. FlattenSeq(<<>>) = <<>>
  BY DEF FlattenSeq
<1> QED BY <1>1, <1>2 DEF Frames, FrameSeq

\* The frame of one message more comes at the end.
LEMMA FramesAppend ==
  ASSUME NEW ms \in Seq(Payload), NEW m \in Payload
  PROVE  Frames(Append(ms, m)) = Frames(ms) \o Frame(m)
<1> DEFINE am == Append(ms, m)
           f == Frame(m)
<1>1. f \in Seq(Bytes) /\ FrameSeq(ms) \in Seq(Seq(Bytes)) /\ Len(FrameSeq(ms)) = Len(ms)
  BY FrameBytes, FrameSeqType
<1>2. am \in Seq(Payload) /\ Len(am) = Len(ms) + 1 /\ Len(ms) \in Nat
      /\ am[Len(ms) + 1] = m /\ \A i \in 1..Len(ms) : am[i] = ms[i]
  OBVIOUS
<1> HIDE DEF am, f
<1>3. FrameSeq(am) \in Seq(Seq(Bytes)) /\ Len(FrameSeq(am)) = Len(am)
  BY <1>2, FrameSeqType
<1>4. FrameSeq(am) = Append(FrameSeq(ms), f)
  <2> DEFINE s == FrameSeq(am)
             t == Append(FrameSeq(ms), f)
  <2>1. t \in Seq(Seq(Bytes)) /\ Len(t) = Len(ms) + 1 /\ t[Len(ms) + 1] = f
        /\ \A i \in 1..Len(ms) : t[i] = FrameSeq(ms)[i]
    BY <1>1, <1>2
  <2>2. s[Len(ms) + 1] = f /\ \A i \in 1..Len(ms) : s[i] = FrameSeq(ms)[i]
    BY <1>2 DEF FrameSeq, f
  <2> HIDE DEF s, t
  <2>3. \A i \in 1..(Len(ms) + 1) : s[i] = t[i]
    <3> TAKE i \in 1..(Len(ms) + 1)
    <3>1. i \in 1..Len(ms) \/ i = Len(ms) + 1
      BY <1>2
    <3> QED BY <2>1, <2>2, <3>1
  <2>4. s \in Seq(Seq(Bytes)) /\ Len(s) = Len(ms) + 1
    BY <1>2, <1>3 DEF s
  <2>5. s = t
    BY <2>1, <2>3, <2>4, SeqEqual
  <2> QED BY <2>5 DEF s, t
<1>5. FlattenSeq(Append(FrameSeq(ms), f)) = FlattenSeq(FrameSeq(ms)) \o f
  BY <1>1, FlattenAppend
<1> QED BY <1>4, <1>5 DEF Frames, FrameSeq, am, f

\* The frame of the first message comes first.
LEMMA FramesCons ==
  ASSUME NEW ms \in Seq(Payload), NEW m \in Payload
  PROVE  Frames(<<m>> \o ms) = Frame(m) \o Frames(ms)
<1> DEFINE am == <<m>> \o ms
           f == Frame(m)
<1>1. f \in Seq(Bytes) /\ FrameSeq(ms) \in Seq(Seq(Bytes)) /\ Len(FrameSeq(ms)) = Len(ms)
  BY FrameBytes, FrameSeqType
<1>2. am \in Seq(Payload) /\ Len(am) = Len(ms) + 1 /\ Len(ms) \in Nat
      /\ am[1] = m /\ \A i \in 1..Len(ms) : am[i + 1] = ms[i]
  OBVIOUS
<1> HIDE DEF am, f
<1>3. FrameSeq(am) \in Seq(Seq(Bytes)) /\ Len(FrameSeq(am)) = Len(am)
  BY <1>2, FrameSeqType
<1>4. FrameSeq(am) = <<f>> \o FrameSeq(ms)
  <2> DEFINE s == FrameSeq(am)
             t == <<f>> \o FrameSeq(ms)
  <2>1. t \in Seq(Seq(Bytes)) /\ Len(t) = Len(ms) + 1 /\ t[1] = f
        /\ \A i \in 1..Len(ms) : t[i + 1] = FrameSeq(ms)[i]
    BY <1>1, <1>2
  <2>2. s[1] = f /\ \A i \in 1..Len(ms) : s[i + 1] = FrameSeq(ms)[i]
    BY <1>2 DEF FrameSeq, f
  <2> HIDE DEF s, t
  <2>3. \A i \in 1..(Len(ms) + 1) : s[i] = t[i]
    <3> TAKE i \in 1..(Len(ms) + 1)
    <3>1. i = 1 \/ (i - 1 \in 1..Len(ms) /\ (i - 1) + 1 = i)
      BY <1>2
    <3> QED BY <2>1, <2>2, <3>1
  <2>4. s \in Seq(Seq(Bytes)) /\ Len(s) = Len(ms) + 1
    BY <1>2, <1>3 DEF s
  <2>5. s = t
    BY <2>1, <2>3, <2>4, SeqEqual
  <2> QED BY <2>5 DEF s, t
<1>5. FlattenSeq(<<f>> \o FrameSeq(ms)) = f \o FlattenSeq(FrameSeq(ms))
  BY <1>1, FlattenCons
<1> QED BY <1>4, <1>5 DEF Frames, FrameSeq, am, f

-----------------------------------------------------------------------------
(* The stream and the frames in it.                                        *)

\* If two ways to cut a stream are given, the shorter front is the beginning of the
\* longer one, and what is left of that is the beginning of the other rest.
LEMMA CutFront ==
  ASSUME NEW S, NEW a \in Seq(S), NEW w \in Seq(S), NEW f \in Seq(S), NEW r \in Seq(S),
         a \o w = f \o r, Len(f) <= Len(a)
  PROVE  SubSeq(a, Len(f) + 1, Len(a)) \o w = r
<1> DEFINE c == SubSeq(a, Len(f) + 1, Len(a))
           lf == Len(f)
           la == Len(a)
<1>1. lf \in Nat /\ la \in Nat /\ Len(w) \in Nat /\ Len(r) \in Nat /\ lf <= la
  OBVIOUS
<1>2. /\ c \in Seq(S) /\ Len(c) = la - lf
      /\ \A i \in 1..(la - lf) : c[i] = a[lf + i]
  <2>1. \A i \in (lf + 1)..la : a[i] \in S
    BY <1>1
  <2>2. /\ c \in Seq(S) /\ Len(c) = IF lf + 1 <= la THEN la - (lf + 1) + 1 ELSE 0
        /\ \A i \in 1..(la - (lf + 1) + 1) : c[i] = a[(lf + 1) + i - 1]
    BY <1>1, <2>1, SubSeqProperties
  <2>3. la - (lf + 1) + 1 = la - lf /\ \A i \in 1..(la - lf) : (lf + 1) + i - 1 = lf + i
    BY <1>1
  <2> HIDE DEF c, lf, la
  <2> QED BY <1>1, <2>2, <2>3, SMTT(30)
<1> HIDE DEF c
<1>3. /\ a \o w \in Seq(S) /\ Len(a \o w) = la + Len(w)
      /\ \A i \in 1..(la + Len(w)) : (a \o w)[i] = IF i <= la THEN a[i] ELSE w[i - la]
  BY ConcatProperties
<1>4. /\ Len(f \o r) = lf + Len(r)
      /\ \A i \in 1..(lf + Len(r)) : (f \o r)[i] = IF i <= lf THEN f[i] ELSE r[i - lf]
  BY ConcatProperties
<1>5. /\ c \o w \in Seq(S) /\ Len(c \o w) = Len(c) + Len(w)
      /\ \A i \in 1..(Len(c) + Len(w)) : (c \o w)[i] = IF i <= Len(c) THEN c[i] ELSE w[i - Len(c)]
  BY <1>2, ConcatProperties
<1>6. la + Len(w) = lf + Len(r) /\ Len(c \o w) = Len(r)
  BY <1>1, <1>2, <1>3, <1>4, <1>5
<1>7. ASSUME NEW i \in 1..Len(r) PROVE (c \o w)[i] = r[i]
  <2>1. lf + i \in 1..(la + Len(w)) /\ ~(lf + i <= lf) /\ (lf + i) - lf = i
        /\ i \in 1..(Len(c) + Len(w))
    BY <1>1, <1>2, <1>6
  <2>2. (a \o w)[lf + i] = r[i]
    BY <1>4, <1>6, <2>1
  <2>3. CASE i <= la - lf
    <3>1. lf + i <= la /\ i \in 1..(la - lf) /\ i <= Len(c)
      BY <1>1, <1>2, <2>3
    <3>2. (a \o w)[lf + i] = a[lf + i] /\ (c \o w)[i] = c[i]
      BY <1>3, <1>5, <2>1, <3>1
    <3> QED BY <1>2, <2>2, <3>1, <3>2
  <2>4. CASE ~(i <= la - lf)
    <3>1. ~(lf + i <= la) /\ ~(i <= Len(c)) /\ (lf + i) - la = i - Len(c)
      BY <1>1, <1>2, <2>4
    <3>2. (a \o w)[lf + i] = w[(lf + i) - la] /\ (c \o w)[i] = w[i - Len(c)]
      BY <1>3, <1>5, <2>1, <3>1
    <3> QED BY <2>2, <3>1, <3>2
  <2> QED BY <2>3, <2>4
<1>8. c \o w = r
  BY <1>5, <1>6, <1>7, SeqEqual
<1> QED BY <1>8 DEF c

\* The messages that have not been handed over yet.
Pending == SubSeq(sent, Len(delivered) + 1, Len(sent))

\* Messages can be framed.
LEMMA MessagesArePayload ==
  Messages \subseteq Payload /\ Pong \in Payload /\ Ping \in Messages /\ Seq(Messages) \subseteq Seq(Payload)
<1>1. Messages \subseteq Payload /\ Pong \in Payload /\ Ping \in Messages
  BY CodecAssumption DEF Bytes, Payload, Word
<1>2. Seq(Messages) \subseteq Seq(Payload)
  BY <1>1, SeqMonotonic
<1> QED BY <1>1, <1>2

\* They are the messages after those that have been.
LEMMA PendingType ==
  ASSUME TypeOK, Len(delivered) <= Len(sent)
  PROVE  /\ Pending \in Seq(Messages) /\ Len(Pending) = Len(sent) - Len(delivered)
         /\ \A i \in 1..Len(Pending) : Pending[i] = sent[Len(delivered) + i]
<1> DEFINE n == Len(delivered)
           k == Len(sent)
<1>1. n \in Nat /\ k \in Nat /\ n <= k /\ \A i \in (n + 1)..k : sent[i] \in Messages
  BY DEF TypeOK
<1>2. /\ Pending \in Seq(Messages) /\ Len(Pending) = IF n + 1 <= k THEN k - (n + 1) + 1 ELSE 0
      /\ \A i \in 1..(k - (n + 1) + 1) : Pending[i] = sent[(n + 1) + i - 1]
  BY <1>1, SubSeqProperties DEF Pending
<1>3. k - (n + 1) + 1 = k - n /\ \A i \in 1..(k - n) : (n + 1) + i - 1 = n + i
  BY <1>1
<1> HIDE DEF n, k
<1>4. Len(Pending) = k - n /\ \A i \in 1..(k - n) : Pending[i] = sent[n + i]
  BY <1>1, <1>2, <1>3
<1> QED BY <1>2, <1>4 DEF n, k

\* The same without the first of them.
Rest == SubSeq(sent, Len(delivered) + 2, Len(sent))

\* Once everything was handed over, nothing is in the buffer.
LEMMA NothingPending ==
  ASSUME TypeOK, FramesInStep, Len(delivered) = Len(sent)
  PROVE  input = <<>>
<1>1. input \in Seq(Bytes) /\ wire \in Seq(Bytes) /\ sent \in Seq(Messages)
      /\ Len(sent) \in Nat /\ input \o wire = Frames(Pending)
  BY DEF TypeOK, FramesInStep, Pending
<1>2. Pending = <<>>
  BY <1>1, SubSeqEmpty DEF Pending
<1>3. input \o wire = <<>>
  BY <1>1, <1>2, FramesEmpty
<1> QED BY <1>1, <1>3, ConcatEqualIffEmpty

\* With a header in the buffer there is a message to come, its frame is at the front of
\* the stream, and the length that PeekInt32 reads, if it passes the test, is its own.
LEMMA NextFrame ==
  ASSUME TypeOK, FramesInStep, Len(input) >= 2
  PROVE  LET m == sent[Len(delivered) + 1] IN
         /\ Len(delivered) < Len(sent) /\ m \in Messages /\ Rest \in Seq(Messages)
         /\ input \o wire = Frame(m) \o Frames(Rest)
         /\ \A i \in 1..Len(input) : i <= Len(Frame(m)) => input[i] = Frame(m)[i]
         /\ ~BadLength(PeekInt32(input)) =>
              PeekInt32(input) = Len(m) /\ Len(m) <= MaxFrame
<1> DEFINE n == Len(delivered)
           k == Len(sent)
           m == sent[n + 1]
           f == Frame(m)
<1>1. /\ n \in Nat /\ k \in Nat /\ n <= k /\ sent \in Seq(Messages)
      /\ input \in Seq(Bytes) /\ wire \in Seq(Bytes)
      /\ input \o wire = Frames(Pending)
  BY DEF TypeOK, FramesInStep, Pending
<1>2. n < k
  <2> SUFFICES ASSUME n = k PROVE FALSE
    BY <1>1
  <2>1. input = <<>>
    BY NothingPending
  <2> QED BY <2>1
<1>3. m \in Messages /\ m \in Payload
  BY <1>1, <1>2, MessagesArePayload
<1>4. Pending = <<m>> \o Rest
  <2>1. n + 1 \in 1..k /\ k \in (n + 1)..k /\ (n + 1) + 1 = n + 2
    BY <1>1, <1>2
  <2>2. SubSeq(sent, n + 1, k) = <<sent[n + 1]>> \o SubSeq(sent, (n + 1) + 1, k)
    BY <1>1, <2>1, SubSeqRecursiveFirst
  <2> QED BY <2>1, <2>2 DEF Pending, Rest
<1>5. Rest \in Seq(Messages) /\ Rest \in Seq(Payload)
  <2>1. \A i \in (n + 2)..k : sent[i] \in Messages
    BY <1>1
  <2>2. Rest \in Seq(Messages)
    BY <1>1, <2>1, SubSeqProperties DEF Rest
  <2> QED BY <2>2, MessagesArePayload
<1>6. input \o wire = f \o Frames(Rest)
  BY <1>1, <1>3, <1>4, <1>5, FramesCons
<1>7. /\ f \in Seq(Bytes) /\ Len(f) = 2 + Len(m) /\ Len(m) \in Nat
      /\ f[1] * Base + f[2] = Len(m) /\ Len(m) < Word
  BY <1>3, FrameBytes DEF Payload
<1>8. Frames(Rest) \in Seq(Bytes)
  BY <1>5, FramesType
<1> HIDE DEF f, m
<1>9. ASSUME NEW i \in 1..Len(input), i <= Len(f) PROVE input[i] = f[i]
  <2> DEFINE r == Frames(Rest)
  <2>0. r \in Seq(Bytes) /\ input \o wire = f \o r
    BY <1>6, <1>8
  <2> HIDE DEF r
  <2>1. i \in 1..(Len(input) + Len(wire)) /\ i \in 1..(Len(f) + Len(r)) /\ i <= Len(input)
    BY <1>1, <1>7, <1>9, <2>0, SMTT(30)
  <2>2. (input \o wire)[i] = input[i]
    BY <1>1, <2>1, ConcatProperties
  <2>3. (f \o r)[i] = f[i]
    BY <1>7, <1>9, <2>0, <2>1, ConcatProperties
  <2> QED BY <2>0, <2>2, <2>3
<1>10. input[1] = f[1] /\ input[2] = f[2]
  <2>1. 1 \in 1..Len(input) /\ 2 \in 1..Len(input) /\ 1 <= Len(f) /\ 2 <= Len(f)
    BY <1>1, <1>7
  <2> QED BY <1>9, <2>1
<1>11. ASSUME ~BadLength(PeekInt32(input))
       PROVE  PeekInt32(input) = Len(m) /\ Len(m) <= MaxFrame
  <2>1. PeekInt32(input) = IF Len(m) >= Word \div 2 THEN Len(m) - Word ELSE Len(m)
    BY <1>7, <1>10 DEF PeekInt32
  <2>2. Word \in Nat /\ MaxFrame \in Nat
    <3>1. Base \in Nat /\ MaxFrame \in Int /\ MaxFrame >= 0
      BY CodecAssumption DEF Word
    <3> QED BY <3>1 DEF Word
  <2>3. CASE Len(m) >= Word \div 2
    <3>1. PeekInt32(input) = Len(m) - Word /\ Len(m) - Word < 0
      BY <1>7, <2>1, <2>2, <2>3
    <3> QED BY <1>11, <3>1 DEF BadLength
  <2>4. CASE ~(Len(m) >= Word \div 2)
    <3>1. PeekInt32(input) = Len(m)
      BY <2>1, <2>4
    <3> QED BY <1>7, <1>11, <2>2, <3>1 DEF BadLength
  <2> QED BY <2>3, <2>4
<1> QED BY <1>2, <1>3, <1>5, <1>6, <1>9, <1>11 DEF f, m

\* A frame is taken as a whole: the message is the next one, and what stays in the
\* stream begins with the frame after it.
LEMMA TakesNext ==
  ASSUME TypeOK, FramesInStep, TakeFrame
  PROVE  LET m == sent[Len(delivered) + 1] IN
         /\ Len(delivered) < Len(sent) /\ m \in Messages /\ Len(m) <= MaxFrame
         /\ message' = m /\ delivered' = Append(delivered, m)
         /\ input' \in Seq(Bytes) /\ input' \o wire = Frames(Rest)
<1> DEFINE m == sent[Len(delivered) + 1]
           f == Frame(m)
           p == PeekInt32(input)
           r == Frames(Rest)
<1>1. Len(input) >= 2 /\ ~BadLength(p) /\ Len(input) >= 2 + p
  BY DEF TakeFrame, Header
<1>2. /\ Len(delivered) < Len(sent) /\ m \in Messages /\ Rest \in Seq(Messages)
      /\ input \o wire = f \o r /\ p = Len(m) /\ Len(m) <= MaxFrame
      /\ \A i \in 1..Len(input) : i <= Len(f) => input[i] = f[i]
  BY <1>1, NextFrame
<1>3. m \in Payload /\ Rest \in Seq(Payload)
  BY <1>2, MessagesArePayload
<1>4. /\ f \in Seq(Bytes) /\ Len(f) = 2 + Len(m) /\ Len(m) \in Nat
      /\ \A i \in 1..Len(m) : f[2 + i] = m[i]
  BY <1>3, FrameBytes
<1>5. r \in Seq(Bytes) /\ m \in Seq(Bytes)
  BY <1>3, FramesType DEF Payload
<1>6. input \in Seq(Bytes) /\ wire \in Seq(Bytes) /\ Len(input) \in Nat
  BY DEF TypeOK
<1>7. /\ message' = SubSeq(input, 3, 2 + Len(m)) /\ input' = SubSeq(input, 2 + Len(m) + 1, Len(input))
      /\ delivered' = Append(delivered, message')
  BY <1>2 DEF TakeFrame, Header
<1> HIDE DEF f, m, p, r
<1>8. message' = m
  <2> DEFINE c == SubSeq(input, 3, 2 + Len(m))
  <2>1. Len(input) >= 2 + Len(m)
    BY <1>1, <1>2
  <2>2. \A i \in 3..(2 + Len(m)) : input[i] \in Bytes
    BY <1>4, <1>6, <2>1
  <2>3. /\ c \in Seq(Bytes) /\ Len(c) = (IF 3 <= 2 + Len(m) THEN (2 + Len(m)) - 3 + 1 ELSE 0)
        /\ \A i \in 1..((2 + Len(m)) - 3 + 1) : c[i] = input[3 + i - 1]
    BY <1>4, <2>2, SubSeqProperties
  <2>4. (2 + Len(m)) - 3 + 1 = Len(m) /\ Len(c) = Len(m)
    BY <1>4, <2>3
  <2>5. ASSUME NEW i \in 1..Len(m) PROVE c[i] = m[i]
    <3>1. 3 + i - 1 = 2 + i /\ 2 + i \in 1..Len(input) /\ 2 + i <= Len(f)
      BY <1>4, <1>6, <2>1
    <3>2. c[i] = input[2 + i]
      BY <2>3, <2>4, <3>1
    <3> QED BY <1>2, <1>4, <3>1, <3>2
  <2> HIDE DEF c
  <2>6. c = m
    BY <1>5, <2>3, <2>4, <2>5, SeqEqual
  <2> QED BY <1>7, <2>6 DEF c
<1>9. input' \o wire = r
  <2>1. Len(f) <= Len(input) /\ input' = SubSeq(input, Len(f) + 1, Len(input))
    BY <1>1, <1>2, <1>4, <1>6, <1>7
  <2> QED BY <1>2, <1>4, <1>5, <1>6, <2>1, CutFront
<1>10. input' \in Seq(Bytes)
  <2>1. 2 + Len(m) + 1 \in Int /\ \A i \in (2 + Len(m) + 1)..Len(input) : input[i] \in Bytes
    BY <1>4, <1>6
  <2> QED BY <1>6, <1>7, <2>1, SubSeqProperties
<1> QED BY <1>2, <1>7, <1>8, <1>9, <1>10 DEF m, r

\* Three pieces of a stream may be put together in either order.
LEMMA Reassociate ==
  \A x, t, u \in Seq(Bytes) : (x \o t) \o u = x \o (t \o u)
<1> DEFINE S == Seq(Bytes)
<1> SUFFICES ASSUME NEW x \in S, NEW t \in S, NEW u \in S PROVE (x \o t) \o u = x \o (t \o u)
  OBVIOUS
<1> QED BY ConcatAssociative, SMT

\* A stretch of a sequence does not change when something is appended.
LEMMA AppendKeeps ==
  ASSUME NEW S, NEW s \in Seq(S), NEW x \in S, NEW a \in 1..(Len(s) + 1), NEW b \in 0..Len(s)
  PROVE  SubSeq(Append(s, x), a, b) = SubSeq(s, a, b)
<1> DEFINE t == Append(s, x)
           d == b - a + 1
<1>1. t \in Seq(S) /\ Len(t) = Len(s) + 1 /\ \A i \in 1..Len(s) : t[i] = s[i]
  OBVIOUS
<1> HIDE DEF t
<1>2. a \in Int /\ b \in Int /\ \A i \in a..b : i \in 1..Len(s)
  OBVIOUS
<1>3. \A i \in a..b : t[i] = s[i] /\ s[i] \in S /\ t[i] \in S
  BY <1>1, <1>2
<1>4. /\ SubSeq(s, a, b) \in Seq(S) /\ Len(SubSeq(s, a, b)) = (IF a <= b THEN d ELSE 0)
      /\ \A i \in 1..d : SubSeq(s, a, b)[i] = s[a + i - 1]
  BY <1>2, <1>3, SubSeqProperties
<1>5. /\ SubSeq(t, a, b) \in Seq(S) /\ Len(SubSeq(t, a, b)) = (IF a <= b THEN d ELSE 0)
      /\ \A i \in 1..d : SubSeq(t, a, b)[i] = t[a + i - 1]
  BY <1>2, <1>3, SubSeqProperties
<1>6. \A i \in 1..d : a + i - 1 \in a..b
  BY <1>2
<1> HIDE DEF d
<1>7. \A i \in 1..d : SubSeq(t, a, b)[i] = SubSeq(s, a, b)[i]
  BY <1>3, <1>4, <1>5, <1>6
<1>8. Len(SubSeq(t, a, b)) = Len(SubSeq(s, a, b)) /\ \A i \in 1..Len(SubSeq(s, a, b)) : i \in 1..d
  BY <1>2, <1>4, <1>5 DEF d
<1>9. SubSeq(t, a, b) = SubSeq(s, a, b)
  BY <1>4, <1>5, <1>7, <1>8, SeqEqual
<1> QED BY <1>9 DEF t

\* The steps that leave the stream and what was handed over alone.
StreamUntouched == UNCHANGED <<wire, input, sent, delivered>>

\* Only the peer, a read and a complete frame move bytes of the stream.
LEMMA StreamSteps ==
  ASSUME [Next]_vars
  PROVE  \/ \E m \in Messages : PeerSends(m)
         \/ \E n \in 1..Len(wire) : Read(n)
         \/ TakeFrame
         \/ StreamUntouched
  BY DEF Next, Reads, Decode, Callback, HeaderMissing, InvalidLength,
         HalfFrame, Return, HandleHeartbeat, Echo, CallbackCloses,
         LeaveCallback, vars, StreamUntouched

\* Neither a write of the peer, a read of any size nor a frame taken out puts the stream
\* out of step with the messages.
LEMMA FramesStep ==
  ASSUME TypeOK, FramesInStep, [Next]_vars
  PROVE  FramesInStep'
<1> DEFINE n == Len(delivered)
           k == Len(sent)
<1>1. /\ n \in Nat /\ k \in Nat /\ n <= k /\ sent \in Seq(Messages) /\ delivered \in Seq(Messages)
      /\ input \in Seq(Bytes) /\ wire \in Seq(Bytes)
      /\ delivered = SubSeq(sent, 1, n) /\ input \o wire = Frames(Pending)
      /\ \A i \in 1..n : Len(delivered[i]) <= MaxFrame
  BY DEF TypeOK, FramesInStep, Pending
<1>2. ASSUME NEW m \in Messages, PeerSends(m) PROVE FramesInStep'
  <2>1. sent' = Append(sent, m) /\ wire' = wire \o Frame(m) /\ input' = input /\ delivered' = delivered
    BY <1>2 DEF PeerSends
  <2>2. sent' \in Seq(Messages) /\ Len(sent') = k + 1 /\ sent'[k + 1] = m /\ \A i \in 1..k : sent'[i] = sent[i]
    BY <1>1, <2>1
  <2>3. SubSeq(sent', 1, n) = SubSeq(sent, 1, n) /\ SubSeq(sent', n + 1, k) = Pending
    <3>1. 1 \in 1..(k + 1) /\ n + 1 \in 1..(k + 1) /\ n \in 0..k /\ k \in 0..k
      BY <1>1
    <3>2. SubSeq(Append(sent, m), 1, n) = SubSeq(sent, 1, n)
      BY <1>1, <3>1, AppendKeeps
    <3>3. SubSeq(Append(sent, m), n + 1, k) = SubSeq(sent, n + 1, k)
      BY <1>1, <3>1, AppendKeeps
    <3> QED BY <2>1, <3>2, <3>3 DEF Pending
  <2>4. Pending' = Append(Pending, m)
    <3>1. n + 1 \in 1..Len(sent') /\ k + 1 \in (n + 1)..Len(sent') /\ (k + 1) - 1 = k
      BY <1>1, <2>2
    <3>2. SubSeq(sent', n + 1, k + 1) = SubSeq(sent', n + 1, k) \o <<m>>
      BY <2>2, <3>1, SubSeqRecursiveSecond
    <3>3. Pending \o <<m>> = Append(Pending, m)
      BY <1>1, PendingType, AppendIsConcat
    <3> QED BY <2>1, <2>2, <2>3, <3>2, <3>3 DEF Pending
  <2>5. input' \o wire' = Frames(Pending')
    <3> DEFINE f == Frame(m)
    <3>1. Pending \in Seq(Payload) /\ m \in Payload
      BY <1>1, PendingType, MessagesArePayload
    <3>2. f \in Seq(Bytes)
      BY <3>1, FrameBytes
    <3> HIDE DEF f
    <3>3. input \o (wire \o f) = (input \o wire) \o f
      <4>1. input \in Seq(Bytes) /\ wire \in Seq(Bytes)
        BY <1>1
      <4>2. (input \o wire) \o f = input \o (wire \o f)
        BY <3>2, <4>1, Reassociate, Zenon
      <4> QED BY <4>2
    <3>4. Frames(Append(Pending, m)) = Frames(Pending) \o f
      BY <3>1, FramesAppend DEF f
    <3> QED BY <1>1, <2>1, <2>4, <3>3, <3>4 DEF f
  <2>6. n <= Len(sent') /\ Len(delivered') = n
    BY <1>1, <2>1, <2>2
  <2> QED BY <1>1, <2>1, <2>3, <2>5, <2>6 DEF FramesInStep, Pending
<1>3. ASSUME NEW j \in 1..Len(wire), Read(j) PROVE FramesInStep'
  <2>1. /\ input' = input \o SubSeq(wire, 1, j) /\ wire' = SubSeq(wire, j + 1, Len(wire))
        /\ sent' = sent /\ delivered' = delivered
    BY <1>3 DEF Read
  <2>2. SubSeq(wire, 1, j) \o SubSeq(wire, j + 1, Len(wire)) = SubSeq(wire, 1, Len(wire))
    <3>1. 1 \in 1..(Len(wire) + 1) /\ j \in (1 - 1)..Len(wire) /\ Len(wire) \in j..Len(wire)
      BY <1>1
    <3> QED BY <1>1, <3>1, ConcatAdjacentSubSeq
  <2>3. SubSeq(wire, 1, Len(wire)) = wire
    BY <1>1, SubSeqFull
  <2>4. SubSeq(wire, 1, j) \in Seq(Bytes) /\ SubSeq(wire, j + 1, Len(wire)) \in Seq(Bytes)
    BY <1>1, SMTT(30)
  <2>5. (input \o SubSeq(wire, 1, j)) \o SubSeq(wire, j + 1, Len(wire))
            = input \o (SubSeq(wire, 1, j) \o SubSeq(wire, j + 1, Len(wire)))
    <3>1. input \in Seq(Bytes)
      BY <1>1
    <3> QED BY <2>4, <3>1, Reassociate, Zenon
  <2>6. input' \o wire' = input \o wire
    BY <2>1, <2>2, <2>3, <2>5
  <2> QED BY <1>1, <2>1, <2>6 DEF FramesInStep, Pending
<1>4. ASSUME TakeFrame PROVE FramesInStep'
  <2> DEFINE m == sent[n + 1]
  <2>1. /\ n < k /\ m \in Messages /\ Len(m) <= MaxFrame
        /\ delivered' = Append(delivered, m) /\ input' \o wire = Frames(Rest)
    BY <1>4, TakesNext
  <2>2. wire' = wire /\ sent' = sent
    BY <1>4 DEF TakeFrame
  <2>3. /\ Len(delivered') = n + 1 /\ delivered'[n + 1] = m
        /\ \A i \in 1..n : delivered'[i] = delivered[i]
    BY <1>1, <2>1
  <2>4. delivered' = SubSeq(sent, 1, n + 1)
    <3>1. 1 \in 1..k /\ n + 1 \in 1..k /\ (n + 1) - 1 = n
      BY <1>1, <2>1, SMTT(30)
    <3>2. SubSeq(sent, 1, n + 1) = SubSeq(sent, 1, n) \o <<m>>
      BY <1>1, <3>1, SubSeqRecursiveSecond
    <3>3. Append(delivered, m) = delivered \o <<m>>
      BY <1>1, <2>1, AppendIsConcat
    <3> QED BY <1>1, <2>1, <3>2, <3>3
  <2>5. \A i \in 1..(n + 1) : Len(delivered'[i]) <= MaxFrame
    <3> TAKE i \in 1..(n + 1)
    <3>1. i \in 1..n \/ i = n + 1
      BY <1>1
    <3> QED BY <1>1, <2>1, <2>3, <3>1
  <2>6. n + 1 <= Len(sent') /\ (n + 1) + 1 = n + 2
    BY <1>1, <2>1, <2>2
  <2> HIDE DEF m
  <2> QED BY <2>1, <2>2, <2>3, <2>4, <2>5, <2>6 DEF FramesInStep, Rest
<1>5. CASE StreamUntouched
  BY <1>5 DEF StreamUntouched, FramesInStep
<1> QED BY <1>2, <1>3, <1>4, <1>5, StreamSteps

\* Every step keeps the types; what TakeFrame delivers is a message that was sent.
LEMMA CodecTypeStep ==
  ASSUME TypeOK, FramesInStep, [Next]_vars
  PROVE  TypeOK'
<1> USE DEF TypeOK
<1>0. Messages \subseteq Payload /\ Pong \in Payload /\ Ping \in Messages
  BY MessagesArePayload
<1>a. \A m \in Payload : Frame(m) \in Seq(Bytes)
  BY FrameBytes
<1>1. ASSUME NEW m \in Messages, PeerSends(m) PROVE TypeOK'
  <2>1. Frame(m) \in Seq(Bytes)
    BY <1>0, <1>a
  <2>2. wire \o Frame(m) \in Seq(Bytes) /\ Append(sent, m) \in Seq(Messages)
    BY <2>1
  <2> QED BY <1>1, <2>2 DEF PeerSends
<1>2. ASSUME NEW n \in 1..Len(wire), Read(n) PROVE TypeOK'
  <2>1. SubSeq(wire, 1, n) \in Seq(Bytes) /\ SubSeq(wire, n + 1, Len(wire)) \in Seq(Bytes)
    OBVIOUS
  <2>2. input \o SubSeq(wire, 1, n) \in Seq(Bytes)
    BY <2>1
  <2> QED BY <1>2, <2>1, <2>2 DEF Read
<1>3. ASSUME HeaderMissing \/ InvalidLength \/ HalfFrame PROVE TypeOK'
  BY <1>3 DEF HeaderMissing, InvalidLength, HalfFrame, Return
<1>4. ASSUME TakeFrame PROVE TypeOK'
  <2> DEFINE m == sent[Len(delivered) + 1]
  <2>1. m \in Messages /\ message' = m /\ delivered' = Append(delivered, m) /\ input' \in Seq(Bytes)
    BY <1>4, TakesNext
  <2> HIDE DEF m
  <2>2. delivered' \in Seq(Messages)
    BY <2>1
  <2> QED BY <1>4, <2>1, <2>2 DEF TakeFrame
<1>5. ASSUME NEW m \in Payload, SendFrame(m) PROVE output' \in Seq(Bytes)
  <2>1. Frame(m) \in Seq(Bytes)
    BY <1>a
  <2> QED BY <1>5, <2>1 DEF SendFrame
<1>6. ASSUME HandleHeartbeat \/ Echo PROVE TypeOK'
  <2>1. output' \in Seq(Bytes)
    <3>1. message \in Payload
      BY <1>0
    <3> QED BY <1>0, <1>5, <1>6, <3>1 DEF HandleHeartbeat, Echo
  <2> QED BY <1>6, <2>1 DEF HandleHeartbeat, Echo, LeaveCallback
<1>7. ASSUME CallbackCloses PROVE TypeOK'
  BY <1>7 DEF CallbackCloses, LeaveCallback
<1>8. CASE UNCHANGED vars
  BY <1>8 DEF vars
<1> QED BY <1>1, <1>2, <1>3, <1>4, <1>6, <1>7, <1>8 DEF Next, Reads, Decode, Callback

\* The loop of OnMessage ends only where the next frame is not complete, and no other
\* step completes it while the loop thread is outside.
LEMMA LeftBehindStep ==
  ASSUME TypeOK, FramesInStep, NoFrameLeftBehind,
         [Next]_vars
  PROVE  NoFrameLeftBehind'
<1> DEFINE n == Len(delivered)
           k == Len(sent)
           m == sent[n + 1]
<1>1. n \in Nat /\ k \in Nat /\ n <= k /\ sent \in Seq(Messages) /\ input \in Seq(Bytes) /\ Len(input) \in Nat
  BY DEF TypeOK, FramesInStep
<1>2. \A x \in Messages : Len(Frame(x)) = 2 + Len(x) /\ Len(x) \in Nat
  BY FrameBytes, MessagesArePayload
<1>3. n < k => m \in Messages
  BY <1>1
<1> SUFFICES ASSUME pc' = "idle", open', Len(delivered') < Len(sent')
             PROVE  Len(input') < Len(Frame(sent'[Len(delivered') + 1]))
  BY DEF NoFrameLeftBehind
<1>4. ASSUME NEW x \in Messages, PeerSends(x)
      PROVE  Len(input') < Len(Frame(sent'[Len(delivered') + 1]))
  <2>1. sent' = Append(sent, x) /\ UNCHANGED <<input, delivered, pc, open>>
    BY <1>4 DEF PeerSends
  <2>2. CASE n < k
    <3>1. Append(sent, x)[n + 1] = m
      BY <1>1, <2>2
    <3>2. Len(input) < Len(Frame(m))
      BY <2>1, <2>2 DEF NoFrameLeftBehind
    <3> QED BY <2>1, <3>1, <3>2
  <2>3. CASE n = k
    <3>1. Append(sent, x)[n + 1] = x
      BY <1>1, <2>3
    <3>2. Len(input) = 0
      BY <2>3, NothingPending
    <3>3. 0 < Len(Frame(x))
      BY <1>2
    <3> QED BY <2>1, <3>1, <3>2, <3>3
  <2> QED BY <1>1, <2>2, <2>3
<1>5. ASSUME HeaderMissing
      PROVE  Len(input') < Len(Frame(sent'[Len(delivered') + 1]))
  <2>1. Len(input) < 2 /\ UNCHANGED <<input, sent, delivered>>
    BY <1>5 DEF HeaderMissing, Return, Header
  <2>2. 2 <= Len(Frame(m)) /\ Len(Frame(m)) \in Nat
    BY <1>2, <1>3, <2>1
  <2> HIDE DEF m
  <2>3. Len(input) < Len(Frame(m))
    BY <1>1, <2>1, <2>2
  <2> QED BY <2>1, <2>3 DEF m
<1>6. ASSUME HalfFrame
      PROVE  Len(input') < Len(Frame(sent'[Len(delivered') + 1]))
  <2>1. /\ Len(input) >= 2 /\ ~BadLength(PeekInt32(input))
        /\ Len(input) < 2 + PeekInt32(input) /\ UNCHANGED <<input, sent, delivered>>
    BY <1>6 DEF HalfFrame, Return, Header
  <2>2. m \in Messages /\ PeekInt32(input) = Len(m)
    BY <2>1, NextFrame
  <2> HIDE DEF m
  <2>3. Len(input) < Len(Frame(m))
    BY <1>2, <2>1, <2>2
  <2> QED BY <2>1, <2>3 DEF m
<1>7. ASSUME Reads \/ TakeFrame \/ InvalidLength \/ Callback PROVE FALSE
  BY <1>7 DEF Reads, Read, TakeFrame, InvalidLength, Callback,
              HandleHeartbeat, Echo, CallbackCloses, LeaveCallback
<1>8. CASE UNCHANGED vars
  BY <1>8 DEF vars, NoFrameLeftBehind
<1> QED BY <1>4, <1>5, <1>6, <1>7, <1>8 DEF Next, Decode

-----------------------------------------------------------------------------
(* The answers.                                                            *)

\* What the callback sends for the first n messages of ms: Answers of any sequence.
AnswersTo(ms, n) == Frames([i \in 1..n |-> Answer(ms[i])])

\* A message more changes nothing about the answers to those before it.
LEMMA AnswersStay ==
  ASSUME NEW ms \in Seq(Messages), NEW m \in Messages, NEW n \in 0..Len(ms)
  PROVE  AnswersTo(Append(ms, m), n) = AnswersTo(ms, n)
<1>1. \A i \in 1..n : Append(ms, m)[i] = ms[i]
  OBVIOUS
<1>2. [i \in 1..n |-> Answer(Append(ms, m)[i])] = [i \in 1..n |-> Answer(ms[i])]
  BY <1>1
<1> QED BY <1>2 DEF AnswersTo

\* The answer to a message follows the answers to those before it.
LEMMA AnswersGrow ==
  ASSUME NEW ms \in Seq(Messages), NEW n \in 1..Len(ms)
  PROVE  AnswersTo(ms, n) = AnswersTo(ms, n - 1) \o Frame(Answer(ms[n]))
<1> DEFINE A(i) == Answer(ms[i])
           s == [i \in 1..(n - 1) |-> A(i)]
           t == [i \in 1..n |-> A(i)]
<1>1. n \in Nat /\ n - 1 \in Nat /\ n \in 1..n
  OBVIOUS
<1>2. \A i \in 1..n : A(i) \in Payload
  BY MessagesArePayload DEF Answer
<1> HIDE DEF A
<1>3. \A i \in 1..(n - 1) : i \in 1..n
  BY <1>1
<1>4. s \in Seq(Payload) /\ Len(s) = n - 1 /\ t \in Seq(Payload) /\ Len(t) = n
  BY <1>1, <1>2, <1>3
<1>5. t = Append(s, A(n))
  <2> DEFINE u == Append(s, A(n))
  <2>1. u \in Seq(Payload) /\ Len(u) = n
    BY <1>1, <1>2, <1>4
  <2>2. \A i \in 1..n : u[i] = t[i]
    <3> TAKE i \in 1..n
    <3>1. CASE i = n
      BY <1>1, <1>4, <3>1
    <3>2. CASE i # n
      <4>1. i \in 1..(n - 1)
        BY <1>1, <3>2
      <4> QED BY <1>4, <4>1
    <3> QED BY <3>1, <3>2
  <2> HIDE DEF u, t
  <2>3. t = u
    BY <1>4, <2>1, <2>2, SeqEqual
  <2> QED BY <2>3 DEF u
<1>6. A(n) \in Payload
  BY <1>1, <1>2
<1> HIDE DEF s, t
<1>7. Frames(t) = Frames(s) \o Frame(A(n))
  BY <1>4, <1>5, <1>6, FramesAppend
<1> QED BY <1>7 DEF AnswersTo, s, t, A

\* The callback works on the message handed over last; a connection that is open has
\* answered every message before that, and a closed one the first few of them.
AnswerInv ==
  /\ pc = "callback" => Len(delivered) > 0 /\ message = delivered[Len(delivered)]
  /\ open => output = AnswersTo(sent, IF pc = "callback" THEN Len(delivered) - 1 ELSE Len(delivered))
  /\ \E n \in 0..Len(delivered) : output = AnswersTo(sent, n)

\* The callback answers the message it was given, once.
LEMMA CallbackAnswers ==
  ASSUME TypeOK, FramesInStep, AnswerInv,
         HandleHeartbeat \/ Echo
  PROVE  AnswerInv'
<1> DEFINE d == Len(delivered)
<1>1. /\ d \in Nat /\ d > 0 /\ d <= Len(sent) /\ Len(sent) \in Nat /\ sent \in Seq(Messages)
      /\ delivered = SubSeq(sent, 1, d) /\ message = delivered[d] /\ pc = "callback"
  BY SMTT(30) DEF TypeOK, FramesInStep, AnswerInv, HandleHeartbeat, Echo
<1>2. message = sent[d]
  <2>1. d \in 1..d /\ \A i \in 1..d : sent[i] \in Messages
    BY <1>1
  <2> HIDE DEF d
  <2>2. SubSeq(sent, 1, d)[d] = sent[d]
    BY <1>1, <2>1
  <2> QED BY <1>1, <2>2
<1>3. /\ output' = IF open THEN output \o Frame(Answer(message)) ELSE output
      /\ open' = open /\ pc' = "decode" /\ sent' = sent /\ delivered' = delivered
  BY DEF HandleHeartbeat, Echo, SendFrame, Answer, LeaveCallback
<1>4. CASE open
  <2>1. output = AnswersTo(sent, d - 1)
    BY <1>1, <1>4 DEF AnswerInv
  <2>2. d \in 1..Len(sent) /\ d \in 0..d
    BY <1>1
  <2>3. AnswersTo(sent, d) = AnswersTo(sent, d - 1) \o Frame(Answer(sent[d]))
    BY <1>1, <2>2, AnswersGrow
  <2>4. output' = AnswersTo(sent, d)
    BY <1>2, <1>3, <1>4, <2>1, <2>3
  <2> QED BY <1>3, <2>2, <2>4 DEF AnswerInv
<1>5. CASE ~open
  BY <1>3, <1>5 DEF AnswerInv
<1> QED BY <1>4, <1>5

\* Every step keeps the answers in order.
LEMMA AnswerStep ==
  ASSUME TypeOK, FramesInStep, AnswerInv, [Next]_vars
  PROVE  AnswerInv'
<1> DEFINE d == Len(delivered)
<1>1. /\ d \in Nat /\ d <= Len(sent) /\ Len(sent) \in Nat /\ sent \in Seq(Messages)
      /\ delivered \in Seq(Messages)
  BY DEF TypeOK, FramesInStep
<1>2. ASSUME NEW m \in Messages, PeerSends(m) PROVE AnswerInv'
  <2>1. sent' = Append(sent, m) /\ UNCHANGED <<output, open, pc, message, delivered>>
    BY <1>2 DEF PeerSends
  <2>2. \A n \in 0..d : n \in 0..Len(sent)
    BY <1>1
  <2>3. \A n \in 0..d : AnswersTo(sent', n) = AnswersTo(sent, n)
    BY <1>1, <2>1, <2>2, AnswersStay
  <2>4. d \in 0..d /\ (pc = "callback" => d - 1 \in 0..d)
    BY <1>1 DEF AnswerInv
  <2> HIDE DEF d
  <2> QED BY <2>1, <2>3, <2>4 DEF AnswerInv, d
<1>3. ASSUME Reads \/ HeaderMissing \/ InvalidLength \/ HalfFrame PROVE AnswerInv'
  <2>1. /\ pc # "callback" /\ pc' # "callback" /\ (open' => open)
        /\ UNCHANGED <<output, sent, delivered>>
    BY <1>3 DEF Reads, Read, HeaderMissing, InvalidLength, HalfFrame, Return
  <2> QED BY <2>1 DEF AnswerInv
<1>4. ASSUME TakeFrame PROVE AnswerInv'
  <2> DEFINE m == sent[d + 1]
  <2>1. m \in Messages /\ message' = m /\ delivered' = Append(delivered, m)
    BY <1>4, TakesNext
  <2>2. pc = "decode" /\ pc' = "callback" /\ UNCHANGED <<output, open, sent>>
    BY <1>4 DEF TakeFrame
  <2> HIDE DEF m
  <2>3. Len(delivered') = d + 1 /\ delivered'[d + 1] = m /\ (d + 1) - 1 = d /\ d + 1 > 0
    BY <1>1, <2>1
  <2>4. \A n \in 0..d : n \in 0..(d + 1)
    BY <1>1
  <2>5. open => output = AnswersTo(sent, d)
    BY <2>2 DEF AnswerInv
  <2>6. \E n \in 0..d : output = AnswersTo(sent, n)
    BY DEF AnswerInv
  <2> HIDE DEF d
  <2> QED BY <2>1, <2>2, <2>3, <2>4, <2>5, <2>6 DEF AnswerInv
<1>5. ASSUME CallbackCloses PROVE AnswerInv'
  <2>1. ~open' /\ pc' = "decode" /\ UNCHANGED <<output, sent, delivered>>
    BY <1>5 DEF CallbackCloses, LeaveCallback
  <2> QED BY <2>1 DEF AnswerInv
<1>6. ASSUME HandleHeartbeat \/ Echo PROVE AnswerInv'
  BY <1>6, CallbackAnswers
<1>7. CASE UNCHANGED vars
  BY <1>7 DEF vars, AnswerInv
<1> QED BY <1>2, <1>3, <1>4, <1>5, <1>6, <1>7 DEF Next, Decode, Callback

-----------------------------------------------------------------------------
(* What holds of every behaviour of the codec.                             *)

\* The inductive invariant.
CodecInv ==
  /\ TypeOK
  /\ FramesInStep
  /\ NoFrameLeftBehind
  /\ AnswerInv

\* At the start nothing was sent, read or answered.
LEMMA CodecInvInit ==
  ASSUME Init
  PROVE  CodecInv
<1>1. TypeOK
  BY CodecAssumption DEF Init, TypeOK
<1>2. /\ sent = <<>> /\ delivered = <<>> /\ input = <<>> /\ wire = <<>> /\ output = <<>>
      /\ Len(sent) = 0 /\ Len(delivered) = 0 /\ pc = "idle"
  BY DEF Init
<1>3. FramesInStep
  <2>1. SubSeq(sent, 1, Len(delivered)) = <<>> /\ SubSeq(sent, Len(delivered) + 1, Len(sent)) = <<>>
    BY <1>2
  <2>2. input \o wire = <<>>
    BY <1>2
  <2>3. input \o wire = Frames(SubSeq(sent, Len(delivered) + 1, Len(sent)))
    BY <2>1, <2>2, FramesEmpty
  <2>4. Len(delivered) <= Len(sent) /\ delivered = SubSeq(sent, 1, Len(delivered))
    BY <1>2, <2>1
  <2>5. \A i \in 1..Len(delivered) : Len(delivered[i]) <= MaxFrame
    BY <1>2
  <2> QED BY <2>3, <2>4, <2>5 DEF FramesInStep
<1>4. NoFrameLeftBehind
  BY <1>2 DEF NoFrameLeftBehind
<1>5. AnswerInv
  <2>1. [i \in 1..0 |-> Answer(sent[i])] = <<>>
    OBVIOUS
  <2>2. AnswersTo(sent, 0) = <<>>
    BY <2>1, FramesEmpty DEF AnswersTo
  <2> QED BY <1>2, <2>2 DEF AnswerInv
<1> QED BY <1>1, <1>3, <1>4, <1>5 DEF CodecInv

\* Every step keeps the invariant.
LEMMA CodecInvStep ==
  ASSUME CodecInv, [Next]_vars
  PROVE  CodecInv'
BY CodecTypeStep, FramesStep, LeftBehindStep, AnswerStep DEF CodecInv

\* The invariant holds of every stream, cut anywhere, with any payloads and any limit.
THEOREM CodecInvHolds ==
  Spec => []CodecInv
<1>1. Init => CodecInv
  BY CodecInvInit
<1>2. CodecInv /\ [Next]_vars => CodecInv'
  BY CodecInvStep
<1> QED BY <1>1, <1>2, PTL DEF Spec

\* What OnMessage hands over is one of the messages that were sent, and the buffer, the wire
\* and what the server sends are bytes (src/src/length_field_codec.cpp).
THEOREM CodecTypeCorrect ==
  Spec => []TypeOK
<1>1. CodecInv => TypeOK
  BY DEF CodecInv
<1> QED BY <1>1, CodecInvHolds, PTL

\* Wherever TCP cuts the stream, OnMessage hands over the messages that were sent, in their
\* order, whole and once, and none beyond the limit; buffer and wire hold the frames of the
\* others and nothing else (OnMessage and Send in src/src/length_field_codec.cpp).
THEOREM FramesKeptInStep ==
  Spec => []FramesInStep
<1>1. CodecInv => FramesInStep
  BY DEF CodecInv
<1> QED BY <1>1, CodecInvHolds, PTL

\* OnMessage never returns with a complete frame in the buffer of an open connection, which
\* no event would take out of it (the loop of OnMessage in src/src/length_field_codec.cpp).
THEOREM NoFrameStays ==
  Spec => []NoFrameLeftBehind
<1>1. CodecInv => NoFrameLeftBehind
  BY DEF CodecInv
<1> QED BY <1>1, CodecInvHolds, PTL

\* The peer gets the answers in the order of its messages, PONG for PING and the echo of
\* anything else, none twice, and all of them while the connection is open and the server
\* idle (the message callback in src/main.cpp with HandleHeartbeat and Send).
THEOREM AnswersKeepOrder ==
  Spec => []AnswersInOrder
<1>1. CodecInv => AnswersInOrder
  BY DEF CodecInv, AnswerInv, AnswersInOrder, Answers, AnswersTo
<1> QED BY <1>1, CodecInvHolds, PTL
=============================================================================
