----------------------------- MODULE ByteQueue -----------------------------
(***************************************************************************)
(* What TcFrame::Buffer promises: a queue of bytes that grows at its end,  *)
(* gives bytes back at its front, and takes bytes at its front again.      *)
(* "last" is the latest call with its argument and what it returned, so    *)
(* that an implementation cannot put in other bytes than it was given.     *)
(***************************************************************************)
EXTENDS Integers, Sequences

CONSTANT Data \* the byte strings that callers and sockets hand over

VARIABLES q, last

Call(op, data) == [op |-> op, data |-> data]

Init == q = <<>> /\ last = Call("new", <<>>)

PutBack(data)  == q' = q \o data /\ last' = Call("put", data)
PutFront(data) == q' = data \o q /\ last' = Call("prepend", data)

TakeFront(n) ==
  /\ q' = SubSeq(q, n + 1, Len(q))
  /\ last' = Call("take", SubSeq(q, 1, n))

\* A call that only makes room.
Keep == q' = q /\ last' = Call("room", <<>>)

Next ==
  \/ \E data \in Data : PutBack(data) \/ PutFront(data)
  \/ \E n \in 0..Len(q) : TakeFront(n)
  \/ Keep

Spec == Init /\ [][Next]_<<q, last>>
=============================================================================
