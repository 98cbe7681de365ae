-------------------------- MODULE LengthFieldCodec --------------------------
(***************************************************************************)
(* TcFrame::LengthFieldCodec (src/src/length_field_codec.cpp) on both ends *)
(* of a TCP stream, with the callback of the echo server (src/main.cpp).   *)
(*                                                                         *)
(* A byte is a number below Base, the header has two of them where the     *)
(* code has four, and an int32_t is a number modulo Word whose upper half  *)
(* is negative.  The stream is cut at any place: each read takes any       *)
(* number of the bytes on their way.  The input buffer is the queue of     *)
(* bytes that Buffer implements.                                           *)
(***************************************************************************)
EXTENDS Integers, SequencesExt

CONSTANTS
  Base,     \* values of a byte
  MaxFrame, \* m_max_frame_len
  Messages, \* payloads the peer sends
  Ping, Pong, \* the payloads "PING" and "PONG"
  MaxSent   \* bound: messages sent in a behaviour

Header == 2
Word   == Base * Base

\* static_cast<uint32_t>(message.size()) wraps at Word; no message is that long.
ASSUME CodecAssumption ==
  /\ Base \in Nat \ {0, 1} /\ MaxFrame \in 0..(Word \div 2 - 1) /\ MaxSent \in Nat
  /\ Messages \subseteq Seq(0..(Base - 1)) /\ Ping \in Messages /\ Pong \in Seq(0..(Base - 1))
  /\ \A m \in Messages \cup {Pong} : Len(m) < Word

VARIABLES
  wire,   \* bytes the peer has written and the server has not read
  input,  \* m_input_buffer of the connection
  output, \* bytes the server has sent to the peer
  open,   \* the connection is Connected
  pc,     \* the loop thread: outside OnMessage, in its loop, in the callback
  message, \* the message of the callback
  \* History, read by the properties only.
  sent,     \* messages the peer's codec has sent
  delivered \* messages the server's codec has handed to the callback

vars == <<wire, input, output, open, pc, message, sent, delivered>>

Bytes == 0..(Base - 1)

TypeOK ==
  /\ wire \in Seq(Bytes) /\ input \in Seq(Bytes) /\ output \in Seq(Bytes)
  /\ open \in BOOLEAN
  /\ pc \in {"idle", "decode", "callback"}
  /\ message \in Messages
  /\ sent \in Seq(Messages) /\ delivered \in Seq(Messages)

Init ==
  /\ wire = <<>> /\ input = <<>> /\ output = <<>>
  /\ open = TRUE
  /\ pc = "idle" /\ message = Ping
  /\ sent = <<>> /\ delivered = <<>>

-----------------------------------------------------------------------------
(* Framing.                                                                *)

\* HostToNetLong: the length, most significant byte first.
NetLong(n) == <<(n % Word) \div Base, n % Base>>

Frame(m) == NetLong(Len(m)) \o m

\* Buffer::PeekInt32.
PeekInt32(b) ==
  LET n == b[1] * Base + b[2] IN IF n >= Word \div 2 THEN n - Word ELSE n

\* LengthFieldCodec::Send on the peer, as long as it takes itself for connected.
PeerSends(m) ==
  /\ Len(sent) < MaxSent /\ open
  /\ sent' = Append(sent, m)
  /\ wire' = wire \o Frame(m)
  /\ UNCHANGED <<input, output, open, pc, message, delivered>>

-----------------------------------------------------------------------------
(* OnMessage.                                                              *)

\* HandleRead takes what has arrived, and calls OnMessage.
Read(n) ==
  /\ pc = "idle" /\ open
  /\ input' = input \o SubSeq(wire, 1, n)
  /\ wire' = SubSeq(wire, n + 1, Len(wire))
  /\ pc' = "decode"
  /\ UNCHANGED <<output, open, message, sent, delivered>>

BadLength(n) == n < 0 \/ n > MaxFrame

Return ==
  /\ pc' = "idle"
  /\ UNCHANGED <<wire, input, output, open, message, sent, delivered>>

\* Less than a header.
HeaderMissing ==
  /\ pc = "decode" /\ Len(input) < Header
  /\ Return

\* Mutant: the bad frame is left where it is and the connection open.
InvalidIgnored ==
  /\ pc = "decode" /\ Len(input) >= Header
  /\ BadLength(PeekInt32(input))
  /\ Return

\* conn->ForceClose() closes the connection at once on the loop thread.
InvalidLength ==
  /\ pc = "decode" /\ Len(input) >= Header
  /\ BadLength(PeekInt32(input))
  /\ open' = FALSE
  /\ pc' = "idle"
  /\ UNCHANGED <<wire, input, output, message, sent, delivered>>

HalfFrame ==
  /\ pc = "decode" /\ Len(input) >= Header
  /\ ~BadLength(PeekInt32(input)) /\ Len(input) < Header + PeekInt32(input)
  /\ Return

\* Mutant: one byte too few is taken out of the buffer.
TakeFrameShort ==
  /\ pc = "decode" /\ Len(input) >= Header
  /\ ~BadLength(PeekInt32(input)) /\ Len(input) >= Header + PeekInt32(input)
  /\ LET n == PeekInt32(input) IN
       /\ message' = SubSeq(input, Header + 1, Header + n)
       /\ input' = SubSeq(input, Header + (IF n > 0 THEN n ELSE 1), Len(input))
  /\ delivered' = Append(delivered, message')
  /\ pc' = "callback"
  /\ UNCHANGED <<wire, output, open, sent>>

\* A complete frame leaves the buffer and goes to the callback.
TakeFrame ==
  /\ pc = "decode" /\ Len(input) >= Header
  /\ ~BadLength(PeekInt32(input)) /\ Len(input) >= Header + PeekInt32(input)
  /\ LET n == PeekInt32(input) IN
       /\ message' = SubSeq(input, Header + 1, Header + n)
       /\ input' = SubSeq(input, Header + n + 1, Len(input))
  /\ delivered' = Append(delivered, message')
  /\ pc' = "callback"
  /\ UNCHANGED <<wire, output, open, sent>>

Decode == HeaderMissing \/ InvalidLength \/ HalfFrame \/ TakeFrame

-----------------------------------------------------------------------------
(* The message callback.                                                   *)

\* conn->Send of a frame; a connection that is not Connected ignores it.
SendFrame(m) == output' = IF open THEN output \o Frame(m) ELSE output

\* Mutant: after a callback OnMessage returns instead of looking again.
LeaveCallbackOnce ==
  /\ pc' = "idle"
  /\ UNCHANGED <<wire, input, message, sent, delivered>>

LeaveCallback ==
  /\ pc' = "decode"
  /\ UNCHANGED <<wire, input, message, sent, delivered>>

\* Mutant: a heartbeat is echoed like any message.
HandleHeartbeatEchoes ==
  /\ pc = "callback" /\ message = Ping
  /\ SendFrame(Ping)
  /\ UNCHANGED open
  /\ LeaveCallback

HandleHeartbeat ==
  /\ pc = "callback" /\ message = Ping
  /\ SendFrame(Pong)
  /\ UNCHANGED open
  /\ LeaveCallback

\* The echo server sends the message back.
Echo ==
  /\ pc = "callback" /\ message # Ping
  /\ SendFrame(message)
  /\ UNCHANGED open
  /\ LeaveCallback

\* An application that closes the connection in its callback.
CallbackCloses ==
  /\ pc = "callback" /\ open
  /\ open' = FALSE
  /\ UNCHANGED output
  /\ LeaveCallback

Callback == HandleHeartbeat \/ Echo \/ CallbackCloses

-----------------------------------------------------------------------------
Reads == \E n \in 1..Len(wire) : Read(n)

Next == (\E m \in Messages : PeerSends(m)) \/ Reads \/ Decode \/ Callback

Spec == Init /\ [][Next]_vars

\* The loop thread runs, and what is on the wire arrives.
FairSpec == Spec /\ WF_vars(Reads) /\ WF_vars(Decode) /\ WF_vars(Callback)

-----------------------------------------------------------------------------
Frames(ms) == FlattenSeq([i \in 1..Len(ms) |-> Frame(ms[i])])

\* However the stream is cut: the messages handed over are the first ones sent,
\* each whole, and the bytes in the buffer and on the wire are exactly the frames
\* of the others.  No message beyond the limit is handed over.
FramesInStep ==
  LET n == Len(delivered) IN
  /\ n <= Len(sent) /\ delivered = SubSeq(sent, 1, n)
  /\ input \o wire = Frames(SubSeq(sent, n + 1, Len(sent)))
  /\ \A i \in 1..n : Len(delivered[i]) <= MaxFrame

\* OnMessage does not return to the loop with a complete frame in the buffer of
\* an open connection: no further event would come for it.
NoFrameLeftBehind ==
  pc = "idle" /\ open /\ Len(delivered) < Len(sent) =>
    Len(input) < Len(Frame(sent[Len(delivered) + 1]))

\* What the callback sends for a message, and for the first n of them.
Answer(m) == IF m = Ping THEN Pong ELSE m
Answers(n) == Frames([i \in 1..n |-> Answer(sent[i])])

\* The peer gets the answers in the order of its messages, a PONG for each PING
\* and the echo of anything else, and none is missing while the connection is
\* open and the server idle.
AnswersInOrder ==
  /\ \E n \in 0..Len(delivered) : output = Answers(n)
  /\ open /\ pc = "idle" => output = Answers(Len(delivered))

\* A message that is sent is handed over, or the connection is closed.
MessageArrives ==
  \A n \in 1..MaxSent : (Len(sent) >= n) ~> (Len(delivered) >= n \/ ~open)

\* Nothing is handed over on a closed connection.  It is: see README.
NothingAfterClose == [][~open => delivered' = delivered]_vars
=============================================================================
