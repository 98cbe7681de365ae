------------------------- MODULE MCLengthFieldCodec -------------------------
(* Instance of LengthFieldCodec for TLC: an empty message, the heartbeat,  *)
(* a payload that looks like a header, one above the limit, and one whose  *)
(* length is negative as an int32_t.                                       *)
EXTENDS LengthFieldCodec

MCPing == <<1>>
MCPong == <<2>>
MCMessages == {<<>>, MCPing, <<0, 1>>, <<3, 3, 3>>, <<0, 0, 0, 0, 0, 0, 0, 0>>}
=============================================================================
