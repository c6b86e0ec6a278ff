------------------------------ MODULE MCCodec ------------------------------
(***************************************************************************)
(* Model-checking module of Codec, with frames of at most four bytes.      *)
(***************************************************************************)
EXTENDS Codec

Data(bytes) == [type |-> "Data", data |-> bytes]

\* Payloads of no frame's, one frame's and two frames' length and of one byte
\* more, one of them with a header in it.
MCPackets ==
    {Data(<<>>), Data(<<1, 2, 3, 4>>), Data(<<1, 2, 3, 4, 78>>),
     Data(MAGIC_NUMBER \o <<VERSION, 0, 0, END_FLAG, 7>>),
     [type |-> "Ping", value |-> 70000], [type |-> "KeepAlive"]}

Framed(flag, ty, payload) == [flag |-> flag, ty |-> ty, payload |-> payload]

Item(frames, rest) == [frames |-> frames, rest |-> rest]

\* A wrong version after the beginning of a packet, an unknown flag, an unknown
\* tag, a Pong of three bytes, and two frames of different types for one packet.
MCForeign ==
    {Item(<<Framed(MORE_FLAG, 7, <<5>>)>>,
          [EncodeFrame(Framed(END_FLAG, 7, <<5>>)) EXCEPT ![4] = 2]),
     Item(<<>>, EncodeFrame(Framed(2, 7, <<5>>))),
     Item(<<Framed(END_FLAG, 9, <<>>)>>, <<>>),
     Item(<<Framed(END_FLAG, 6, <<1, 2, 3>>)>>, <<>>),
     Item(<<Framed(MORE_FLAG, 7, <<5>>), Framed(END_FLAG, 6, <<>>)>>, <<>>)}
=============================================================================
