------------------------------- MODULE Codec -------------------------------
(***************************************************************************)
(* Packets on a byte stream: packet.rs, codec.rs and frame.rs of           *)
(* crates/libncd, and send_packet and recv_packet of struct IoState in     *)
(* crates/libncd-runtime/src/connection.rs, one direction of a connection. *)
(* TCP delivers the bytes in pieces of any length.                         *)
(*                                                                         *)
(* The only await of recv_packet is its read, so a select! that cancels it *)
(* leaves it where a call begins, at "pop".                                *)
(***************************************************************************)
EXTENDS Naturals, Sequences, SequencesExt

CONSTANTS
    MAX_PAYLOAD_SIZE,   \* largest payload of a frame
    Packets,            \* packets the peer's program sends
    Foreign,            \* what no peer of this version sends, each one as
                        \* [frames, rest]: frames, and the bytes after them
    MaxPackets          \* bound: packets sent

Byte == 0..255

VARIABLES
    sent,           \* packets sent
    stream,         \* bytes on their way
    ended,          \* the peer is gone
    deviated,       \* packets sent before the peer sent something Foreign
    rpc,            \* recv_packet: "pop", "frames", "packets", or it has
                    \* returned an "error" or "none"
    byte_buffer, frame_buffer, packet_buffer,
    received        \* packets recv_packet has returned

rxVars == <<rpc, byte_buffer, frame_buffer, packet_buffer, received>>
txVars == <<sent, ended, deviated>>
vars   == <<txVars, stream, rxVars>>

None == MaxPackets + 1   \* no deviation yet

-----------------------------------------------------------------------------
(***************************************************************************)
(* packet.rs.  A control packet is [type, value], where some have no value;*)
(* a Data packet is [type, data].                                          *)
(***************************************************************************)
Tags == <<"Hello", "HelloAck", "Close", "KeepAlive", "Ping", "Pong", "Data">>

Tag(type) == CHOOSE i \in DOMAIN Tags : Tags[i] = type

fixed_length == [type \in ToSet(Tags) \ {"Data"} |->
                    IF type \in {"Close", "KeepAlive"} THEN 0 ELSE 4]

\* What std makes of a number and back, for the widths in use.
U32 == {value \in Nat : value \div 65536 < 65536}

u16_to_be_bytes(value) == <<value \div 256, value % 256>>

u32_to_be_bytes(value) == <<value \div 16777216, (value \div 65536) % 256,
                            (value \div 256) % 256, value % 256>>

u16_from_be_bytes(bytes) == 256 * bytes[1] + bytes[2]

u32_from_be_bytes(bytes) ==
    16777216 * bytes[1] + 65536 * bytes[2] + 256 * bytes[3] + bytes[4]

Packet == [type : {"Data"}, data : Seq(Byte)]
              \cup [type : {"Close", "KeepAlive"}]
              \cup [type : {"Hello", "HelloAck", "Ping", "Pong"}, value : U32]

Encode(packet) ==
    CASE packet.type = "Data" -> packet.data
      [] packet.type \in {"Close", "KeepAlive"} -> <<>>
      [] OTHER -> u32_to_be_bytes(packet.value)

Decodes(tag, bytes) ==
    /\ tag \in DOMAIN Tags
    /\ Tags[tag] \in DOMAIN fixed_length => Len(bytes) = fixed_length[Tags[tag]]

Decode(tag, bytes) ==
    CASE Tags[tag] = "Data" -> [type |-> "Data", data |-> bytes]
      [] Tags[tag] \in {"Close", "KeepAlive"} -> [type |-> Tags[tag]]
      [] OTHER -> [type |-> Tags[tag], value |-> u32_from_be_bytes(bytes)]

-----------------------------------------------------------------------------
(***************************************************************************)
(* frame.rs and codec.rs.                                                  *)
(***************************************************************************)
MAGIC_NUMBER == <<78, 67, 68>>
VERSION      == 1
HEADER_SIZE  == 8
END_FLAG     == 0
MORE_FLAG    == 1

Least(a, b) == IF a < b THEN a ELSE b

\* A packet that fits one frame is one, were it empty.
fragment_packet(packet) ==
    LET bytes == Encode(packet)
        frame_num == IF Len(bytes) <= MAX_PAYLOAD_SIZE
                     THEN 1
                     ELSE (Len(bytes) + MAX_PAYLOAD_SIZE - 1) \div MAX_PAYLOAD_SIZE
    IN  [i \in 1..frame_num |->
            [flag    |-> IF i = frame_num THEN END_FLAG ELSE MORE_FLAG,
             ty      |-> Tag(packet.type),
             payload |-> SubSeq(bytes, (i - 1) * MAX_PAYLOAD_SIZE + 1,
                                Least(i * MAX_PAYLOAD_SIZE, Len(bytes)))]]

EncodeFrame(frame) ==
    MAGIC_NUMBER \o <<VERSION>> \o u16_to_be_bytes(Len(frame.payload) % 65536)
        \o <<frame.flag, frame.ty>> \o frame.payload

EncodeFrames(frames) ==
    FlattenSeq([i \in DOMAIN frames |-> EncodeFrame(frames[i])])

Frame == {frame \in [flag : {END_FLAG, MORE_FLAG}, ty : Byte, payload : Seq(Byte)] :
              Len(frame.payload) < 65536}

\* peek_head: there is a header, and whether it is one of this protocol.
HasHead == Len(byte_buffer) >= HEADER_SIZE

\* Mutant: any flag will do.
ValidHeadAnyFlag ==
    /\ SubSeq(byte_buffer, 1, 3) = MAGIC_NUMBER
    /\ byte_buffer[4] = VERSION

\* Mutant: any version will do.
ValidHeadAnyVersion ==
    /\ SubSeq(byte_buffer, 1, 3) = MAGIC_NUMBER
    /\ byte_buffer[7] \in {END_FLAG, MORE_FLAG}

ValidHead ==
    /\ SubSeq(byte_buffer, 1, 3) = MAGIC_NUMBER
    /\ byte_buffer[4] = VERSION
    /\ byte_buffer[7] \in {END_FLAG, MORE_FLAG}

FrameLen == HEADER_SIZE + u16_from_be_bytes(SubSeq(byte_buffer, 5, 6))

\* Mutant: a frame is taken for whole only when more follows.
HasFrameTooLate == HasHead /\ Len(byte_buffer) > FrameLen

HasFrame == HasHead /\ Len(byte_buffer) >= FrameLen

FirstFrame == [flag    |-> byte_buffer[7],
               ty      |-> byte_buffer[8],
               payload |-> SubSeq(byte_buffer, HEADER_SIZE + 1, FrameLen)]

\* try_assemble_packet: the frames up to the first End.
Ends == {i \in DOMAIN frame_buffer : frame_buffer[i].flag = END_FLAG}

PacketFrames == SubSeq(frame_buffer, 1, CHOOSE i \in Ends : \A j \in Ends : i <= j)

Payload(frames) == FlattenSeq([i \in DOMAIN frames |-> frames[i].payload])

Assembles(frames) ==
    /\ \A i \in DOMAIN frames : frames[i].ty = frames[1].ty
    /\ Decodes(frames[1].ty, Payload(frames))

(***************************************************************************)
(* What is foreign: frames that end like a packet and make none, or the    *)
(* beginning of a packet followed by what is no header of this version.    *)
(***************************************************************************)
WrongHead(bytes) ==
    /\ Len(bytes) >= HEADER_SIZE
    /\ \/ SubSeq(bytes, 1, 3) # MAGIC_NUMBER
       \/ bytes[4] # VERSION
       \/ bytes[7] \notin {END_FLAG, MORE_FLAG}

NoPacketOf(frames) ==
    /\ frames # <<>>
    /\ frames[Len(frames)].flag = END_FLAG
    /\ ~Assembles(frames)

IsForeign(item) ==
    /\ item.frames \in Seq(Frame)
    /\ \A i \in 1..(Len(item.frames) - 1) : item.frames[i].flag = MORE_FLAG
    /\ item.rest \in Seq(Byte)
    /\ \/ NoPacketOf(item.frames)
       \/ /\ \A i \in DOMAIN item.frames : item.frames[i].flag = MORE_FLAG
          /\ WrongHead(item.rest)

ASSUME CodecAssumption ==
    /\ MAX_PAYLOAD_SIZE \in 1..65535
    /\ Packets \subseteq Packet
    /\ \A item \in Foreign : IsForeign(item)
    /\ MaxPackets \in Nat

-----------------------------------------------------------------------------
TypeOK ==
    /\ sent \in Seq(Packets) /\ Len(sent) <= MaxPackets
    /\ stream \in Seq(Byte)
    /\ ended \in BOOLEAN
    /\ deviated \in 0..None
    /\ rpc \in {"pop", "frames", "packets", "error", "none"}
    /\ byte_buffer \in Seq(Byte)
    /\ frame_buffer \in Seq(Frame)
    /\ packet_buffer \in Seq(Packets)
    /\ received \in Seq(Packets)

Init ==
    /\ sent = <<>>
    /\ stream = <<>>
    /\ ended = FALSE
    /\ deviated = None
    /\ rpc = "pop"
    /\ byte_buffer = <<>>
    /\ frame_buffer = <<>>
    /\ packet_buffer = <<>>
    /\ received = <<>>

(***************************************************************************)
(* The peer.                                                               *)
(***************************************************************************)
send_packet(packet) ==
    /\ ~ended
    /\ Len(sent) < MaxPackets
    /\ stream' = stream \o EncodeFrames(fragment_packet(packet))
    /\ sent' = Append(sent, packet)
    /\ UNCHANGED <<ended, deviated, rxVars>>

\* A peer of another version.
Deviate ==
    /\ ~ended
    /\ deviated = None
    /\ \E item \in Foreign :
          stream' = stream \o EncodeFrames(item.frames) \o item.rest
    /\ deviated' = Len(sent)
    /\ UNCHANGED <<sent, ended, rxVars>>

PeerEnds ==
    /\ ~ended
    /\ ended' = TRUE
    /\ UNCHANGED <<sent, deviated, stream, rxVars>>

(***************************************************************************)
(* recv_packet.                                                            *)
(***************************************************************************)
Pop ==
    /\ rpc = "pop"
    /\ packet_buffer # <<>>
    /\ received' = Append(received, Head(packet_buffer))
    /\ packet_buffer' = Tail(packet_buffer)
    /\ UNCHANGED <<txVars, stream, rpc, byte_buffer, frame_buffer>>

Waits == rpc = "pop" /\ packet_buffer = <<>>

Read ==
    /\ Waits
    /\ \E n \in 1..Len(stream) :
          /\ byte_buffer' = byte_buffer \o SubSeq(stream, 1, n)
          /\ stream' = SubSeq(stream, n + 1, Len(stream))
    /\ rpc' = "frames"
    /\ UNCHANGED <<txVars, frame_buffer, packet_buffer, received>>

\* The end of the stream.  What had not been sent or read by then is lost.
ReadEof ==
    /\ Waits
    /\ ended
    /\ rpc' = "none"
    /\ UNCHANGED <<txVars, stream, byte_buffer, frame_buffer, packet_buffer,
                   received>>

\* The loop from bytes to frames.

\* Mutant: only the header is skipped.
TakeFrameKeepsPayload ==
    /\ rpc = "frames"
    /\ HasFrame /\ ValidHead
    /\ frame_buffer' = Append(frame_buffer, FirstFrame)
    /\ byte_buffer' = SubSeq(byte_buffer, HEADER_SIZE + 1, Len(byte_buffer))
    /\ UNCHANGED <<txVars, stream, rpc, packet_buffer, received>>

TakeFrame ==
    /\ rpc = "frames"
    /\ HasFrame /\ ValidHead
    /\ frame_buffer' = Append(frame_buffer, FirstFrame)
    /\ byte_buffer' = SubSeq(byte_buffer, FrameLen + 1, Len(byte_buffer))
    /\ UNCHANGED <<txVars, stream, rpc, packet_buffer, received>>

NoFrame ==
    /\ rpc = "frames"
    /\ HasHead => ValidHead
    /\ ~HasFrame
    /\ rpc' = "packets"
    /\ UNCHANGED <<txVars, stream, byte_buffer, frame_buffer, packet_buffer,
                   received>>

\* The loop from frames to packets.

\* Mutant: all frames are drained.
TakePacketDrainsAll ==
    /\ rpc = "packets"
    /\ Ends # {} /\ Assembles(PacketFrames)
    /\ packet_buffer' = Append(packet_buffer, Decode(PacketFrames[1].ty,
                                                     Payload(PacketFrames)))
    /\ frame_buffer' = <<>>
    /\ UNCHANGED <<txVars, stream, rpc, byte_buffer, received>>

TakePacket ==
    /\ rpc = "packets"
    /\ Ends # {} /\ Assembles(PacketFrames)
    /\ packet_buffer' = Append(packet_buffer, Decode(PacketFrames[1].ty,
                                                     Payload(PacketFrames)))
    /\ frame_buffer' = SubSeq(frame_buffer, Len(PacketFrames) + 1,
                              Len(frame_buffer))
    /\ UNCHANGED <<txVars, stream, rpc, byte_buffer, received>>

NoPacket ==
    /\ rpc = "packets"
    /\ Ends = {}
    /\ rpc' = "pop"
    /\ UNCHANGED <<txVars, stream, byte_buffer, frame_buffer, packet_buffer,
                   received>>

\* Either loop fails.  What was decoded before is not returned any more.
ProtocolError ==
    /\ \/ rpc = "frames" /\ HasHead /\ ~ValidHead
       \/ rpc = "packets" /\ Ends # {} /\ ~Assembles(PacketFrames)
    /\ rpc' = "error"
    /\ UNCHANGED <<txVars, stream, byte_buffer, frame_buffer, packet_buffer,
                   received>>

recv_packet == Pop \/ Read \/ ReadEof \/ TakeFrame \/ NoFrame \/ TakePacket
                  \/ NoPacket \/ ProtocolError

Next == \/ recv_packet
        \/ \E packet \in Packets : send_packet(packet)
        \/ Deviate \/ PeerEnds

\* The receiving task keeps calling recv_packet.  The peer may stop.
Spec == Init /\ [][Next]_vars /\ WF_vars(recv_packet)

-----------------------------------------------------------------------------
(***************************************************************************)
(* Properties.                                                             *)
(***************************************************************************)

\* A peer that keeps to the protocol is never accused of breaking it, however
\* TCP cuts the stream and whatever the payloads look like (peek_head, decode,
\* try_assemble_packet).
NoFalseAlarm == rpc = "error" => deviated # None

\* A whole packet never stays in the buffers of recv_packet: all that a living
\* peer has sent is returned, without any further byte.
AllReceived ==
    \A n \in 1..MaxPackets :
        Len(sent) >= n ~> Len(received) >= n \/ deviated # None \/ ended

\* Something that is no frame or no packet of this version is noticed, unless
\* the connection ends before.
DeviationNoticed == deviated # None ~> rpc = "error" \/ ended

\* Fragmenting, encoding, decoding and reassembling make a pipe of packets, the
\* one that module Tcp takes for granted: nothing sent after a deviation comes
\* out, and nothing but what was sent.
Pipe == INSTANCE PacketPipe
            WITH input <- SubSeq(sent, 1, Least(deviated, Len(sent))),
                 output <- received

ImplementsPipe == Pipe!Spec
=============================================================================
