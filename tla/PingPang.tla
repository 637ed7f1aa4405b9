------------------------------ MODULE PingPang ------------------------------
(***************************************************************************)
(* The packet users of examples/pingpang and examples/all_example: a client *)
(* that sends packets, a server and a client that append what they receive  *)
(* to their connection's PacketBuffer and write back every packet they can  *)
(* read.  TCP delivers the bytes in order, in pieces of any size up to what *)
(* one read returns.  Writes are taken by the socket at once.               *)
(***************************************************************************)
EXTENDS Packet, FiniteSets, SequencesExt

CONSTANTS Messages,    \* what the client's application sends
          Noises,      \* bytes a writer may put on the stream without a frame
          Modes,       \* values of GlobalConfig::BufferModeStatus
          Capacity,    \* bytes a CycleBuffer holds, CycleBufferSize - 1
          MaxRead,     \* bytes one read returns at most
          MaxSent      \* bound: messages the client sends

Sides == {"client", "server"}
Peer(s) == IF s = "client" THEN "server" ELSE "client"

ASSUME PingPangAssumption ==
    /\ Messages \subseteq Seq(Byte) /\ Noises \subseteq Seq(Byte)
    /\ Modes \subseteq {"NoBuffer", "CycleBuffer", "ListBuffer"}
    /\ Capacity \in Nat /\ MaxRead \in Nat \ {0} /\ MaxSent \in Nat

\* The bytes are packets and noise that cannot be taken for one: a frame's
\* length fits its uint16_t, and bare bytes hold no head byte.
ASSUME FramingAssumption ==
    /\ \A d \in Messages : Len(d) + PacketMinSize < NumRange
    /\ \A z \in Noises : \A i \in 1..Len(z) : z[i] # HeadByte

\* A CycleBuffer has room for a packet that lacks its last byte, and one read.
ASSUME RoomAssumption ==
    "CycleBuffer" \in Modes =>
        /\ PacketMinSize - 1 + MaxRead <= Capacity
        /\ \A d \in Messages : Len(d) + PacketMinSize - 1 + MaxRead <= Capacity

VARIABLES
    mode,      \* GlobalConfig::BufferModeStatus when the connections are made
    wire,      \* side -> bytes on their way to it
    buf,       \* side -> content of its connection's PacketBuffer
    got,       \* side -> the packets the last newMessage() read
    sent,      \* how many messages the application has sent
    noise,     \* bytes without a frame have been written
    refused    \* history: an append() to a full buffer failed

vars == <<mode, wire, buf, got, sent, noise, refused>>

Init ==
    /\ mode \in Modes
    /\ wire = [s \in Sides |-> <<>>]
    /\ buf = [s \in Sides |-> <<>>]
    /\ got = [s \in Sides |-> <<>>]
    /\ sent = 0 /\ noise = FALSE
    /\ refused = FALSE

-----------------------------------------------------------------------------
\* The loop of readFromBuffer(), from any point of it on.
Outcomes == [state : {"more", "read", "on"}, bytes : Seq(Byte), data : Seq(Byte)]
readLoop[pass \in Outcomes] ==
    IF pass.state = "on" THEN readLoop[ReadPass(pass.bytes, pass.data)] ELSE pass

readFromBuffer(bytes) == readLoop[Outcome("on", bytes, <<>>)]

ReadPackets[bytes \in Seq(Byte)] ==
    LET r == readFromBuffer(bytes)
        later == ReadPackets[r.bytes]
    IN  IF r.state = "read"
          THEN [bytes |-> later.bytes,
                packets |-> <<Swapped(r.data)>> \o later.packets]
          ELSE [bytes |-> r.bytes, packets |-> <<>>]

\* while (0 == packetbuf->readPacket(packet))
ReadAll(bytes) == ReadPackets[bytes]

Buffers(packets) == [i \in DOMAIN packets |-> packets[i].buffer]

\* What write() is given for a message: bare, or in a packet.
Framed(d) == IF mode = "NoBuffer" THEN d ELSE pack(d).buffer

\* sendTestMessage()
SendTestMessage(d) ==
    /\ sent < MaxSent
    /\ sent' = sent + 1
    /\ wire' = [wire EXCEPT !["server"] = @ \o Framed(d)]
    /\ UNCHANGED <<mode, buf, got, noise, refused>>

\* A writeInLoop() of bare bytes on a connection that otherwise carries
\* packets.
WriteBare(d) ==
    /\ mode # "NoBuffer" /\ ~noise
    /\ noise' = TRUE
    /\ wire' = [wire EXCEPT !["server"] = @ \o d]
    /\ UNCHANGED <<mode, buf, got, sent, refused>>

\* append() to the connection's buffer; its result is ignored.
Fits(s, n) == mode = "ListBuffer" \/ Len(buf[s]) + n <= Capacity

\* newMessage() of either side, with the next n bytes of its stream.
NewMessage(s, n) ==
    LET chunk == SubSeq(wire[s], 1, n)
        rest == [wire EXCEPT ![s] = Drop(@, n)]
    IN  IF mode = "NoBuffer"
          THEN /\ wire' = [rest EXCEPT ![Peer(s)] = @ \o chunk]
               /\ UNCHANGED <<mode, buf, got, sent, noise, refused>>
          ELSE LET r == ReadAll(IF Fits(s, n) THEN buf[s] \o chunk ELSE buf[s])
               IN  /\ buf' = [buf EXCEPT ![s] = r.bytes]
                   /\ got' = [got EXCEPT ![s] = r.packets]
                   /\ wire' = [rest EXCEPT ![Peer(s)] =
                                 @ \o FlattenSeq(Buffers(r.packets))]
                   /\ refused' = (refused \/ ~Fits(s, n))
                   /\ UNCHANGED <<mode, sent, noise>>

Receive(s) == \E n \in 1..MaxRead : n <= Len(wire[s]) /\ NewMessage(s, n)

Next ==
    \/ \E d \in Messages : SendTestMessage(d)
    \/ \E d \in Noises : WriteBare(d)
    \/ \E s \in Sides : Receive(s)

Spec == Init /\ [][Next]_vars

\* TCP delivers what was written, and the loop reads it.
FairSpec == Spec /\ \A s \in Sides : WF_vars(Receive(s))

-----------------------------------------------------------------------------
\* The bytes side s has still to handle, oldest first.
Stream(s) == buf[s] \o wire[s]

\* Reference: a stream taken apart at once.  Bytes before a head byte belong to
\* no packet; without buffers every byte is a message of its own.
Frames[bytes \in Seq(Byte)] ==
    IF Len(bytes) < PacketMinSize THEN <<>>
    ELSE LET n == UnpackNum(bytes[2], bytes[3])
         IN  IF Head(bytes) # HeadByte \/ Len(bytes) < n + PacketMinSize
               THEN Frames[Tail(bytes)]
               ELSE <<SubSeq(bytes, 4, 3 + n)>>
                    \o Frames[Drop(bytes, n + PacketMinSize)]

Singles(d) == [i \in DOMAIN d |-> <<d[i]>>]

Parsed(bytes) == IF mode = "NoBuffer" THEN Singles(bytes) ELSE Frames[bytes]

\* However the bytes are cut into reads, no packet is lost, changed, duplicated
\* or overtaken: the two byte streams are a ring of whole messages.
Ring == INSTANCE MessageRing WITH
    toServer <- Parsed(Stream("server")), toClient <- Parsed(Stream("client")),
    Batches <- {<<d>> : d \in Messages} \cup {Singles(d) : d \in Messages}
ImplementsRing == Ring!RingSpec

\* Every packet handed to the application is a frame as doc/en/Packet.md
\* describes it ("header | size|data|end|"), with DataSize() its size field.
DeliveredWellFormed ==
    \A s \in Sides : \A i \in DOMAIN got[s] : WellFormed(got[s][i])

\* newMessage() leaves less than one packet behind, so a circular buffer with
\* room for that and for one read never refuses what arrives.
NothingRefused == ~refused

\* A packet keeps going round: once one is sent the client hears of it again
\* and again.
KeepsBouncing ==
    sent > 0 /\ mode # "NoBuffer" ~> []<>(wire["client"] # <<>>)
=============================================================================
