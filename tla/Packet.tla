------------------------------- MODULE Packet -------------------------------
(***************************************************************************)
(* uv::Packet: the frame "head byte, two bytes of size, data, end byte" and *)
(* how one is cut out of the bytes of a PacketBuffer.  A packet is its      *)
(* buffer_ together with dataSize_.                                        *)
(*                                                                         *)
(* Base is the number of values of a byte, 256 in the code; sizes are two   *)
(* bytes wide, so every uint16_t computation is modulo Base * Base.         *)
(***************************************************************************)
EXTENDS Integers, Sequences

CONSTANTS Base, HeadByte, EndByte,
          BigEndian    \* Packet::Mode = BigEndian

Byte == 0..(Base - 1)
NumRange == Base * Base

ASSUME PacketAssumption ==
    /\ Base \in Nat \ {0, 1}
    /\ HeadByte \in Byte /\ EndByte \in Byte
    /\ BigEndian \in BOOLEAN

PacketMinSize == 4

PackNum(n) ==
    IF BigEndian THEN <<n \div Base, n % Base>> ELSE <<n % Base, n \div Base>>

UnpackNum(hi, lo) == IF BigEndian THEN hi * Base + lo ELSE lo * Base + hi

Drop(bytes, n) == SubSeq(bytes, n + 1, Len(bytes))

pack(data) ==
    [buffer |-> <<HeadByte>> \o PackNum(Len(data)) \o data \o <<EndByte>>,
     dataSize |-> Len(data)]

\* The packet that swap() makes of a string.
Swapped(str) ==
    [buffer |-> str, dataSize |-> (Len(str) - PacketMinSize) % NumRange]

getData(p) == SubSeq(p.buffer, PacketMinSize, PacketMinSize - 1 + p.dataSize)

\* The outcome of a pass through the loop of readFromBuffer(): "more" bytes
\* are needed, a packet was "read", or the loop goes "on" with data.
Outcome(state, bytes, data) == [state |-> state, bytes |-> bytes, data |-> data]

IncompleteUnlessMore(size, msgsize) == size <= msgsize  \* mutant

Incomplete(size, msgsize) == size < msgsize

BodyClearsMore(bytes, data, dataSize) ==  \* mutant: one byte too many is removed
    LET whole == IF dataSize + 1 > Len(bytes) THEN data
                 ELSE data \o SubSeq(bytes, 1, dataSize + 1)
    IN  IF whole[Len(whole)] = EndByte
          THEN Outcome("read", Drop(bytes, dataSize + 2), whole)
          ELSE Outcome("on", bytes, whole)

BodyWithoutEnd(bytes, data, dataSize) ==  \* mutant: the end byte is not counted
    LET whole == data \o SubSeq(bytes, 1, dataSize)
    IN  Outcome("read", Drop(bytes, dataSize), whole)

\* The header is removed; dataSize data bytes and the end byte are read if
\* they are there, and removed if the end byte is right.
Body(bytes, data, dataSize) ==
    LET whole == IF dataSize + 1 > Len(bytes) THEN data
                 ELSE data \o SubSeq(bytes, 1, dataSize + 1)
    IN  IF whole[Len(whole)] = EndByte
          THEN Outcome("read", Drop(bytes, dataSize + 1), whole)
          ELSE Outcome("on", bytes, whole)

\* One pass with the unread bytes and what data has accumulated so far.
ReadPass(bytes, data) ==
    IF Len(bytes) < PacketMinSize THEN Outcome("more", bytes, data)
    ELSE LET seen == data \o SubSeq(bytes, 1, 3)
             dataSize == UnpackNum(seen[2], seen[3])
             msgsize == (dataSize + PacketMinSize) % NumRange
         IN  IF seen[1] # HeadByte THEN Outcome("on", Tail(bytes), <<>>)
             ELSE IF Incomplete(Len(bytes), msgsize)
               THEN Outcome("more", bytes, data)
             ELSE Body(Drop(bytes, 3), seen, dataSize)

\* The frame the documentation describes.
WellFormed(p) ==
    LET n == Len(p.buffer)
    IN  /\ n >= PacketMinSize
        /\ p.buffer[1] = HeadByte /\ p.buffer[n] = EndByte
        /\ UnpackNum(p.buffer[2], p.buffer[3]) = p.dataSize
        /\ n = p.dataSize + PacketMinSize
=============================================================================
