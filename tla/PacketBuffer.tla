---------------------------- MODULE PacketBuffer ----------------------------
(***************************************************************************)
(* What uv::PacketBuffer promises its users: a byte queue.  append adds at *)
(* the back, all of the chunk or nothing of it; readBufferN copies from the *)
(* front without removing; clearBufferN removes from the front and clamps;  *)
(* clear removes everything.                                               *)
(* "reply" is what the last call returned: its code, and the bytes that    *)
(* readBufferN added to the caller's string.                               *)
(***************************************************************************)
EXTENDS Integers, Sequences

CONSTANTS Byte,       \* the values of a byte
          Chunks,     \* the chunks callers append
          Counts,     \* the N that callers pass
          Capacity    \* how many bytes fit

VARIABLES content, reply

bufferVars == <<content, reply>>

Answer(code, bytes) == [rc |-> code, data |-> bytes]
Ok == Answer(0, <<>>)
Refused == Answer(-1, <<>>)

BufferInit == content = <<>> /\ reply = Ok

append(d) ==
    IF Len(content) + Len(d) <= Capacity
      THEN content' = content \o d /\ reply' = Ok
      ELSE reply' = Refused /\ UNCHANGED content

readBufferN(n) ==
    /\ reply' = (IF n > Len(content) THEN Refused
                                     ELSE Answer(0, SubSeq(content, 1, n)))
    /\ UNCHANGED content

clearBufferN(n) ==
    /\ content' = (IF n >= Len(content) THEN <<>>
                   ELSE SubSeq(content, n + 1, Len(content)))
    /\ reply' = Ok

clear == content' = <<>> /\ reply' = Ok

BufferNext ==
    \/ \E d \in Chunks : append(d)
    \/ \E n \in Counts : readBufferN(n) \/ clearBufferN(n)
    \/ clear

BufferSpec == BufferInit /\ [][BufferNext]_bufferVars
=============================================================================
