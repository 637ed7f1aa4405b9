----------------------------- MODULE MC_Buffers -----------------------------
(***************************************************************************)
(* The two PacketBuffer implementations driven by the same calls, so that   *)
(* changing GlobalConfig::BufferModeStatus changes nothing a caller sees    *)
(* until the circular one is full.                                         *)
(***************************************************************************)
EXTENDS CycleBuffer

VARIABLES list, listReply

L == INSTANCE ListBuffer

MCByte == {0, 1}
MCChunks == UNION {[1..n -> MCByte] : n \in 0..5}
MCCounts == 0..6

PairInit == CycleInit /\ L!ListInit

\* A chunk the circular buffer refuses is not handed to the list.
PairAppend(d) ==
    /\ append(d)
    /\ IF Len(d) <= usableSize THEN L!append(d) ELSE UNCHANGED <<list, listReply>>

PairNext ==
    \/ \E d \in Chunks : PairAppend(d)
    \/ \E n \in Counts : \/ readBufferN(n) /\ L!readBufferN(n)
                         \/ clearBufferN(n) /\ L!clearBufferN(n)
    \/ clear /\ L!clear

PairSpec == PairInit /\ [][PairNext]_<<cycleVars, L!listVars>>

\* Whatever was appended, read and cleared before, an accepted call returns
\* the same code and the same bytes from both buffers.
SameReads == reply.rc = 0 => reply = listReply
=============================================================================
