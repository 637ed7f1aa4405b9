---------------------------- MODULE CycleBuffer ----------------------------
(***************************************************************************)
(* uv::CycleBuffer: the byte queue kept in a fixed array, read and written  *)
(* at two indices that wrap around.  One slot stays free so that equal      *)
(* indices mean empty.  Used by one thread.                                *)
(***************************************************************************)
EXTENDS Integers, Sequences

CONSTANTS Byte,     \* the values of a byte
          Chunks,   \* the chunks callers append
          Size,     \* GlobalConfig::CycleBufferSize, fixed while buffers exist
          Counts    \* the N that callers pass

ASSUME BufferAssumption ==
    /\ Size \in Nat \ {0}
    /\ Chunks \subseteq Seq(Byte)
    /\ Counts \subseteq Nat

VARIABLES buffer,       \* buffer_
          writeIndex,   \* writeIndex_
          readIndex,    \* readIndex_
          reply         \* what the last call returned

cycleVars == <<buffer, writeIndex, readIndex, reply>>

Slots == 0..(Size - 1)

\* new uint8_t[CycleBufferSize] leaves the bytes unset.
CycleInit ==
    /\ buffer \in [Slots -> Byte]
    /\ writeIndex = 0 /\ readIndex = 0
    /\ reply = [rc |-> 0, data |-> <<>>]

-----------------------------------------------------------------------------
readSizeInfo ==
    IF writeIndex >= readIndex
      THEN [part1 |-> writeIndex - readIndex, part2 |-> 0]
      ELSE [part1 |-> Size - readIndex, part2 |-> writeIndex]

readSize == readSizeInfo.part1 + readSizeInfo.part2

usableSize ==
    IF writeIndex < readIndex
      THEN readIndex - writeIndex - 1
      ELSE Size + readIndex - writeIndex - 1

UsableUpToRead ==  \* mutant: the free slot before readIndex_ is given away
    IF writeIndex < readIndex
      THEN [part1 |-> readIndex - writeIndex, part2 |-> 0]
      ELSE [part1 |-> Size - writeIndex, part2 |-> readIndex]

\* Room in front of the end of the array, and room at its start.
usableSizeInfo ==
    IF writeIndex < readIndex
      THEN [part1 |-> readIndex - writeIndex - 1, part2 |-> 0]
      ELSE [part1 |-> IF readIndex = 0 THEN Size - writeIndex - 1
                                       ELSE Size - writeIndex,
            part2 |-> IF readIndex = 0 THEN 0 ELSE readIndex - 1]

\* addWriteIndex and addReadIndex on an index i.
AddIndex(i, n) ==
    IF n > Size THEN i
    ELSE IF i + n >= Size THEN i + n - Size ELSE i + n

\* std::copy of d[from..to] to buf + at.
CopyIn(buf, at, d, from, to) ==
    [i \in Slots |-> IF i >= at /\ i < at + (to - from + 1)
                       THEN d[from + (i - at)] ELSE buf[i]]

\* std::copy of n bytes from buffer_ + at.
CopyOut(at, n) == [i \in 1..n |-> buffer[at + (i - 1)]]

-----------------------------------------------------------------------------
append(d) ==
    LET info == usableSizeInfo
    IN  IF info.part1 + info.part2 < Len(d)
          THEN /\ reply' = [rc |-> -1, data |-> <<>>]
               /\ UNCHANGED <<buffer, writeIndex, readIndex>>
          ELSE /\ buffer' =
                    (IF info.part1 >= Len(d)
                       THEN CopyIn(buffer, writeIndex, d, 1, Len(d))
                       ELSE CopyIn(CopyIn(buffer, writeIndex, d, 1, info.part1),
                                   0, d, info.part1 + 1, Len(d)))
               /\ writeIndex' = AddIndex(writeIndex, Len(d))
               /\ reply' = [rc |-> 0, data |-> <<>>]
               /\ UNCHANGED readIndex

readBufferN(n) ==
    LET part1 == readSizeInfo.part1
    IN  /\ reply' =
             (IF n > readSize THEN [rc |-> -1, data |-> <<>>]
              ELSE [rc |-> 0,
                    data |-> IF n <= part1
                               THEN CopyOut(readIndex, n)
                               ELSE CopyOut(readIndex, Size - readIndex)
                                    \o CopyOut(0, n - part1)])
        /\ UNCHANGED <<buffer, writeIndex, readIndex>>

ClearWithoutClamp(n) ==  \* mutant: N is not limited to readSize()
    /\ readIndex' = AddIndex(readIndex, n)
    /\ reply' = [rc |-> 0, data |-> <<>>]
    /\ UNCHANGED <<buffer, writeIndex>>

clearBufferN(n) ==
    /\ readIndex' = AddIndex(readIndex, IF n > readSize THEN readSize ELSE n)
    /\ reply' = [rc |-> 0, data |-> <<>>]
    /\ UNCHANGED <<buffer, writeIndex>>

clear ==
    /\ writeIndex' = 0 /\ readIndex' = 0
    /\ reply' = [rc |-> 0, data |-> <<>>]
    /\ UNCHANGED buffer

CycleNext ==
    \/ \E d \in Chunks : append(d)
    \/ \E n \in Counts : readBufferN(n) \/ clearBufferN(n)
    \/ clear

CycleSpec == CycleInit /\ [][CycleNext]_cycleVars

-----------------------------------------------------------------------------
\* Both indices stay inside the array.
CycleTypeOK ==
    /\ buffer \in [Slots -> Byte]
    /\ writeIndex \in Slots
    /\ readIndex \in Slots
    /\ reply \in [rc : {0, -1}, data : Seq(Byte)]

\* The size computations, written separately in the code, agree: what is
\* readable and what is usable always make up the array less one slot.
SizesAddUp ==
    /\ usableSize = usableSizeInfo.part1 + usableSizeInfo.part2
    /\ readSize + usableSize = Size - 1

Wrap(i) == IF i >= Size THEN i - Size ELSE i

\* The bytes between the read and the write index, across the end of the array.
Content == [i \in 1..readSize |-> buffer[Wrap(readIndex + (i - 1))]]

\* The circular array is the byte queue with room for Size - 1 bytes.
Queue == INSTANCE PacketBuffer WITH content <- Content, Capacity <- Size - 1
CycleImplementsQueue == Queue!BufferSpec
=============================================================================
