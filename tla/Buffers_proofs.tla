--------------------------- MODULE Buffers_proofs ---------------------------
(* Theorems about the PacketBuffer implementations for every size, byte set  *)
(* and set of calls: CycleBuffer as a byte queue, then CycleBuffer and       *)
(* ListBuffer side by side, as MC_Buffers drives them.                       *)
EXTENDS MC_Buffers, SequenceTheorems, TLAPS

\* What the size computations come to, given indices inside the array.
LEMMA Sizes ==
  ASSUME CycleTypeOK
  PROVE  /\ readSize \in Nat
         /\ usableSize \in Nat
         /\ usableSize = usableSizeInfo.part1 + usableSizeInfo.part2
         /\ readSize + usableSize = Size - 1
         /\ usableSizeInfo.part1 \in Nat /\ usableSizeInfo.part2 \in Nat
         /\ readSizeInfo.part1 \in Nat /\ readSizeInfo.part2 \in Nat
         /\ writeIndex = Wrap(readIndex + readSize)
  BY BufferAssumption DEF CycleTypeOK, Slots, readSize, readSizeInfo, usableSize,
     usableSizeInfo, Wrap

\* An index moved by less than the array's size stays inside it.
LEMMA AddIndexWraps ==
  ASSUME NEW i \in Slots, NEW n \in 0..(Size - 1)
  PROVE  AddIndex(i, n) \in Slots /\ AddIndex(i, n) = Wrap(i + n)
  BY BufferAssumption DEF AddIndex, Slots, Wrap

\* The bytes of an accepted chunk, wherever append() has to split it.
LEMMA Copied ==
  ASSUME CycleTypeOK, NEW d \in Seq(Byte), Len(d) <= usableSize, append(d)
  PROVE  \A p \in Slots :
           buffer'[p] = IF p >= writeIndex /\ p < writeIndex + Len(d)
                          THEN d[p - writeIndex + 1]
                        ELSE IF p < writeIndex + Len(d) - Size
                          THEN d[p + Size - writeIndex + 1]
                        ELSE buffer[p]
<1> DEFINE info == usableSizeInfo
<1> USE BufferAssumption DEF Slots
<1>1. /\ writeIndex \in Slots /\ readIndex \in Slots /\ Len(d) \in Nat
      /\ info.part1 \in Nat /\ info.part2 \in Nat
      /\ ~(info.part1 + info.part2 < Len(d))
  BY Sizes DEF CycleTypeOK
<1>2. CASE info.part1 >= Len(d)
  <2>1. buffer' = CopyIn(buffer, writeIndex, d, 1, Len(d))
    BY <1>1, <1>2 DEF append
  <2>2. writeIndex + Len(d) <= Size
    BY <1>1, <1>2 DEF usableSizeInfo
  <2> QED BY <1>1, <2>1, <2>2 DEF CopyIn
<1>3. CASE info.part1 < Len(d)
  <2>1. info.part1 = Size - writeIndex
    BY <1>1, <1>3 DEF usableSizeInfo
  <2>2. buffer' = CopyIn(CopyIn(buffer, writeIndex, d, 1, info.part1),
                         0, d, info.part1 + 1, Len(d))
    BY <1>1, <1>3 DEF append
  <2>3. Len(d) <= Size - 1  BY Sizes, <1>1
  <2> DEFINE first == CopyIn(buffer, writeIndex, d, 1, Size - writeIndex)
  <2>4. \A p \in Slots :
          first[p] = IF p >= writeIndex THEN d[1 + (p - writeIndex)] ELSE buffer[p]
    BY <1>1 DEF CopyIn
  <2>5. buffer' = CopyIn(first, 0, d, Size - writeIndex + 1, Len(d))
    BY <2>1, <2>2
  <2> HIDE DEF info, first
  <2>6. \A p \in Slots :
          buffer'[p] = IF p < Len(d) - (Size - writeIndex)
                         THEN d[Size - writeIndex + 1 + p] ELSE first[p]
    BY <1>1, <2>5 DEF CopyIn
  <2>7. \A p \in Slots : p < writeIndex + Len(d)
    BY <1>1, <1>3, <2>1
  <2>8. writeIndex + Len(d) - Size < writeIndex  BY <1>1, <2>3
  <2> TAKE p \in Slots
  <2>9. CASE p >= writeIndex
    <3>1. ~(p < Len(d) - (Size - writeIndex))  BY <1>1, <2>8, <2>9
    <3>2. buffer'[p] = d[1 + (p - writeIndex)]  BY <2>4, <2>6, <2>9, <3>1
    <3>3. 1 + (p - writeIndex) = p - writeIndex + 1  BY <1>1
    <3> QED BY <2>7, <2>9, <3>2, <3>3
  <2>10. CASE ~(p >= writeIndex) /\ p < writeIndex + Len(d) - Size
    <3>1. p < Len(d) - (Size - writeIndex)  BY <1>1, <2>10
    <3>2. Size - writeIndex + 1 + p = p + Size - writeIndex + 1  BY <1>1
    <3> QED BY <2>6, <2>10, <3>1, <3>2
  <2>11. CASE ~(p >= writeIndex) /\ ~(p < writeIndex + Len(d) - Size)
    <3>1. ~(p < Len(d) - (Size - writeIndex))  BY <1>1, <2>11
    <3> QED BY <2>4, <2>6, <2>11, <3>1
  <2> QED BY <2>9, <2>10, <2>11
<1>4. info.part1 >= Len(d) \/ info.part1 < Len(d)
  <2> HIDE DEF info
  <2> QED BY <1>1
<1> QED BY <1>2, <1>3, <1>4

\* Concatenation, byte by byte.
LEMMA ConcatBytes ==
  ASSUME NEW S, NEW a \in Seq(S), NEW b \in Seq(S)
  PROVE  a \o b = [i \in 1..(Len(a) + Len(b)) |->
                     IF i <= Len(a) THEN a[i] ELSE b[i - Len(a)]]
<1> DEFINE c == a \o b
           f == [i \in 1..(Len(a) + Len(b)) |->
                   IF i <= Len(a) THEN a[i] ELSE b[i - Len(a)]]
<1>1. Len(a) \in Nat /\ Len(b) \in Nat  OBVIOUS
<1>2. /\ c \in Seq(S) /\ Len(c) = Len(a) + Len(b)
      /\ \A i \in 1..(Len(a) + Len(b)) :
            c[i] = IF i <= Len(a) THEN a[i] ELSE b[i - Len(a)]
  BY ConcatProperties
<1>3. c = [i \in 1..(Len(a) + Len(b)) |-> c[i]]
  <2> HIDE DEF c
  <2> QED BY <1>1, <1>2
<1> QED BY <1>2, <1>3

\* A contiguous part of a sequence, byte by byte.
LEMMA PartBytes ==
  ASSUME NEW S, NEW a \in Seq(S), NEW m \in 1..(Len(a) + 1), NEW n \in 0..Len(a)
  PROVE  SubSeq(a, m, n) = [i \in 1..(IF m <= n THEN n - m + 1 ELSE 0) |-> a[i + m - 1]]
  OBVIOUS

\* The bytes in use form a sequence of readSize() bytes.
LEMMA ContentBytes ==
  ASSUME CycleTypeOK
  PROVE  Len(Content) = readSize /\ Content \in Seq(Byte)
<1>1. /\ readIndex \in Slots /\ buffer \in [Slots -> Byte]
      /\ readSize \in Nat /\ readSize <= Size - 1
  BY Sizes DEF CycleTypeOK
<1>2. \A i \in 1..readSize : Wrap(readIndex + (i - 1)) \in Slots
  BY <1>1, BufferAssumption DEF Wrap, Slots
<1>3. \A i \in 1..readSize : buffer[Wrap(readIndex + (i - 1))] \in Byte
  BY <1>1, <1>2
<1> QED BY <1>1, <1>3 DEF Content

\* append() as the byte queue sees it.
LEMMA AppendStep ==
  ASSUME CycleTypeOK, NEW d \in Chunks, append(d)
  PROVE  CycleTypeOK' /\ Queue!append(d)
<1> DEFINE k == Len(d)
           rs == readSize
           w == writeIndex
           r == readIndex
<1> USE BufferAssumption
<1>0. d \in Seq(Byte) /\ k \in Nat /\ \A j \in 1..k : d[j] \in Byte  OBVIOUS
<1>1. /\ w \in Slots /\ r \in Slots /\ buffer \in [Slots -> Byte]
      /\ rs \in Nat /\ usableSize \in Nat /\ rs + usableSize = Size - 1
      /\ usableSize = usableSizeInfo.part1 + usableSizeInfo.part2
      /\ w = Wrap(r + rs)
  BY Sizes DEF CycleTypeOK
<1>2. Len(Content) = rs /\ Content \in Seq(Byte)  BY ContentBytes
<1>3. CASE usableSize < k
  <2>1. reply' = [rc |-> -1, data |-> <<>>] /\ UNCHANGED <<buffer, writeIndex, readIndex>>
    BY <1>1, <1>3 DEF append
  <2>2. Content' = Content
    BY <2>1 DEF Content, readSize, readSizeInfo
  <2>3. ~(Len(Content) + Len(d) <= Size - 1)  BY <1>0, <1>1, <1>2, <1>3
  <2>4. reply' \in [rc : {0, -1}, data : Seq(Byte)]  BY <2>1
  <2>5. CycleTypeOK'  BY <2>1, <2>4 DEF CycleTypeOK
  <2> QED BY <2>1, <2>2, <2>3, <2>5 DEF Queue!append, Queue!Refused, Queue!Answer
<1>4. CASE k <= usableSize
  <2>1. /\ reply' = [rc |-> 0, data |-> <<>>] /\ readIndex' = r
        /\ writeIndex' = AddIndex(w, k)
    <3>1. ~(usableSizeInfo.part1 + usableSizeInfo.part2 < Len(d))
      BY <1>0, <1>1, <1>4
    <3> QED BY <3>1 DEF append
  <2>2. k \in 0..(Size - 1)  BY <1>0, <1>1, <1>4
  <2>3. writeIndex' \in Slots /\ writeIndex' = Wrap(w + k)
    BY <1>1, <2>1, <2>2, AddIndexWraps
  <2>4. buffer' \in [Slots -> Byte]
    <3>1. buffer' = [p \in Slots |-> buffer'[p]]
      BY <1>0, <1>1, <1>4 DEF append, CopyIn
    <3>2. \A p \in Slots : buffer'[p] \in Byte
      <4> TAKE p \in Slots
      <4>1. CASE p >= w /\ p < w + k
        <5>1. p - w + 1 \in 1..k  BY <1>0, <1>1, <4>1 DEF Slots
        <5>2. buffer'[p] = d[p - w + 1]  BY <1>0, <1>4, <4>1, Copied
        <5> QED BY <1>0, <5>1, <5>2
      <4>2. CASE ~(p >= w /\ p < w + k) /\ p < w + k - Size
        <5>1. p + Size - w + 1 \in 1..k
          <6>1. p \in Nat /\ w \in Nat /\ w < Size /\ Size \in Nat  BY <1>1 DEF Slots
          <6> HIDE DEF w, k
          <6> QED BY <1>0, <4>2, <6>1
        <5>2. buffer'[p] = d[p + Size - w + 1]  BY <1>0, <1>4, <4>2, Copied
        <5> QED BY <1>0, <5>1, <5>2
      <4>3. CASE ~(p >= w /\ p < w + k) /\ ~(p < w + k - Size)
        BY <1>0, <1>1, <1>4, <4>3, Copied
      <4> QED BY <4>1, <4>2, <4>3
    <3> QED BY <3>1, <3>2
  <2>5. CycleTypeOK'
    <3>1. reply' \in [rc : {0, -1}, data : Seq(Byte)]  BY <2>1
    <3> QED BY <1>1, <2>1, <2>3, <2>4, <3>1 DEF CycleTypeOK
  <2>6. readSize' = rs + k
    BY <1>0, <1>1, <1>4, <2>1, <2>3 DEF readSize, readSizeInfo, Wrap, Slots
  <2>7. Content' = Content \o d
    <3>1. Content' = [i \in 1..(rs + k) |-> buffer'[Wrap(r + (i - 1))]]
      BY <2>1, <2>6 DEF Content
    <3>2. Content \o d =
            [i \in 1..(rs + k) |-> IF i <= rs THEN Content[i] ELSE d[i - rs]]
      <4>1. Content \o d =
              [i \in 1..(Len(Content) + Len(d)) |->
                 IF i <= Len(Content) THEN Content[i] ELSE d[i - Len(Content)]]
        BY <1>0, <1>2, ConcatBytes, Zenon
      <4> QED BY <1>2, <4>1, Zenon
    <3>3. ASSUME NEW i \in 1..(rs + k)
          PROVE  buffer'[Wrap(r + (i - 1))] = IF i <= rs THEN Content[i] ELSE d[i - rs]
      <4> DEFINE p == Wrap(r + (i - 1))
      <4>1. p \in Slots  BY <1>0, <1>1, <2>2, <1>4 DEF Wrap, Slots
      <4>2. CASE i <= rs
        <5>1. ~(p >= w /\ p < w + k) /\ ~(p < w + k - Size)
          BY <1>0, <1>1, <1>4, <4>2 DEF Wrap, Slots
        <5>2. buffer'[p] = buffer[p]  BY <1>0, <1>4, <4>1, <5>1, Copied
        <5> QED BY <1>1, <4>2, <5>2 DEF Content
      <4>3. CASE i > rs /\ p >= w
        <5>1. p < w + k /\ p - w + 1 = i - rs
          BY <1>0, <1>1, <1>4, <4>3 DEF Wrap, Slots
        <5>2. buffer'[p] = d[p - w + 1]  BY <1>0, <1>4, <4>1, <4>3, <5>1, Copied
        <5> QED BY <1>1, <4>3, <5>1, <5>2
      <4>4. CASE i > rs /\ p < w
        <5>1. p < w + k - Size /\ p + Size - w + 1 = i - rs /\ ~(p >= w)
          BY <1>0, <1>1, <1>4, <4>4 DEF Wrap, Slots
        <5>2. buffer'[p] = d[p + Size - w + 1]
          BY <1>0, <1>4, <4>1, <4>4, <5>1, Copied
        <5> QED BY <1>1, <4>4, <5>1, <5>2
      <4> QED BY <1>0, <1>1, <4>1, <4>2, <4>3, <4>4 DEF Slots
    <3> QED BY <3>1, <3>2, <3>3
  <2>8. Len(Content) + Len(d) <= Size - 1  BY <1>0, <1>1, <1>2, <1>4
  <2> QED BY <2>1, <2>5, <2>7, <2>8 DEF Queue!append, Queue!Ok, Queue!Answer
<1> QED BY <1>0, <1>1, <1>3, <1>4

\* readBufferN(), in one piece or in two, returns a prefix of the queue.
LEMMA ReadStep ==
  ASSUME CycleTypeOK, NEW n \in Counts, readBufferN(n)
  PROVE  CycleTypeOK' /\ Queue!readBufferN(n)
<1> USE BufferAssumption
<1>1. /\ writeIndex \in Slots /\ readIndex \in Slots /\ buffer \in [Slots -> Byte]
      /\ readSize \in Nat /\ n \in Nat
      /\ Len(Content) = readSize /\ Content \in Seq(Byte)
  BY Sizes, ContentBytes DEF CycleTypeOK
<1>2. UNCHANGED <<buffer, writeIndex, readIndex>>  BY DEF readBufferN
<1>3. Content' = Content  BY <1>2 DEF Content, readSize, readSizeInfo
<1>4. CASE n > readSize
  <2>1. reply' = [rc |-> -1, data |-> <<>>]  BY <1>4 DEF readBufferN
  <2>2. reply' \in [rc : {0, -1}, data : Seq(Byte)]  BY <2>1
  <2>3. CycleTypeOK'  BY <1>2, <2>2 DEF CycleTypeOK
  <2> QED BY <1>1, <1>3, <1>4, <2>1, <2>3
          DEF Queue!readBufferN, Queue!Refused, Queue!Answer
<1>5. CASE ~(n > readSize)
  <2> DEFINE part1 == readSizeInfo.part1
             out == IF n <= part1 THEN CopyOut(readIndex, n)
                    ELSE CopyOut(readIndex, Size - readIndex) \o CopyOut(0, n - part1)
  <2>1. reply' = [rc |-> 0, data |-> out]  BY <1>5 DEF readBufferN
  <2>2. SubSeq(Content, 1, n) = [i \in 1..n |-> Content[i]]
    <3>1. SubSeq(Content, 1, n) =
            [i \in 1..(IF 1 <= n THEN n - 1 + 1 ELSE 0) |-> Content[i + 1 - 1]]
      BY <1>1, <1>5, PartBytes
    <3>2. (IF 1 <= n THEN n - 1 + 1 ELSE 0) = n  BY <1>1
    <3> QED BY <3>1, <3>2
  <2>3. out = [i \in 1..n |-> Content[i]]
    <3>1. CASE n <= part1
      <4>1. \A i \in 1..n : Content[i] = buffer[readIndex + (i - 1)]
        BY <1>1, <1>5, <3>1 DEF Content, Wrap, Slots, readSize, readSizeInfo
      <4> QED BY <3>1, <4>1 DEF CopyOut
    <3>2. CASE ~(n <= part1)
      <4> DEFINE a == CopyOut(readIndex, Size - readIndex)
                 b == CopyOut(0, n - part1)
      <4>1. /\ part1 = Size - readIndex /\ writeIndex < readIndex
            /\ n - part1 \in Nat /\ n - part1 <= writeIndex
        BY <1>1, <1>5, <3>2 DEF Slots, readSize, readSizeInfo
      <4>2. /\ a \in Seq(Byte) /\ Len(a) = part1
            /\ \A i \in 1..part1 : a[i] = buffer[readIndex + (i - 1)]
        <5>1. \A i \in 1..part1 : buffer[readIndex + (i - 1)] \in Byte
          BY <1>1, <4>1 DEF Slots
        <5> QED BY <1>1, <4>1, <5>1 DEF CopyOut, Slots
      <4>3. /\ b \in Seq(Byte) /\ Len(b) = n - part1
            /\ \A i \in 1..(n - part1) : b[i] = buffer[0 + (i - 1)]
        <5>1. \A i \in 1..(n - part1) : buffer[0 + (i - 1)] \in Byte
          BY <1>1, <4>1 DEF Slots
        <5> QED BY <1>1, <4>1, <5>1 DEF CopyOut, Slots
      <4>4. out = a \o b  BY <3>2
      <4>5. part1 \in Nat /\ part1 + (n - part1) = n  BY <1>1, <4>1 DEF Slots
      <4> HIDE DEF a, b, part1
      <4>6. a \o b = [i \in 1..n |-> IF i <= part1 THEN a[i] ELSE b[i - part1]]
        <5>1. a \o b = [i \in 1..(Len(a) + Len(b)) |->
                          IF i <= Len(a) THEN a[i] ELSE b[i - Len(a)]]
          BY <4>2, <4>3, ConcatBytes, Zenon
        <5> QED BY <4>2, <4>3, <4>5, <5>1, Zenon
      <4>7. \A i \in 1..n :
              Content[i] = IF i <= part1 THEN a[i] ELSE b[i - part1]
        <5> TAKE i \in 1..n
        <5>1. Content[i] = buffer[Wrap(readIndex + (i - 1))]
          BY <1>1, <1>5 DEF Content
        <5>2. CASE i <= part1
          BY <1>1, <4>1, <4>2, <4>5, <5>1, <5>2 DEF Wrap, Slots
        <5>3. CASE ~(i <= part1)
          <6>1. i - part1 \in 1..(n - part1)  BY <1>1, <4>5, <5>3
          <6>2. Wrap(readIndex + (i - 1)) = 0 + ((i - part1) - 1)
            BY <1>1, <4>1, <4>5, <5>3 DEF Wrap, Slots
          <6> QED BY <4>3, <5>1, <5>3, <6>1, <6>2
        <5> QED BY <5>2, <5>3
      <4> QED BY <4>4, <4>6, <4>7
    <3> QED BY <3>1, <3>2
  <2> HIDE DEF out
  <2>4. out = SubSeq(Content, 1, n)  BY <2>2, <2>3
  <2>5. \A i \in 1..n : Content[i] \in Byte  BY <1>1, <1>5
  <2>6. out \in Seq(Byte)  BY <1>1, <2>3, <2>5
  <2>7. reply' \in [rc : {0, -1}, data : Seq(Byte)]  BY <2>1, <2>6
  <2>8. CycleTypeOK'  BY <1>2, <2>7 DEF CycleTypeOK
  <2> QED BY <1>1, <1>3, <1>5, <2>1, <2>4, <2>8 DEF Queue!readBufferN, Queue!Answer
<1> QED BY <1>4, <1>5

\* clearBufferN() drops a prefix of the queue.
LEMMA ClearNStep ==
  ASSUME CycleTypeOK, NEW n \in Counts, clearBufferN(n)
  PROVE  CycleTypeOK' /\ Queue!clearBufferN(n)
<1> DEFINE m == IF n > readSize THEN readSize ELSE n
<1> USE BufferAssumption
<1>1. /\ writeIndex \in Slots /\ readIndex \in Slots
      /\ readSize \in Nat /\ readSize <= Size - 1 /\ n \in Nat
      /\ writeIndex = Wrap(readIndex + readSize)
      /\ Len(Content) = readSize /\ Content \in Seq(Byte)
  BY Sizes, ContentBytes DEF CycleTypeOK
<1>2. m \in 0..readSize  BY <1>1
<1>3. /\ readIndex' = AddIndex(readIndex, m) /\ UNCHANGED <<buffer, writeIndex>>
      /\ reply' = [rc |-> 0, data |-> <<>>]
  BY DEF clearBufferN
<1> HIDE DEF m
<1>4. readIndex' \in Slots /\ readIndex' = Wrap(readIndex + m)
  BY <1>1, <1>2, <1>3, AddIndexWraps
<1>5. CycleTypeOK'
  <2>1. reply' \in [rc : {0, -1}, data : Seq(Byte)]  BY <1>3
  <2> QED BY <1>3, <1>4, <2>1 DEF CycleTypeOK
<1>6. readSize' = readSize - m
  BY <1>1, <1>2, <1>3, <1>4 DEF readSize, readSizeInfo, Wrap, Slots
<1>7. Content' = [i \in 1..(readSize - m) |-> Content[i + m]]
  <2>1. Content' = [i \in 1..(readSize - m) |-> buffer[Wrap(readIndex' + (i - 1))]]
    BY <1>3, <1>6 DEF Content
  <2>2. ASSUME NEW i \in 1..(readSize - m)
        PROVE  buffer[Wrap(readIndex' + (i - 1))] = Content[i + m]
    <3>1. i + m \in 1..readSize  BY <1>1, <1>2
    <3>2. Wrap(readIndex' + (i - 1)) = Wrap(readIndex + ((i + m) - 1))
      BY <1>1, <1>2, <1>4 DEF Wrap, Slots
    <3> QED BY <3>1, <3>2 DEF Content
  <2> QED BY <2>1, <2>2
<1>8. CASE n >= readSize
  <2>1. readSize - m = 0  BY <1>1, <1>8 DEF m
  <2>2. Content' = <<>>  BY <1>7, <2>1
  <2> QED BY <1>1, <1>3, <1>5, <1>8, <2>2
          DEF Queue!clearBufferN, Queue!Ok, Queue!Answer
<1>9. CASE ~(n >= readSize)
  <2>1. m = n /\ n < readSize  BY <1>1, <1>9 DEF m
  <2>2. SubSeq(Content, n + 1, Len(Content)) =
          [i \in 1..(readSize - n) |-> Content[i + n]]
    <3>1. SubSeq(Content, n + 1, readSize) =
            [i \in 1..(IF n + 1 <= readSize THEN readSize - (n + 1) + 1 ELSE 0) |->
               Content[i + (n + 1) - 1]]
      BY <1>1, <2>1, PartBytes
    <3>2. (IF n + 1 <= readSize THEN readSize - (n + 1) + 1 ELSE 0) = readSize - n
      BY <1>1, <2>1
    <3>3. \A i \in 1..(readSize - n) : i + (n + 1) - 1 = i + n  BY <1>1
    <3> QED BY <1>1, <3>1, <3>2, <3>3
  <2> QED BY <1>1, <1>3, <1>5, <1>7, <1>9, <2>1, <2>2
          DEF Queue!clearBufferN, Queue!Ok, Queue!Answer
<1> QED BY <1>8, <1>9

\* clear() drops all of it.
LEMMA ClearStep ==
  ASSUME CycleTypeOK, clear
  PROVE  CycleTypeOK' /\ Queue!clear
<1>1. CycleTypeOK'
  <2>1. 0 \in Slots  BY BufferAssumption DEF Slots
  <2>2. reply' \in [rc : {0, -1}, data : Seq(Byte)]  BY DEF clear
  <2> QED BY <2>1, <2>2 DEF clear, CycleTypeOK
<1>2. readSize' = 0  BY DEF clear, readSize, readSizeInfo
<1>3. Content' = <<>>  BY <1>2 DEF Content
<1> QED BY <1>1, <1>3 DEF clear, Queue!clear, Queue!Ok, Queue!Answer

\* Both indices stay inside the array and every reply is well formed.
THEOREM CycleTypeInvariant == CycleSpec => []CycleTypeOK
<1>1. CycleInit => CycleTypeOK
  BY BufferAssumption DEF CycleInit, CycleTypeOK, Slots
<1>2. CycleTypeOK /\ [CycleNext]_cycleVars => CycleTypeOK'
  <2> SUFFICES ASSUME CycleTypeOK, [CycleNext]_cycleVars PROVE CycleTypeOK'
    OBVIOUS
  <2>1. CASE UNCHANGED cycleVars  BY <2>1 DEF cycleVars, CycleTypeOK
  <2>2. CASE CycleNext
    BY <2>2, AppendStep, ReadStep, ClearNStep, ClearStep DEF CycleNext
  <2> QED BY <2>1, <2>2
<1> QED BY <1>1, <1>2, PTL DEF CycleSpec

\* readSize(), usableSize() and usableSizeInfo() always agree, so append()
\* can never fill the slot that tells a full buffer from an empty one.
THEOREM CycleSizes == CycleSpec => []SizesAddUp
<1>1. CycleTypeOK => SizesAddUp  BY Sizes DEF SizesAddUp
<1> QED BY <1>1, CycleTypeInvariant, PTL

\* The circular buffer implements the byte queue with room for Size - 1 bytes:
\* no sequence of calls makes it lose, repeat, reorder or invent a byte.
THEOREM CycleRefinement == CycleSpec => CycleImplementsQueue
<1>1. CycleInit => Queue!BufferInit
  <2> SUFFICES ASSUME CycleInit PROVE Queue!BufferInit  OBVIOUS
  <2>1. readSize = 0  BY DEF CycleInit, readSize, readSizeInfo
  <2>2. Content = <<>>  BY <2>1 DEF Content
  <2> QED BY <2>2 DEF CycleInit, Queue!BufferInit, Queue!Ok, Queue!Answer
<1>2. CycleTypeOK /\ [CycleNext]_cycleVars => [Queue!BufferNext]_(Queue!bufferVars)
  <2> SUFFICES ASSUME CycleTypeOK, [CycleNext]_cycleVars
               PROVE  [Queue!BufferNext]_(Queue!bufferVars)
    OBVIOUS
  <2>1. CASE UNCHANGED cycleVars
    BY <2>1 DEF cycleVars, Queue!bufferVars, Content, readSize, readSizeInfo
  <2>2. CASE CycleNext
    BY <2>2, AppendStep, ReadStep, ClearNStep, ClearStep
       DEF CycleNext, Queue!BufferNext
  <2> QED BY <2>1, <2>2
<1> QED BY <1>1, <1>2, CycleTypeInvariant, PTL
        DEF CycleSpec, CycleImplementsQueue, Queue!BufferSpec

-----------------------------------------------------------------------------
\* SameReads is not inductive: the bytes read next are equal because the two
\* buffers hold the same bytes now.
PairInv ==
    /\ CycleTypeOK
    /\ list = Content
    /\ SameReads

\* A chunk that fits goes into both; one that does not goes into neither.
LEMMA PairAppendStep ==
  ASSUME PairInv, NEW d \in Chunks, PairAppend(d)
  PROVE  PairInv'
<1> USE BufferAssumption
<1>1. CycleTypeOK /\ list = Content /\ d \in Seq(Byte) /\ Len(d) \in Nat
  BY DEF PairInv
<1>2. CycleTypeOK' /\ Queue!append(d)
  BY <1>1, AppendStep DEF PairAppend
<1>3. /\ Len(Content) = readSize /\ readSize \in Nat /\ usableSize \in Nat
      /\ readSize + usableSize = Size - 1
  BY <1>1, Sizes, ContentBytes
<1>4. CASE Len(d) <= usableSize
  <2>1. Len(Content) + Len(d) <= Size - 1  BY <1>1, <1>3, <1>4
  <2>2. Content' = Content \o d /\ reply' = [rc |-> 0, data |-> <<>>]
    BY <1>2, <2>1 DEF Queue!append, Queue!Ok, Queue!Answer
  <2>3. list' = list \o d /\ listReply' = [rc |-> 0, data |-> <<>>]
    BY <1>4 DEF PairAppend, L!append
  <2> QED BY <1>1, <1>2, <2>2, <2>3 DEF PairInv, SameReads
<1>5. CASE ~(Len(d) <= usableSize)
  <2>1. ~(Len(Content) + Len(d) <= Size - 1)  BY <1>1, <1>3, <1>5
  <2>2. Content' = Content /\ reply' = [rc |-> -1, data |-> <<>>]
    BY <1>2, <2>1 DEF Queue!append, Queue!Refused, Queue!Answer
  <2>3. list' = list  BY <1>5 DEF PairAppend
  <2>4. reply'.rc # 0  BY <2>2
  <2> QED BY <1>1, <1>2, <2>2, <2>3, <2>4 DEF PairInv, SameReads
<1> QED BY <1>4, <1>5

\* A read asks both for the same prefix of the same bytes.
LEMMA PairReadStep ==
  ASSUME PairInv, NEW n \in Counts, readBufferN(n), L!readBufferN(n)
  PROVE  PairInv'
<1>1. CycleTypeOK /\ list = Content  BY DEF PairInv
<1>2. CycleTypeOK' /\ Queue!readBufferN(n)  BY <1>1, ReadStep
<1>3. Content' = Content /\ list' = list
  BY <1>2 DEF Queue!readBufferN, Queue!Refused, Queue!Answer, L!readBufferN
<1>4. CASE n > Len(Content)
  <2>1. reply'.rc # 0
    BY <1>2, <1>4 DEF Queue!readBufferN, Queue!Refused, Queue!Answer
  <2> QED BY <1>1, <1>2, <1>3, <2>1 DEF PairInv, SameReads
<1>5. CASE ~(n > Len(Content))
  <2>1. reply' = [rc |-> 0, data |-> SubSeq(Content, 1, n)]
    BY <1>2, <1>5 DEF Queue!readBufferN, Queue!Answer
  <2>2. listReply' = [rc |-> 0, data |-> SubSeq(Content, 1, n)]
    BY <1>1, <1>5 DEF L!readBufferN
  <2> QED BY <1>1, <1>2, <1>3, <2>1, <2>2 DEF PairInv, SameReads
<1> QED BY <1>4, <1>5

\* Asked to drop more than they hold, the clamp of the one and the loop of the
\* other both end empty; asked for less, they keep the same suffix.
LEMMA PairClearNStep ==
  ASSUME PairInv, NEW n \in Counts, clearBufferN(n), L!clearBufferN(n)
  PROVE  PairInv'
<1>1. /\ CycleTypeOK /\ list = Content /\ n \in Nat
  BY BufferAssumption DEF PairInv
<1>2. CycleTypeOK' /\ Queue!clearBufferN(n)  BY <1>1, ClearNStep
<1>3. Content \in Seq(Byte) /\ Len(Content) \in Nat  BY <1>1, ContentBytes
<1>4. /\ reply' = [rc |-> 0, data |-> <<>>]
      /\ Content' = IF n >= Len(Content) THEN <<>>
                    ELSE SubSeq(Content, n + 1, Len(Content))
  BY <1>2 DEF Queue!clearBufferN, Queue!Ok, Queue!Answer
<1>5. /\ listReply' = [rc |-> 0, data |-> <<>>]
      /\ list' = SubSeq(Content, n + 1, Len(Content))
  BY <1>1 DEF L!clearBufferN
<1>6. n >= Len(Content) => SubSeq(Content, n + 1, Len(Content)) = <<>>
  BY <1>1, <1>3
<1>7. list' = Content'  BY <1>4, <1>5, <1>6
<1> QED BY <1>2, <1>4, <1>5, <1>7 DEF PairInv, SameReads

\* clear() empties both.
LEMMA PairClearStep ==
  ASSUME PairInv, clear, L!clear
  PROVE  PairInv'
<1>1. CycleTypeOK' /\ Queue!clear  BY ClearStep DEF PairInv
<1> QED BY <1>1 DEF PairInv, SameReads, L!clear, Queue!clear, Queue!Ok, Queue!Answer

\* Every call keeps both buffers holding the same bytes.
THEOREM PairInvariant == PairSpec => []PairInv
<1>1. PairInit => PairInv
  <2> SUFFICES ASSUME PairInit PROVE PairInv  OBVIOUS
  <2>1. CycleTypeOK
    BY BufferAssumption DEF PairInit, CycleInit, CycleTypeOK, Slots
  <2>2. readSize = 0  BY DEF PairInit, CycleInit, readSize, readSizeInfo
  <2>3. Content = <<>>  BY <2>2 DEF Content
  <2> QED BY <2>1, <2>3 DEF PairInit, CycleInit, L!ListInit, PairInv, SameReads
<1>2. PairInv /\ [PairNext]_<<cycleVars, L!listVars>> => PairInv'
  <2> SUFFICES ASSUME PairInv, [PairNext]_<<cycleVars, L!listVars>> PROVE PairInv'
    OBVIOUS
  <2>1. CASE UNCHANGED <<cycleVars, L!listVars>>
    BY <2>1 DEF cycleVars, L!listVars, PairInv, SameReads, CycleTypeOK, Content,
       readSize, readSizeInfo
  <2>2. CASE \E d \in Chunks : PairAppend(d)  BY <2>2, PairAppendStep
  <2>3. CASE \E n \in Counts : readBufferN(n) /\ L!readBufferN(n)
    BY <2>3, PairReadStep
  <2>4. CASE \E n \in Counts : clearBufferN(n) /\ L!clearBufferN(n)
    BY <2>4, PairClearNStep
  <2>5. CASE clear /\ L!clear  BY <2>5, PairClearStep
  <2> QED BY <2>1, <2>2, <2>3, <2>4, <2>5 DEF PairNext
<1> QED BY <1>1, <1>2, PTL DEF PairSpec

\* A program that switches GlobalConfig::BufferModeStatus from the list to the
\* circular buffer reads the same bytes and codes from every call that the
\* circular buffer accepts, whatever its size.
THEOREM BuffersSameReads == PairSpec => []SameReads
<1>1. PairInv => SameReads  BY DEF PairInv
<1> QED BY <1>1, PairInvariant, PTL

\* Driven next to the list, the circular buffer is still the circular buffer:
\* its sizes add up and it implements the byte queue.
THEOREM BuffersKeepQueue == PairSpec => []SizesAddUp /\ CycleImplementsQueue
<1>1. PairInit => CycleInit  BY DEF PairInit
<1>2. [PairNext]_<<cycleVars, L!listVars>> => [CycleNext]_cycleVars
  BY DEF PairNext, CycleNext, PairAppend, cycleVars
<1>3. PairSpec => CycleSpec  BY <1>1, <1>2, PTL DEF PairSpec, CycleSpec
<1> QED BY <1>3, CycleSizes, CycleRefinement, PTL
=============================================================================
