--------------------------- MODULE PingPang_proofs ---------------------------
(***************************************************************************)
(* Theorems about the frame of Packet and about two peers that exchange     *)
(* packets, for every width of a byte, every choice of head and end byte,   *)
(* both byte orders, every set of messages, every length of a read and      *)
(* every capacity with room for a packet and a read.                        *)
(***************************************************************************)
EXTENDS PingPang, SequenceTheorems, WellFoundedInduction, TLAPS

\* Quotient and remainder of a number that fits two digits.
LEMMA TwoDigits ==
  ASSUME NEW n \in Nat, n < NumRange
  PROVE  /\ n \div Base \in Byte /\ n % Base \in Byte
         /\ (n \div Base) * Base + (n % Base) = n
<1> USE PacketAssumption
<1> DEFINE q == n \div Base
           r == n % Base
<1>1. q \in Int /\ r \in 0..(Base - 1) /\ n = Base * q + r
  OBVIOUS
<1>2. Base * q <= n /\ n < Base * (q + 1)  BY <1>1
<1>3. q >= 0  BY <1>1, <1>2
<1>4. q < Base  BY <1>1, <1>2 DEF NumRange
<1>5. q * Base + r = n  BY <1>1
<1> QED BY <1>1, <1>3, <1>4, <1>5 DEF Byte

\* In either byte order UnpackNum() gives back what PackNum() was given, as
\* long as it fits the two bytes.
LEMMA NumRoundTrip ==
  ASSUME NEW n \in Nat, n < NumRange
  PROVE  /\ PackNum(n) \in Seq(Byte) /\ Len(PackNum(n)) = 2
         /\ PackNum(n)[1] \in Byte /\ PackNum(n)[2] \in Byte
         /\ UnpackNum(PackNum(n)[1], PackNum(n)[2]) = n
<1> DEFINE q == n \div Base
           r == n % Base
<1>1. q \in Byte /\ r \in Byte /\ q * Base + r = n  BY TwoDigits
<1>2. PackNum(n) = IF BigEndian THEN <<q, r>> ELSE <<r, q>>  BY DEF PackNum
<1> HIDE DEF q, r
<1> QED BY <1>1, <1>2 DEF UnpackNum

\* Two bytes never make a number outside the two-byte range.
LEMMA NumInRange ==
  ASSUME NEW a \in Byte, NEW b \in Byte
  PROVE  UnpackNum(a, b) \in Nat /\ UnpackNum(a, b) < NumRange
<1> USE PacketAssumption
<1>1. ASSUME NEW x \in Byte, NEW y \in Byte
      PROVE  x * Base + y \in Nat /\ x * Base + y < Base * Base
  <2>1. x \in Nat /\ y \in Nat /\ x <= Base - 1 /\ y <= Base - 1  BY DEF Byte
  <2>2. x * Base \in Nat /\ x * Base <= (Base - 1) * Base  BY <2>1
  <2>3. (Base - 1) * Base = Base * Base - Base  BY <2>1
  <2> QED BY <2>1, <2>2, <2>3
<1> QED BY <1>1 DEF UnpackNum, NumRange

\* The bytes of a frame, one by one.
LEMMA FrameBytes ==
  ASSUME NEW d \in Seq(Byte), Len(d) < NumRange
  PROVE  LET f == pack(d).buffer
         IN  /\ f \in Seq(Byte) /\ Len(f) = Len(d) + PacketMinSize
             /\ f[1] = HeadByte /\ f[Len(d) + PacketMinSize] = EndByte
             /\ UnpackNum(f[2], f[3]) = Len(d)
             /\ \A i \in 1..Len(d) : f[i + 3] = d[i]
<1> USE PacketAssumption DEF PacketMinSize
<1> DEFINE num == PackNum(Len(d))
           h == <<HeadByte>> \o num
           g == h \o d
           f == g \o <<EndByte>>
<1>1. Len(d) \in Nat  OBVIOUS
<1>2. num \in Seq(Byte) /\ Len(num) = 2 /\ UnpackNum(num[1], num[2]) = Len(d)
  BY <1>1, NumRoundTrip
<1>3. pack(d).buffer = f  BY DEF pack
<1> HIDE DEF num
<1>4. /\ h \in Seq(Byte) /\ Len(h) = 3
      /\ h[1] = HeadByte /\ h[2] = num[1] /\ h[3] = num[2]
  <2> DEFINE one == <<HeadByte>>
  <2>1. one \in Seq(Byte) /\ Len(one) = 1 /\ one[1] = HeadByte  OBVIOUS
  <2> HIDE DEF one
  <2>2. /\ one \o num \in Seq(Byte) /\ Len(one \o num) = 1 + 2
        /\ \A i \in 1..(1 + 2) : (one \o num)[i] = IF i <= 1 THEN one[i] ELSE num[i - 1]
    <3>1. /\ one \o num \in Seq(Byte) /\ Len(one \o num) = Len(one) + Len(num)
          /\ \A i \in 1..(Len(one) + Len(num)) :
                (one \o num)[i] = IF i <= Len(one) THEN one[i] ELSE num[i - Len(one)]
      BY <1>2, <2>1, ConcatProperties, Zenon
    <3> QED BY <1>2, <2>1, <3>1, Zenon
  <2> QED BY <2>1, <2>2 DEF h, one
<1> HIDE DEF h
<1>5. /\ g \in Seq(Byte) /\ Len(g) = Len(d) + 3
      /\ g[1] = h[1] /\ g[2] = h[2] /\ g[3] = h[3]
      /\ \A i \in 1..Len(d) : g[i + 3] = d[i]
  <2>1. /\ g \in Seq(Byte) /\ Len(g) = 3 + Len(d)
        /\ \A i \in 1..(3 + Len(d)) : g[i] = IF i <= 3 THEN h[i] ELSE d[i - 3]
    <3>1. /\ h \o d \in Seq(Byte) /\ Len(h \o d) = Len(h) + Len(d)
          /\ \A i \in 1..(Len(h) + Len(d)) :
                (h \o d)[i] = IF i <= Len(h) THEN h[i] ELSE d[i - Len(h)]
      BY <1>4, ConcatProperties, Zenon
    <3> QED BY <1>4, <3>1, Zenon
  <2> HIDE DEF g
  <2>2. \A i \in 1..Len(d) :
          i + 3 \in 1..(3 + Len(d)) /\ ~(i + 3 <= 3) /\ (i + 3) - 3 = i
    BY <1>1
  <2>3. \A i \in 1..Len(d) : g[i + 3] = d[i]  BY <2>1, <2>2
  <2> QED BY <1>1, <2>1, <2>3
<1> HIDE DEF g
<1>6. /\ f \in Seq(Byte) /\ Len(f) = Len(d) + 4
      /\ f[Len(d) + 4] = EndByte
      /\ \A i \in 1..(Len(d) + 3) : f[i] = g[i]
  BY <1>1, <1>5
<1> HIDE DEF f
<1>7. f[1] = HeadByte /\ f[2] = num[1] /\ f[3] = num[2]
  BY <1>1, <1>4, <1>5, <1>6
<1>8. \A i \in 1..Len(d) : f[i + 3] = d[i]  BY <1>1, <1>5, <1>6
<1> QED BY <1>2, <1>3, <1>6, <1>7, <1>8

\* Taking a bytes and then b more is taking a + b.
LEMMA TakeTwice ==
  ASSUME NEW S, NEW s \in Seq(S), NEW a \in Nat, NEW b \in Nat, a + b <= Len(s)
  PROVE  /\ SubSeq(s, 1, a) \o SubSeq(Drop(s, a), 1, b) = SubSeq(s, 1, a + b)
         /\ Drop(Drop(s, a), b) = Drop(s, a + b)
         /\ Drop(s, a) \in Seq(S) /\ Len(Drop(s, a)) = Len(s) - a
         /\ \A i \in 1..(Len(s) - a) : Drop(s, a)[i] = s[i + a]
<1> DEFINE t == Drop(s, a)
<1>1. /\ Len(s) \in Nat /\ t \in Seq(S) /\ Len(t) = Len(s) - a
      /\ \A i \in 1..(Len(s) - a) : t[i] = s[i + a]
  BY DEF Drop
<1>2. SubSeq(s, 1, a) \o SubSeq(t, 1, b) = SubSeq(s, 1, a + b)
  <2> DEFINE u == SubSeq(s, 1, a)
             v == SubSeq(t, 1, b)
             w == SubSeq(s, 1, a + b)
  <2>1. u \in Seq(S) /\ Len(u) = a /\ \A i \in 1..a : u[i] = s[i]
    BY <1>1
  <2>2. v \in Seq(S) /\ Len(v) = b /\ \A i \in 1..b : v[i] = t[i]
    <3> HIDE DEF t
    <3>1. b <= Len(t)  BY <1>1
    <3> QED BY <1>1, <3>1
  <2>3. w \in Seq(S) /\ Len(w) = a + b /\ \A i \in 1..(a + b) : w[i] = s[i]
    BY <1>1
  <2> HIDE DEF t, u, v, w
  <2>4. /\ u \o v \in Seq(S) /\ Len(u \o v) = a + b
        /\ \A i \in 1..(a + b) : (u \o v)[i] = IF i <= a THEN u[i] ELSE v[i - a]
    BY <2>1, <2>2
  <2>5. \A i \in 1..(a + b) : (u \o v)[i] = w[i]
    <3> TAKE i \in 1..(a + b)
    <3>1. CASE i <= a  BY <2>1, <2>3, <2>4, <3>1
    <3>2. CASE ~(i <= a)
      <4>1. i - a \in 1..b /\ (i - a) + a = i  BY <3>2
      <4>2. i - a \in 1..(Len(s) - a)  BY <1>1, <4>1
      <4>3. t[i - a] = s[i]  BY <1>1, <4>1, <4>2
      <4> QED BY <2>2, <2>3, <2>4, <3>2, <4>1, <4>3
    <3> QED BY <3>1, <3>2
  <2>6. Len(u \o v) = Len(w) /\ \A i \in 1..Len(u \o v) : (u \o v)[i] = w[i]
    BY <2>3, <2>4, <2>5, Zenon
  <2>7. u \o v = w  BY <2>3, <2>4, <2>6, SeqEqual, Zenon
  <2> QED BY <2>7 DEF u, v, w
<1>3. Drop(t, b) = Drop(s, a + b)
  <2> DEFINE u == Drop(t, b)
             w == Drop(s, a + b)
             n == Len(s) - (a + b)
  <2>1. w \in Seq(S) /\ Len(w) = n /\ \A i \in 1..n : w[i] = s[i + (a + b)]
    BY <1>1 DEF Drop
  <2>2. b <= Len(t) /\ Len(t) - b = n  BY <1>1
  <2> HIDE DEF t
  <2>3. u \in Seq(S) /\ Len(u) = n /\ \A i \in 1..n : u[i] = t[i + b]
    BY <1>1, <2>2 DEF Drop
  <2> HIDE DEF u, w
  <2>4. \A i \in 1..n : u[i] = w[i]
    <3> TAKE i \in 1..n
    <3>1. i + b \in 1..(Len(s) - a) /\ (i + b) + a = i + (a + b)  BY <1>1
    <3> QED BY <1>1, <2>1, <2>3, <3>1
  <2>5. Len(u) = Len(w) /\ \A i \in 1..Len(u) : u[i] = w[i]
    BY <2>1, <2>3, <2>4, Zenon
  <2>6. u = w  BY <2>1, <2>3, <2>5, SeqEqual, Zenon
  <2> QED BY <2>6 DEF u, w
<1> QED BY <1>1, <1>2, <1>3

\* What is taken off a joined string is what was put there.
LEMMA TakeJoined ==
  ASSUME NEW S, NEW a \in Seq(S), NEW b \in Seq(S)
  PROVE  SubSeq(a \o b, 1, Len(a)) = a /\ Drop(a \o b, Len(a)) = b
<1> DEFINE m == Len(a)
           n == Len(b)
           c == a \o b
           u == SubSeq(c, 1, m)
           v == Drop(c, m)
<1>1. m \in Nat /\ n \in Nat  OBVIOUS
<1>2. /\ c \in Seq(S) /\ Len(c) = m + n
      /\ \A i \in 1..(m + n) : c[i] = IF i <= m THEN a[i] ELSE b[i - m]
  BY ConcatProperties, Zenon
<1> HIDE DEF c
<1>3. u \in Seq(S) /\ Len(u) = m /\ \A i \in 1..m : u[i] = c[i]
  <2> HIDE DEF m, n
  <2> QED BY <1>1, <1>2
<1>4. v \in Seq(S) /\ Len(v) = n /\ \A i \in 1..n : v[i] = c[i + m]
  <2> HIDE DEF m, n
  <2> QED BY <1>1, <1>2 DEF Drop
<1>5. \A i \in 1..m : u[i] = a[i]
  <2> HIDE DEF u, m, n
  <2> QED BY <1>1, <1>2, <1>3
<1>6. \A i \in 1..n : v[i] = b[i]
  <2> HIDE DEF v, m, n
  <2> TAKE i \in 1..n
  <2>1. i + m \in 1..(m + n) /\ ~(i + m <= m) /\ (i + m) - m = i  BY <1>1
  <2>2. c[i + m] = b[(i + m) - m]  BY <1>2, <2>1
  <2> QED BY <1>4, <2>1, <2>2
<1> HIDE DEF u, v
<1>7. Len(u) = Len(a) /\ \A i \in 1..Len(u) : u[i] = a[i]  BY <1>3, <1>5, Zenon
<1>8. Len(v) = Len(b) /\ \A i \in 1..Len(v) : v[i] = b[i]  BY <1>4, <1>6, Zenon
<1>9. u = a  BY <1>3, <1>7, SeqEqual, Zenon
<1>10. v = b  BY <1>4, <1>8, SeqEqual, Zenon
<1> QED BY <1>9, <1>10 DEF u, v, c

\* What a pass does with a header that announces k bytes when they and the end
\* byte have arrived: it takes exactly the frame, if the end byte is there.
LEMMA WholeFramePass ==
  ASSUME NEW s \in Seq(Byte), NEW k \in Nat, k + PacketMinSize <= Len(s),
         s[1] = HeadByte, UnpackNum(s[2], s[3]) = k
  PROVE  ReadPass(s, <<>>) =
           IF s[k + PacketMinSize] = EndByte
             THEN Outcome("read", Drop(s, k + PacketMinSize),
                          SubSeq(s, 1, k + PacketMinSize))
             ELSE Outcome("on", Drop(s, 3), SubSeq(s, 1, k + PacketMinSize))
<1> USE PacketAssumption DEF PacketMinSize
<1> DEFINE seen == SubSeq(s, 1, 3)
           t == Drop(s, 3)
           whole == SubSeq(s, 1, k + 4)
<1>1. Len(s) \in Nat /\ Len(s) >= 4  OBVIOUS
<1>2. /\ seen \in Seq(Byte) /\ Len(seen) = 3
      /\ seen[1] = s[1] /\ seen[2] = s[2] /\ seen[3] = s[3]
  BY <1>1
<1>3. <<>> \o seen = seen  BY <1>2, ConcatEmptySeq
<1>4. /\ seen \o SubSeq(t, 1, k + 1) = whole
      /\ Drop(t, k + 1) = Drop(s, k + 4)
      /\ Len(t) = Len(s) - 3
  <2> DEFINE a == 3
             b == k + 1
  <2>1. a \in Nat /\ b \in Nat /\ a + b <= Len(s) /\ a + b = k + 4  BY <1>1
  <2> HIDE DEF seen, t, whole, a, b
  <2>2. /\ SubSeq(s, 1, a) \o SubSeq(Drop(s, a), 1, b) = SubSeq(s, 1, a + b)
        /\ Drop(Drop(s, a), b) = Drop(s, a + b)
        /\ Len(Drop(s, a)) = Len(s) - a
    <3>1. s \in Seq(Byte) /\ a \in Nat /\ b \in Nat /\ a + b <= Len(s)  BY <2>1
    <3> QED BY ONLY <3>1, TakeTwice
  <2> QED BY <2>1, <2>2 DEF seen, t, whole, a, b
<1>5. whole \in Seq(Byte) /\ Len(whole) = k + 4 /\ whole[k + 4] = s[k + 4]
  BY <1>1
<1> HIDE DEF seen, t, whole
<1>6. ~((k + 1) > Len(t))  BY <1>1, <1>4
<1>7. (k + 4) % NumRange <= k + 4
  BY DEF NumRange
<1>8. ~Incomplete(Len(s), (k + 4) % NumRange)
  <2>1. (k + 4) % NumRange \in Nat  BY DEF NumRange
  <2> QED BY <1>1, <1>7, <2>1 DEF Incomplete
<1>9. ReadPass(s, <<>>) = Body(t, seen, k)
  <2>1. ~(Len(s) < 4)  BY <1>1
  <2> QED BY <1>2, <1>3, <1>8, <2>1 DEF ReadPass, seen, t
<1>10. Body(t, seen, k) = IF whole[Len(whole)] = EndByte
                            THEN Outcome("read", Drop(t, k + 1), whole)
                            ELSE Outcome("on", t, whole)
  BY <1>4, <1>6 DEF Body
<1>11. whole[Len(whole)] = s[k + 4]  BY <1>5
<1> QED BY <1>4, <1>9, <1>10, <1>11 DEF whole, t

\* Packet::readFromBuffer() takes off a stream exactly the frame that pack()
\* put in front of it, whatever the message holds, head and end bytes
\* included, whatever follows, and up to the largest size two bytes can say;
\* the packet swap() makes of it is well formed and carries the message.
THEOREM FrameRoundTrip ==
  ASSUME NEW d \in Seq(Byte), Len(d) < NumRange, NEW rest \in Seq(Byte)
  PROVE  LET f == pack(d).buffer
         IN  /\ ReadPass(f \o rest, <<>>) = Outcome("read", rest, f)
             /\ WellFormed(Swapped(f))
             /\ getData(Swapped(f)) = d
<1> USE PacketAssumption DEF PacketMinSize
<1> DEFINE f == pack(d).buffer
           k == Len(d)
           s == f \o rest
<1>1. k \in Nat /\ k < NumRange /\ NumRange \in Nat \ {0}  BY DEF NumRange
<1>2. /\ f \in Seq(Byte) /\ Len(f) = k + 4
      /\ f[1] = HeadByte /\ f[k + 4] = EndByte
      /\ UnpackNum(f[2], f[3]) = k
      /\ \A i \in 1..k : f[i + 3] = d[i]
  BY FrameBytes
<1> HIDE DEF f
<1>3. ReadPass(s, <<>>) = Outcome("read", rest, f)
  <2>1. SubSeq(s, 1, Len(f)) = f /\ Drop(s, Len(f)) = rest
    BY <1>2, TakeJoined, Zenon
  <2>2. /\ s \in Seq(Byte) /\ Len(s) = Len(f) + Len(rest)
        /\ \A i \in 1..(Len(f) + Len(rest)) :
              s[i] = IF i <= Len(f) THEN f[i] ELSE rest[i - Len(f)]
    BY <1>2, ConcatProperties, Zenon
  <2>3. Len(rest) \in Nat  OBVIOUS
  <2> HIDE DEF k, s
  <2>4. \A i \in 1..(k + 4) : s[i] = f[i]
    BY <1>1, <1>2, <2>2, <2>3
  <2>5. k + 4 <= Len(s)  BY <1>1, <1>2, <2>2, <2>3
  <2>6. s[1] = HeadByte /\ UnpackNum(s[2], s[3]) = k /\ s[k + 4] = EndByte
    BY <1>1, <1>2, <2>4
  <2>7. ReadPass(s, <<>>) = Outcome("read", Drop(s, k + 4), SubSeq(s, 1, k + 4))
    BY <1>1, <2>2, <2>5, <2>6, WholeFramePass
  <2> QED BY <1>2, <2>1, <2>7
<1>4. Swapped(f).dataSize = k
  <2>1. Len(f) - 4 = k  BY <1>1, <1>2
  <2>2. k % NumRange = k
    <3> HIDE DEF k
    <3> QED BY <1>1
  <2> QED BY <2>1, <2>2 DEF Swapped
<1>5. Swapped(f).buffer = f  BY DEF Swapped
<1>6. WellFormed(Swapped(f))
  <2> HIDE DEF k
  <2> QED BY <1>1, <1>2, <1>4, <1>5 DEF WellFormed
<1>7. getData(Swapped(f)) = d
  <2> DEFINE e == SubSeq(f, 4, 3 + k)
  <2>1. getData(Swapped(f)) = e
    <3>1. 4 - 1 + k = 3 + k  BY <1>1
    <3> QED BY <1>4, <1>5, <3>1 DEF getData
  <2>2. e \in Seq(Byte) /\ Len(e) = k /\ \A i \in 1..k : e[i] = f[i + 3]
    <3> HIDE DEF k
    <3> QED BY <1>1, <1>2
  <2> HIDE DEF e
  <2>3. Len(e) = Len(d) /\ \A i \in 1..Len(e) : e[i] = d[i]
    BY <1>2, <2>2, Zenon
  <2>4. e = d  BY <2>2, <2>3, SeqEqual, Zenon
  <2> QED BY <2>1, <2>4
<1> QED BY <1>3, <1>6, <1>7 DEF f

\* The header of a frame can be read from any part of it that has four bytes.
LEMMA PartHeader ==
  ASSUME NEW d \in Seq(Byte), Len(d) < NumRange,
         NEW n \in PacketMinSize..(Len(d) + PacketMinSize)
  PROVE  LET part == SubSeq(pack(d).buffer, 1, n)
             seen == <<>> \o SubSeq(part, 1, 3)
         IN  /\ part \in Seq(Byte) /\ Len(part) = n
             /\ part[1] = HeadByte /\ UnpackNum(part[2], part[3]) = Len(d)
             /\ seen[1] = HeadByte /\ UnpackNum(seen[2], seen[3]) = Len(d)
<1> USE DEF PacketMinSize
<1> DEFINE f == pack(d).buffer
           k == Len(d)
           part == SubSeq(f, 1, n)
           three == SubSeq(part, 1, 3)
<1>1. /\ k \in Nat /\ f \in Seq(Byte) /\ Len(f) = k + 4
      /\ f[1] = HeadByte /\ UnpackNum(f[2], f[3]) = k
  BY FrameBytes
<1> HIDE DEF f, k
<1>2. n \in Nat /\ n >= 4 /\ n <= k + 4  BY <1>1 DEF k
<1>3. part \in Seq(Byte) /\ Len(part) = n /\ \A i \in 1..n : part[i] = f[i]
  BY <1>1, <1>2
<1> HIDE DEF part
<1>4. part[1] = f[1] /\ part[2] = f[2] /\ part[3] = f[3]  BY <1>2, <1>3
<1>5. /\ three \in Seq(Byte)
      /\ three[1] = part[1] /\ three[2] = part[2] /\ three[3] = part[3]
  BY <1>2, <1>3
<1>6. <<>> \o three = three  BY <1>5, ConcatEmptySeq
<1> HIDE DEF three
<1>7. /\ part[1] = HeadByte /\ UnpackNum(part[2], part[3]) = k
      /\ (<<>> \o three)[1] = HeadByte
      /\ UnpackNum((<<>> \o three)[2], (<<>> \o three)[3]) = k
  BY <1>1, <1>4, <1>5, <1>6
<1> QED BY <1>3, <1>7 DEF f, k, part, three

\* However TCP cuts a frame, readFromBuffer() leaves an unfinished one in the
\* buffer untouched and asks for more, as long as the whole frame is no longer
\* than the uint16_t that holds its length can say.
THEOREM UnfinishedFrameWaits ==
  ASSUME NEW d \in Seq(Byte), Len(d) + PacketMinSize < NumRange,
         NEW n \in 0..(Len(d) + PacketMinSize - 1)
  PROVE  LET part == SubSeq(pack(d).buffer, 1, n)
         IN  ReadPass(part, <<>>) = Outcome("more", part, <<>>)
<1> USE DEF PacketMinSize
<1> DEFINE k == Len(d)
           part == SubSeq(pack(d).buffer, 1, n)
           seen == <<>> \o SubSeq(part, 1, 3)
<1>1. /\ NumRange \in Nat /\ k \in Nat /\ k + 4 < NumRange /\ k < NumRange
      /\ n \in Nat /\ n < k + 4
  BY PacketAssumption DEF NumRange
<1>2. Len(part) = n
  <2>1. pack(d).buffer \in Seq(Byte) /\ Len(pack(d).buffer) = k + 4
    BY <1>1, FrameBytes
  <2> HIDE DEF k
  <2> QED BY <1>1, <2>1
<1>3. CASE n < 4  BY <1>2, <1>3 DEF ReadPass
<1>4. CASE ~(n < 4)
  <2>1. n \in 4..(k + 4)
    <3> HIDE DEF k
    <3> QED BY <1>1, <1>4
  <2>2. seen[1] = HeadByte /\ UnpackNum(seen[2], seen[3]) = k
    BY <1>1, <2>1, PartHeader
  <2>3. (k + 4) % NumRange = k + 4
    <3> HIDE DEF k
    <3> QED BY <1>1
  <2>4. Incomplete(Len(part), (k + 4) % NumRange)
    BY <1>1, <1>2, <2>3 DEF Incomplete
  <2> HIDE DEF part, k
  <2>5. ReadPass(part, <<>>) = Outcome("more", part, <<>>)
    BY <1>2, <1>4, <2>2, <2>4 DEF ReadPass
  <2> QED BY <2>5 DEF part
<1> QED BY <1>3, <1>4

\* The bound of UnfinishedFrameWaits is exact.  A message longer than that
\* still fits the size field and is read back when all of it is there, but
\* its length wraps to less than a header: a pass that sees a part of it
\* never waits for the rest.
THEOREM LongFrameNotAwaited ==
  ASSUME NEW d \in Seq(Byte), Len(d) < NumRange,
         Len(d) + PacketMinSize >= NumRange,
         NEW n \in PacketMinSize..(Len(d) + PacketMinSize)
  PROVE  ReadPass(SubSeq(pack(d).buffer, 1, n), <<>>).state # "more"
<1> USE DEF PacketMinSize
<1> DEFINE k == Len(d)
           part == SubSeq(pack(d).buffer, 1, n)
           seen == <<>> \o SubSeq(part, 1, 3)
<1>1. /\ NumRange \in Nat /\ NumRange >= 4 /\ k \in Nat
      /\ k < NumRange /\ k + 4 >= NumRange /\ n \in Nat /\ n >= 4
  BY PacketAssumption DEF NumRange
<1>2. /\ part \in Seq(Byte) /\ Len(part) = n
      /\ seen[1] = HeadByte /\ UnpackNum(seen[2], seen[3]) = k
  BY PartHeader
<1>3. (k + 4) % NumRange \in Nat /\ (k + 4) % NumRange < 4
  <2> HIDE DEF k
  <2>1. k + 4 - NumRange \in 0..3  BY <1>1
  <2>2. (k + 4) % NumRange = (k + 4 - NumRange) % NumRange  BY <1>1
  <2>3. (k + 4 - NumRange) % NumRange = k + 4 - NumRange  BY <1>1, <2>1
  <2> QED BY <2>1, <2>2, <2>3
<1>4. ~Incomplete(Len(part), (k + 4) % NumRange)
  BY <1>1, <1>2, <1>3 DEF Incomplete
<1> HIDE DEF part, k
<1>5. ReadPass(part, <<>>) = Body(Drop(part, 3), seen, k)
  BY <1>1, <1>2, <1>4 DEF ReadPass
<1>6. Body(Drop(part, 3), seen, k).state # "more"
  BY DEF Body, Outcome
<1> QED BY <1>5, <1>6 DEF part

\* Whatever bytes arrive, a packet that a fresh pass of readFromBuffer() reads
\* is a well-formed frame, and no byte is lost or invented: the packet and
\* what stays in the buffer are the bytes there were.  Size fields whose frame
\* overflows uint16_t are excepted.
THEOREM ReadIsWellFormed ==
  ASSUME NEW s \in Seq(Byte), ReadPass(s, <<>>).state = "read",
         UnpackNum(s[2], s[3]) + PacketMinSize < NumRange
  PROVE  LET r == ReadPass(s, <<>>)
         IN  WellFormed(Swapped(r.data)) /\ s = r.data \o r.bytes
<1> USE DEF PacketMinSize
<1> DEFINE r == ReadPass(s, <<>>)
           k == UnpackNum(s[2], s[3])
           three == SubSeq(s, 1, 3)
           seen == <<>> \o three
<1>1. Len(s) \in Nat /\ Len(s) >= 4
  <2>1. Len(s) \in Nat  OBVIOUS
  <2>2. Len(s) < 4 => r.state = "more"  BY DEF ReadPass, Outcome
  <2> QED BY <2>1, <2>2
<1>2. /\ three \in Seq(Byte)
      /\ three[1] = s[1] /\ three[2] = s[2] /\ three[3] = s[3]
      /\ s[2] \in Byte /\ s[3] \in Byte
  BY <1>1
<1>3. seen = three  BY <1>2, ConcatEmptySeq
<1>4. k \in Nat /\ NumRange \in Nat /\ k + 4 < NumRange
  <2>1. k \in Nat  BY <1>2, NumInRange
  <2>2. NumRange \in Nat  BY PacketAssumption DEF NumRange
  <2> QED BY <2>1, <2>2
<1> HIDE DEF three
<1>5. s[1] = HeadByte
  <2>1. s[1] # HeadByte => r = Outcome("on", Tail(s), <<>>)
    BY <1>1, <1>2, <1>3 DEF ReadPass, three
  <2> QED BY <2>1 DEF Outcome
<1>6. k + 4 <= Len(s)
  <2>1. Incomplete(Len(s), (k + 4) % NumRange) => r = Outcome("more", s, <<>>)
    BY <1>1, <1>2, <1>3, <1>5 DEF ReadPass, three
  <2>2. (k + 4) % NumRange = k + 4
    <3> HIDE DEF k
    <3> QED BY <1>4
  <2>3. ~Incomplete(Len(s), k + 4)  BY <2>1, <2>2 DEF Outcome
  <2> HIDE DEF k
  <2> QED BY <1>1, <1>4, <2>3 DEF Incomplete
<1>7. r = IF s[k + 4] = EndByte THEN Outcome("read", Drop(s, k + 4), SubSeq(s, 1, k + 4))
          ELSE Outcome("on", Drop(s, 3), SubSeq(s, 1, k + 4))
  BY <1>4, <1>5, <1>6, WholeFramePass
<1>8. /\ s[k + 4] = EndByte
      /\ r.data = SubSeq(s, 1, k + 4) /\ r.bytes = Drop(s, k + 4)
  BY <1>7 DEF Outcome
<1> DEFINE w == SubSeq(s, 1, k + 4)
<1>9. /\ w \in Seq(Byte) /\ Len(w) = k + 4
      /\ w[1] = s[1] /\ w[2] = s[2] /\ w[3] = s[3] /\ w[k + 4] = s[k + 4]
  <2> HIDE DEF k
  <2> QED BY <1>1, <1>4, <1>6
<1>10. WellFormed(Swapped(w))
  <2>1. (Len(w) - 4) % NumRange = k
    <3> HIDE DEF k, w
    <3> QED BY <1>4, <1>9
  <2>2. Swapped(w) = [buffer |-> w, dataSize |-> k]  BY <2>1 DEF Swapped
  <2>3. UnpackNum(w[2], w[3]) = k  BY <1>9
  <2> HIDE DEF k, w
  <2> QED BY <1>4, <1>5, <1>8, <1>9, <2>2, <2>3 DEF WellFormed
<1>11. s = w \o Drop(s, k + 4)
  <2> DEFINE m == k + 4
             all == SubSeq(s, 1, Len(s))
  <2>1. m \in Nat /\ Len(s) - m \in Nat /\ m + (Len(s) - m) = Len(s)
    <3> HIDE DEF k
    <3> QED BY <1>1, <1>4, <1>6
  <2> HIDE DEF m
  <2> DEFINE b == Len(s) - m
             u == Drop(s, m)
  <2>2. s \in Seq(Byte) /\ m \in Nat /\ b \in Nat /\ m + b <= Len(s)  BY <1>1, <2>1
  <2>3. SubSeq(s, 1, m) \o SubSeq(u, 1, b) = SubSeq(s, 1, m + b)
    <3> HIDE DEF b
    <3> QED BY ONLY <2>2, TakeTwice DEF u
  <2>4. u \in Seq(Byte) /\ Len(u) = b
    <3>1. ASSUME NEW c \in Nat, m + c <= Len(s)
          PROVE  Drop(s, m) \in Seq(Byte) /\ Len(Drop(s, m)) = Len(s) - m
      BY <2>2, <3>1, TakeTwice
    <3> QED BY <2>2, <3>1
  <2>5. SubSeq(u, 1, b) = u
    <3> HIDE DEF u, b
    <3> QED BY <2>2, <2>4
  <2>6. SubSeq(s, 1, m + b) = s  BY <1>1, <2>1
  <2> QED BY <2>3, <2>5, <2>6 DEF m
<1> HIDE DEF w, k
<1> QED BY <1>8, <1>10, <1>11 DEF w

-----------------------------------------------------------------------------
(* Induction over data, from the well-foundedness of the numbers.          *)

Less == {p \in Nat \X Nat : p[1] < p[2]}

\* Every set of numbers that is not empty has a least one.
LEMMA Least ==
  ASSUME NEW T \in SUBSET Nat, T # {}
  PROVE  \E x \in T : \A y \in T : x <= y
<1>1. IsWellFoundedOn(Less, Nat)  BY NatLessThanWellFounded DEF OpToRel, Less
<1>2. PICK x \in T : \A y \in T : <<y, x>> \notin Less  BY <1>1, WFMin
<1>3. \A y \in T : ~(y < x)  BY <1>2 DEF Less
<1> QED BY <1>3

\* Induction for a set of numbers.
LEMMA SetInduction ==
  ASSUME NEW T \in SUBSET Nat, 0 \in T, \A n \in T : n + 1 \in T
  PROVE  T = Nat
<1> SUFFICES ASSUME T # Nat PROVE FALSE  OBVIOUS
<1> DEFINE C == Nat \ T
<1>1. C # {} /\ C \in SUBSET Nat  OBVIOUS
<1>2. PICK x \in C : \A y \in C : x <= y  BY <1>1, Least
<1>3. x - 1 \in T /\ (x - 1) + 1 = x  BY <1>2
<1> QED BY <1>2, <1>3

\* What Phi says of an argument depends on smaller arguments only.
Recursive(S, V, m, Phi) ==
    \A g \in [S -> V], h \in [S -> V], x \in S :
        (\A y \in S : m[y] < m[x] => g[y] = h[y]) => Phi[g][x] = Phi[h][x]

\* Some function is what Phi makes of it.
HasFixpoint(S, V, Phi) == \E f \in [S -> V] : f = Phi[f]

\* A function that is defined through its values at smaller arguments exists.
\* Phi is the right-hand side of the definition as a function of the function
\* it speaks of, m the size of an argument.
LEMMA RecursiveDefinition ==
  ASSUME NEW S, NEW V, NEW v0 \in V, NEW m \in [S -> Nat],
         NEW Phi \in [[S -> V] -> [S -> V]], Recursive(S, V, m, Phi)
  PROVE  HasFixpoint(S, V, Phi)
<1> DEFINE Fs == [S -> V]
           UpTo(n, g) == \A x \in S : m[x] < n => g[x] = Phi[g][x]
           Agree(n) == \A g \in Fs, h \in Fs : UpTo(n, g) /\ UpTo(n, h)
                          => \A x \in S : m[x] < n => g[x] = h[x]
           Exists(n) == \E g \in Fs : UpTo(n, g)
<1>0. ASSUME NEW g \in Fs, NEW h \in Fs, NEW x \in S,
             \A y \in S : m[y] < m[x] => g[y] = h[y]
      PROVE  Phi[g][x] = Phi[h][x]
  BY <1>0 DEF Recursive
<1>1. \A x \in S : m[x] \in Nat  OBVIOUS
<1>p. \A g \in Fs : Phi[g] \in Fs  OBVIOUS
<1>2. \A n \in Nat : Agree(n)
  <2> DEFINE T == {n \in Nat : Agree(n)}
  <2>1. 0 \in T  BY <1>1
  <2>2. ASSUME NEW n \in Nat, Agree(n) PROVE Agree(n + 1)
    <3> SUFFICES ASSUME NEW g \in Fs, NEW h \in Fs,
                        UpTo(n + 1, g), UpTo(n + 1, h),
                        NEW x \in S, m[x] < n + 1
                 PROVE  g[x] = h[x]
      OBVIOUS
    <3>1. UpTo(n, g) /\ UpTo(n, h)  BY <1>1
    <3>2. \A y \in S : m[y] < n => g[y] = h[y]  BY <2>2, <3>1
    <3>3. \A y \in S : m[y] < m[x] => g[y] = h[y]  BY <1>1, <3>2
    <3>4. Phi[g][x] = Phi[h][x]  BY <1>0, <3>3
    <3> QED BY <3>4
  <2> HIDE DEF Agree
  <2>3. T \in SUBSET Nat /\ \A n \in T : n + 1 \in T  BY <2>2
  <2> HIDE DEF T
  <2>4. T = Nat  BY <2>1, <2>3, SetInduction
  <2> QED BY <2>4 DEF T
<1>3. \A n \in Nat : Exists(n)
  <2> DEFINE T == {n \in Nat : Exists(n)}
  <2>1. 0 \in T
    <3>1. [x \in S |-> v0] \in Fs  OBVIOUS
    <3>2. UpTo(0, [x \in S |-> v0])  BY <1>1
    <3> QED BY <3>1, <3>2
  <2>2. ASSUME NEW n \in Nat, Exists(n) PROVE Exists(n + 1)
    <3>0. PICK g \in Fs : UpTo(n, g)  BY <2>2
    <3> DEFINE h == Phi[g]
    <3>1. h \in Fs  BY <1>p
    <3>2. ASSUME NEW x \in S, m[x] < n + 1
          PROVE  h[x] = Phi[h][x]
      <4>1. \A y \in S : m[y] < m[x] => g[y] = h[y]  BY <1>1, <3>0, <3>2
      <4> HIDE DEF h
      <4>2. Phi[g][x] = Phi[h][x]  BY <1>0, <3>1, <4>1
      <4> QED BY <4>2 DEF h
    <3> HIDE DEF h
    <3> QED BY <3>1, <3>2
  <2> HIDE DEF Exists
  <2>3. T \in SUBSET Nat /\ \A n \in T : n + 1 \in T  BY <2>2
  <2> HIDE DEF T
  <2>4. T = Nat  BY <2>1, <2>3, SetInduction
  <2> QED BY <2>4 DEF T
<1> DEFINE G(n) == CHOOSE g \in Fs : UpTo(n, g)
           f == [x \in S |-> G(m[x] + 1)[x]]
<1>4. \A n \in Nat : G(n) \in Fs /\ UpTo(n, G(n))  BY <1>3
<1> HIDE DEF G
<1>5. f \in Fs  BY <1>1, <1>4
<1>6. ASSUME NEW x \in S PROVE f[x] = Phi[f][x]
  <2> DEFINE g == G(m[x] + 1)
  <2>1. m[x] + 1 \in Nat  BY <1>1
  <2>2. g \in Fs /\ g[x] = Phi[g][x] /\ UpTo(m[x] + 1, g)  BY <1>1, <1>4, <2>1
  <2>3. ASSUME NEW y \in S, m[y] < m[x] PROVE f[y] = g[y]
    <3> DEFINE h == G(m[y] + 1)
    <3>1. m[y] + 1 \in Nat /\ h \in Fs /\ UpTo(m[y] + 1, h)  BY <1>1, <1>4
    <3>2. UpTo(m[y] + 1, g)
      <4> HIDE DEF g
      <4> QED BY <1>1, <2>2, <2>3
    <3>3. h[y] = g[y]
      <4> HIDE DEF g, h
      <4> QED BY <1>1, <1>2, <2>2, <3>1, <3>2
    <3> QED BY <3>3
  <2> HIDE DEF g, f
  <2>4. Phi[f][x] = Phi[g][x]  BY <1>0, <1>5, <2>2, <2>3
  <2> QED BY <2>2, <2>4 DEF f, g
<1> HIDE DEF f
<1>7. Phi[f] \in Fs  BY <1>p, <1>5
<1>8. f = Phi[f]  BY <1>5, <1>6, <1>7
<1> QED BY <1>5, <1>8 DEF HasFixpoint

\* The values of two functions follow in the same way from smaller arguments.
Alike(S, m, f, g) ==
    /\ f = [x \in S |-> f[x]] /\ g = [x \in S |-> g[x]]
    /\ \A x \in S : (\A y \in S : m[y] < m[x] => f[y] = g[y]) => f[x] = g[x]

\* Two functions agree if each value follows from the values at smaller
\* arguments in the same way.
LEMMA SameFunction ==
  ASSUME NEW S, NEW m \in [S -> Nat], NEW f, NEW g, Alike(S, m, f, g)
  PROVE  f = g
<1> USE DEF Alike
<1> SUFFICES ASSUME NEW z \in S, f[z] # g[z] PROVE FALSE  OBVIOUS
<1> DEFINE T == {m[x] : x \in {x \in S : f[x] # g[x]}}
<1>1. T \in SUBSET Nat /\ T # {}  OBVIOUS
<1>2. PICK n \in T : \A k \in T : n <= k
  <2> HIDE DEF T
  <2> QED BY <1>1, Least
<1>3. PICK x \in S : f[x] # g[x] /\ m[x] = n  OBVIOUS
<1>4. \A y \in S : m[y] < m[x] => f[y] = g[y]
  <2> SUFFICES ASSUME NEW y \in S, m[y] < m[x], f[y] # g[y] PROVE FALSE  OBVIOUS
  <2>1. m[y] \in T  OBVIOUS
  <2>2. n <= m[y]  BY <1>2, <2>1
  <2>3. n \in Nat /\ m[y] \in Nat  BY <1>1
  <2> QED BY <1>3, <2>2, <2>3
<1> QED BY <1>3, <1>4

-----------------------------------------------------------------------------
(* The loop of readFromBuffer().                                           *)

\* What is left of a string, however much is taken off it.
LEMMA DropType ==
  ASSUME NEW S, NEW s \in Seq(S), NEW n \in Nat
  PROVE  /\ Drop(s, n) \in Seq(S)
         /\ Len(Drop(s, n)) = IF n <= Len(s) THEN Len(s) - n ELSE 0
<1>1. Len(s) \in Nat /\ n + 1 \in Int /\ Len(s) \in Int  OBVIOUS
<1>2. \A i \in (n + 1)..Len(s) : s[i] \in S  BY <1>1
<1>3. /\ SubSeq(s, n + 1, Len(s)) \in Seq(S)
      /\ Len(SubSeq(s, n + 1, Len(s)))
           = IF n + 1 <= Len(s) THEN Len(s) - (n + 1) + 1 ELSE 0
  BY <1>1, <1>2, SubSeqProperties
<1> QED BY <1>1, <1>3 DEF Drop

\* An outcome is one.
LEMMA OutcomeType ==
  ASSUME NEW state \in {"more", "read", "on"},
         NEW bytes \in Seq(Byte), NEW data \in Seq(Byte)
  PROVE  /\ Outcome(state, bytes, data) \in Outcomes
         /\ Outcome(state, bytes, data).state = state
         /\ Outcome(state, bytes, data).bytes = bytes
         /\ Outcome(state, bytes, data).data = data
BY DEF Outcome, Outcomes

\* A pass through the loop of readFromBuffer() has an outcome whatever the
\* buffer holds and whatever data has accumulated, and one that does not wait
\* for more bytes takes some off the buffer: the loop ends.
LEMMA PassProgress ==
  ASSUME NEW bytes \in Seq(Byte), NEW data \in Seq(Byte)
  PROVE  LET r == ReadPass(bytes, data)
         IN  /\ r \in Outcomes
             /\ r.state # "more" => Len(r.bytes) < Len(bytes)
<1> USE DEF PacketMinSize
<1> DEFINE r == ReadPass(bytes, data)
           Good(q) == q \in Outcomes /\ (q.state # "more" => Len(q.bytes) < Len(bytes))
           three == SubSeq(bytes, 1, 3)
           seen == data \o three
           k == UnpackNum(seen[2], seen[3])
<1>0. Len(bytes) \in Nat  OBVIOUS
<1>1. CASE Len(bytes) < 4
  <2>1. r = Outcome("more", bytes, data)  BY <1>1 DEF ReadPass
  <2> QED BY <2>1, OutcomeType
<1>2. CASE ~(Len(bytes) < 4)
  <2>1. three \in Seq(Byte) /\ Len(three) = 3  BY <1>0, <1>2
  <2> HIDE DEF three
  <2>2. seen \in Seq(Byte) /\ Len(seen) \in Nat /\ Len(seen) >= 3
    <3>1. seen \in Seq(Byte) /\ Len(seen) = Len(data) + Len(three)
      BY <2>1, ConcatProperties, Zenon
    <3>2. Len(data) \in Nat  OBVIOUS
    <3> HIDE DEF seen
    <3> QED BY <2>1, <3>1, <3>2
  <2> HIDE DEF seen
  <2>3. seen[2] \in Byte /\ seen[3] \in Byte  BY <2>2
  <2>4. k \in Nat  BY <2>3, NumInRange
  <2> HIDE DEF k
  <2>5. CASE seen[1] # HeadByte
    <3>1. r = Outcome("on", Tail(bytes), <<>>)
      BY <1>2, <2>5 DEF ReadPass, seen, three
    <3>2. Tail(bytes) \in Seq(Byte) /\ Len(Tail(bytes)) < Len(bytes)  BY <1>0, <1>2
    <3>3. /\ Outcome("on", Tail(bytes), <<>>) \in Outcomes
          /\ Outcome("on", Tail(bytes), <<>>).bytes = Tail(bytes)
      <4>1. <<>> \in Seq(Byte)  OBVIOUS
      <4> QED BY <3>2, <4>1 DEF Outcome, Outcomes
    <3> QED BY <3>1, <3>2, <3>3
  <2>6. CASE seen[1] = HeadByte /\ Incomplete(Len(bytes), (k + 4) % NumRange)
    <3>1. r = Outcome("more", bytes, data)
      BY <1>2, <2>6 DEF ReadPass, seen, three, k
    <3> QED BY <3>1, OutcomeType
  <2>7. CASE seen[1] = HeadByte /\ ~Incomplete(Len(bytes), (k + 4) % NumRange)
    <3> DEFINE t == Drop(bytes, 3)
               whole == IF k + 1 > Len(t) THEN seen ELSE seen \o SubSeq(t, 1, k + 1)
               u == Drop(t, k + 1)
    <3>1. r = Body(t, seen, k)
      BY <1>2, <2>7 DEF ReadPass, seen, three, k
    <3>2. t \in Seq(Byte) /\ Len(t) = Len(bytes) - 3 /\ Len(t) \in Nat
      <4>1. 3 \in Nat  OBVIOUS
      <4>2. t \in Seq(Byte) /\ Len(t) = IF 3 <= Len(bytes) THEN Len(bytes) - 3 ELSE 0
        BY <4>1, DropType
      <4> HIDE DEF t
      <4> QED BY <1>0, <1>2, <4>2
    <3> HIDE DEF t
    <3>3. whole \in Seq(Byte)
      <4>1. CASE k + 1 > Len(t)  BY <2>2, <4>1
      <4>2. CASE ~(k + 1 > Len(t))
        <5> DEFINE v == SubSeq(t, 1, k + 1)
        <5>1. v \in Seq(Byte)  BY <2>4, <3>2, <4>2
        <5> HIDE DEF v
        <5>2. seen \o v \in Seq(Byte)  BY <2>2, <5>1, ConcatProperties, Zenon
        <5> QED BY <4>2, <5>2 DEF v
      <4> QED BY <4>1, <4>2
    <3>4. u \in Seq(Byte) /\ Len(u) \in Nat /\ Len(u) <= Len(t)
      <4>1. k + 1 \in Nat  BY <2>4
      <4>2. u \in Seq(Byte) /\ Len(u) = IF k + 1 <= Len(t) THEN Len(t) - (k + 1) ELSE 0
        BY <3>2, <4>1, DropType
      <4> HIDE DEF u
      <4> QED BY <2>4, <3>2, <4>2
    <3>5. r = Outcome("read", u, whole) \/ r = Outcome("on", t, whole)
      BY <3>1 DEF Body
    <3> HIDE DEF u, whole
    <3>6. CASE r = Outcome("read", u, whole)
      <4>1. Len(u) < Len(bytes)  BY <1>0, <3>2, <3>4
      <4> QED BY <3>3, <3>4, <3>6, <4>1, OutcomeType
    <3>7. CASE r = Outcome("on", t, whole)
      <4>1. Len(t) < Len(bytes)  BY <1>0, <3>2
      <4> QED BY <3>2, <3>3, <3>7, <4>1, OutcomeType
    <3> QED BY <3>5, <3>6, <3>7
  <2> QED BY <2>5, <2>6, <2>7
<1> QED BY <1>1, <1>2

\* The loop of readFromBuffer() does what its recursive definition says, and
\* ends with an outcome.
LEMMA LoopEquation ==
  /\ readLoop \in [Outcomes -> Outcomes]
  /\ \A pass \in Outcomes :
        readLoop[pass] = IF pass.state = "on"
                           THEN readLoop[ReadPass(pass.bytes, pass.data)] ELSE pass
<1> DEFINE F(f) == [pass \in Outcomes |->
                      IF pass.state = "on"
                        THEN f[ReadPass(pass.bytes, pass.data)] ELSE pass]
           Fs == [Outcomes -> Outcomes]
           Phi == [f \in Fs |-> F(f)]
           m == [pass \in Outcomes |-> IF pass.state = "on" THEN Len(pass.bytes) + 1 ELSE 0]
<1>0. ASSUME NEW p \in Outcomes
      PROVE  /\ p.bytes \in Seq(Byte) /\ p.data \in Seq(Byte)
             /\ Len(p.bytes) \in Nat
             /\ ReadPass(p.bytes, p.data) \in Outcomes
             /\ ReadPass(p.bytes, p.data).state # "more"
                  => Len(ReadPass(p.bytes, p.data).bytes) < Len(p.bytes)
  <2>1. p.bytes \in Seq(Byte) /\ p.data \in Seq(Byte)  BY DEF Outcomes
  <2> QED BY <2>1, PassProgress
<1>1. m \in [Outcomes -> Nat]  BY <1>0
<1>2. \A f \in Fs : F(f) \in Fs  BY <1>0
<1>3. Phi \in [Fs -> Fs] /\ \A f \in Fs : Phi[f] = F(f)
  <2> HIDE DEF F, Fs
  <2> QED BY <1>2
<1>4. ASSUME NEW g, NEW h, NEW x \in Outcomes,
             \A y \in Outcomes : m[y] < m[x] => g[y] = h[y]
      PROVE  F(g)[x] = F(h)[x]
  <2>1. CASE x.state # "on"  BY <2>1
  <2>2. CASE x.state = "on"
    <3> DEFINE y == ReadPass(x.bytes, x.data)
    <3>1. y \in Outcomes /\ m[y] < m[x]
      <4>1. /\ y \in Outcomes /\ Len(x.bytes) \in Nat
            /\ y.state # "more" => Len(y.bytes) < Len(x.bytes)
        BY <1>0
      <4>2. Len(y.bytes) \in Nat  BY <1>0, <4>1
      <4> HIDE DEF y
      <4>3. m[x] = Len(x.bytes) + 1  BY <2>2
      <4>4. m[y] = IF y.state = "on" THEN Len(y.bytes) + 1 ELSE 0  BY <4>1
      <4> HIDE DEF m
      <4> QED BY <4>1, <4>2, <4>3, <4>4
    <3>2. g[y] = h[y]  BY <1>4, <3>1
    <3> QED BY <2>2, <3>2
  <2> QED BY <2>1, <2>2
<1>5. PICK f \in Fs : f = F(f)
  <2>1. Recursive(Outcomes, Outcomes, m, Phi)
    <3> SUFFICES ASSUME NEW g \in Fs, NEW h \in Fs, NEW x \in Outcomes,
                        \A y \in Outcomes : m[y] < m[x] => g[y] = h[y]
                 PROVE  Phi[g][x] = Phi[h][x]
      BY DEF Recursive
    <3> HIDE DEF F, Fs, m, Phi
    <3>1. F(g)[x] = F(h)[x]  BY <1>4
    <3> QED BY <1>3, <3>1
  <2>2. Outcome("more", <<>>, <<>>) \in Outcomes
    <3>1. <<>> \in Seq(Byte)  OBVIOUS
    <3> QED BY <3>1, OutcomeType
  <2> DEFINE v0 == Outcome("more", <<>>, <<>>)
  <2>3. m \in [Outcomes -> Nat] /\ Phi \in [Fs -> Fs] /\ v0 \in Outcomes
    BY <1>1, <1>3, <2>2
  <2> HIDE DEF m, Phi, v0
  <2>4. HasFixpoint(Outcomes, Outcomes, Phi)
    BY <2>1, <2>3, RecursiveDefinition, Zenon
  <2> HIDE DEF F
  <2> QED BY <1>3, <2>4 DEF HasFixpoint
<1>6. readLoop = CHOOSE g : g = F(g)  BY DEF readLoop
<1>7. readLoop = F(readLoop)
  <2> HIDE DEF F
  <2> QED BY <1>5, <1>6
<1>8. readLoop = f
  <2> DEFINE g == readLoop
  <2>1. g = F(g) /\ f = F(f)  BY <1>5, <1>7
  <2>2. f = [x \in Outcomes |-> f[x]] /\ g = [x \in Outcomes |-> g[x]]  BY <2>1
  <2> HIDE DEF g, F, m
  <2>3. \A x \in Outcomes :
          (\A y \in Outcomes : m[y] < m[x] => f[y] = g[y]) => f[x] = g[x]
    BY <1>4, <2>1
  <2>4. Alike(Outcomes, m, f, g)  BY <2>2, <2>3 DEF Alike
  <2>5. f = g  BY <1>1, <2>4, SameFunction, Zenon
  <2> QED BY <2>5 DEF g
<1> QED BY <1>5, <1>8

-----------------------------------------------------------------------------
(* Reading packets until there is none more.                               *)

\* readFromBuffer() ends, and takes bytes off the buffer when it reads a packet.
LEMMA ReadProgress ==
  ASSUME NEW bytes \in Seq(Byte)
  PROVE  LET r == readFromBuffer(bytes)
         IN  /\ r \in Outcomes
             /\ r.state = "read" => Len(r.bytes) < Len(bytes)
<1> DEFINE on == {p \in Outcomes : p.state = "on"}
           bad == {p \in on : ~(readLoop[p].state = "read"
                                  => Len(readLoop[p].bytes) < Len(p.bytes))}
<1>1. bad = {}
  <2> SUFFICES ASSUME bad # {} PROVE FALSE  OBVIOUS
  <2> DEFINE T == {Len(p.bytes) : p \in bad}
  <2>1. T \in SUBSET Nat /\ T # {}
    <3>1. \A p \in bad : p.bytes \in Seq(Byte)  BY DEF Outcomes
    <3> HIDE DEF bad
    <3>2. \A p \in bad : Len(p.bytes) \in Nat  BY <3>1
    <3> QED BY <3>2
  <2>2. PICK n \in T : \A k \in T : n <= k
    <3> HIDE DEF T
    <3> QED BY <2>1, Least
  <2>3. PICK p \in bad : Len(p.bytes) = n  OBVIOUS
  <2> DEFINE q == ReadPass(p.bytes, p.data)
  <2>4. p \in Outcomes /\ p.state = "on"  OBVIOUS
  <2>5. p.bytes \in Seq(Byte) /\ p.data \in Seq(Byte) /\ Len(p.bytes) \in Nat
    BY <2>4 DEF Outcomes
  <2>6. q \in Outcomes /\ (q.state # "more" => Len(q.bytes) < Len(p.bytes))
    BY <2>5, PassProgress
  <2>7. readLoop[p] = readLoop[q]  BY <2>4, LoopEquation
  <2>8. Len(q.bytes) \in Nat /\ q.state \in {"more", "read", "on"}
    BY <2>6 DEF Outcomes
  <2> HIDE DEF q
  <2>9. CASE q.state # "on"
    <3>1. readLoop[p] = q  BY <2>6, <2>7, <2>9, LoopEquation
    <3>2. q.state = "read" => Len(q.bytes) < Len(p.bytes)  BY <2>6
    <3> QED BY <3>1, <3>2
  <2>10. CASE q.state = "on"
    <3>1. Len(q.bytes) < Len(p.bytes)  BY <2>6, <2>10
    <3>2. q \notin bad
      <4>1. Len(q.bytes) \notin T
        <5>1. Len(q.bytes) \in T => n <= Len(q.bytes)  BY <2>2
        <5> HIDE DEF T
        <5> QED BY <2>3, <2>5, <2>8, <3>1, <5>1
      <4> QED BY <4>1
    <3>3. readLoop[q].state = "read" => Len(readLoop[q].bytes) < Len(q.bytes)
      BY <2>6, <2>10, <3>2
    <3>4. Len(readLoop[q].bytes) \in Nat
      <4>1. readLoop[q] \in Outcomes  BY <2>6, LoopEquation
      <4> QED BY <4>1 DEF Outcomes
    <3>5. readLoop[p].state = "read" => Len(readLoop[p].bytes) < Len(p.bytes)
      BY <2>5, <2>7, <2>8, <3>1, <3>3, <3>4
    <3> QED BY <3>5
  <2> QED BY <2>9, <2>10
<1> DEFINE start == Outcome("on", bytes, <<>>)
<1>2. start \in Outcomes /\ start.state = "on" /\ start.bytes = bytes
  <2>1. <<>> \in Seq(Byte)  OBVIOUS
  <2> QED BY <2>1 DEF Outcome, Outcomes
<1>3. readLoop[start] \in Outcomes  BY <1>2, LoopEquation
<1>4. readLoop[start].state = "read" => Len(readLoop[start].bytes) < Len(bytes)
  <2> HIDE DEF start
  <2> QED BY <1>1, <1>2
<1> QED BY <1>3, <1>4 DEF readFromBuffer

\* What readPacket() in a loop returns.
PacketsRead ==
    [bytes : Seq(Byte), packets : Seq([buffer : Seq(Byte), dataSize : Nat])]

\* The packet that swap() makes of a string.
LEMMA SwappedType ==
  ASSUME NEW str \in Seq(Byte)
  PROVE  Swapped(str) \in [buffer : Seq(Byte), dataSize : Nat]
<1>1. Len(str) - 4 \in Int /\ NumRange \in Nat \ {0}
  BY PacketAssumption DEF NumRange
<1>2. (Len(str) - 4) % NumRange \in Nat  BY <1>1
<1> QED BY <1>2 DEF Swapped, PacketMinSize

\* Reading packets until there is none more ends, and does what its recursive
\* definition says.
LEMMA PacketsEquation ==
  /\ ReadPackets \in [Seq(Byte) -> PacketsRead]
  /\ \A bytes \in Seq(Byte) :
        ReadPackets[bytes] =
          IF readFromBuffer(bytes).state = "read"
            THEN [bytes |-> ReadPackets[readFromBuffer(bytes).bytes].bytes,
                  packets |-> <<Swapped(readFromBuffer(bytes).data)>>
                              \o ReadPackets[readFromBuffer(bytes).bytes].packets]
            ELSE [bytes |-> readFromBuffer(bytes).bytes, packets |-> <<>>]
<1> DEFINE Case(f, b) ==
               LET r == readFromBuffer(b)
                   later == f[r.bytes]
               IN  IF r.state = "read"
                     THEN [bytes |-> later.bytes,
                           packets |-> <<Swapped(r.data)>> \o later.packets]
                     ELSE [bytes |-> r.bytes, packets |-> <<>>]
           F(f) == [b \in Seq(Byte) |-> Case(f, b)]
           Fs == [Seq(Byte) -> PacketsRead]
           Phi == [f \in Fs |-> F(f)]
           m == [b \in Seq(Byte) |-> Len(b)]
<1>0. ASSUME NEW b \in Seq(Byte)
      PROVE  LET r == readFromBuffer(b)
             IN  /\ r.bytes \in Seq(Byte) /\ r.data \in Seq(Byte)
                 /\ r.state = "read" => m[r.bytes] < m[b]
  <2>1. readFromBuffer(b) \in Outcomes  BY ReadProgress
  <2>2. /\ readFromBuffer(b).bytes \in Seq(Byte)
        /\ readFromBuffer(b).data \in Seq(Byte)
    BY <2>1 DEF Outcomes
  <2> QED BY <2>2, ReadProgress
<1>1. m \in [Seq(Byte) -> Nat]  OBVIOUS
<1>2. ASSUME NEW f \in Fs, NEW b \in Seq(Byte)
      PROVE  /\ Case(f, b) \in PacketsRead
             /\ Case(f, b) =
                  IF readFromBuffer(b).state = "read"
                    THEN [bytes |-> f[readFromBuffer(b).bytes].bytes,
                          packets |-> <<Swapped(readFromBuffer(b).data)>>
                                      \o f[readFromBuffer(b).bytes].packets]
                    ELSE [bytes |-> readFromBuffer(b).bytes, packets |-> <<>>]
  <2> DEFINE r == readFromBuffer(b)
             later == f[r.bytes]
             p == Swapped(r.data)
             P == [buffer : Seq(Byte), dataSize : Nat]
  <2>1. r.bytes \in Seq(Byte) /\ r.data \in Seq(Byte)  BY <1>0
  <2>2. p \in P  BY <2>1, SwappedType
  <2>3. later \in PacketsRead  BY <2>1
  <2>4. later.bytes \in Seq(Byte) /\ later.packets \in Seq(P)
    BY <2>3 DEF PacketsRead
  <2>5. <<p>> \o later.packets \in Seq(P)
    <3> HIDE DEF p, P, later
    <3>1. <<p>> \in Seq(P)  BY <2>2
    <3> QED BY <2>4, <3>1, ConcatProperties, Zenon
  <2>7. Case(f, b) = IF r.state = "read"
                       THEN [bytes |-> later.bytes, packets |-> <<p>> \o later.packets]
                       ELSE [bytes |-> r.bytes, packets |-> <<>>]
    OBVIOUS
  <2>8. <<>> \in Seq(P)  OBVIOUS
  <2> HIDE DEF p, later, r, Case
  <2>9. Case(f, b) \in PacketsRead
    BY <2>1, <2>4, <2>5, <2>7, <2>8 DEF PacketsRead
  <2> QED BY <2>7, <2>9 DEF p, later, r
<1>3. Phi \in [Fs -> Fs] /\ \A f \in Fs : Phi[f] = F(f)
  <2> HIDE DEF Case
  <2>1. \A f \in Fs : F(f) \in Fs  BY <1>2
  <2> HIDE DEF F, Fs
  <2> QED BY <2>1
<1>4. ASSUME NEW g, NEW h, NEW x \in Seq(Byte),
             \A y \in Seq(Byte) : m[y] < m[x] => g[y] = h[y]
      PROVE  F(g)[x] = F(h)[x]
  <2> DEFINE r == readFromBuffer(x)
  <2>1. r.state = "read" => g[r.bytes] = h[r.bytes]
    <3> HIDE DEF m
    <3> QED BY <1>0, <1>4
  <2> QED BY <2>1
<1>5. PICK f \in Fs : f = F(f)
  <2>1. Recursive(Seq(Byte), PacketsRead, m, Phi)
    <3> SUFFICES ASSUME NEW g \in Fs, NEW h \in Fs, NEW x \in Seq(Byte),
                        \A y \in Seq(Byte) : m[y] < m[x] => g[y] = h[y]
                 PROVE  Phi[g][x] = Phi[h][x]
      BY DEF Recursive
    <3> HIDE DEF F, Fs, m, Phi
    <3>1. F(g)[x] = F(h)[x]  BY <1>4
    <3> QED BY <1>3, <3>1
  <2> DEFINE v0 == [bytes |-> <<>>, packets |-> <<>>]
  <2>2. v0 \in PacketsRead
    <3>1. <<>> \in Seq(Byte) /\ <<>> \in Seq([buffer : Seq(Byte), dataSize : Nat])
      OBVIOUS
    <3> QED BY <3>1 DEF PacketsRead
  <2>3. m \in [Seq(Byte) -> Nat] /\ Phi \in [Fs -> Fs] /\ v0 \in PacketsRead
    BY <1>1, <1>3, <2>2
  <2> HIDE DEF m, Phi, v0
  <2>4. HasFixpoint(Seq(Byte), PacketsRead, Phi)
    BY <2>1, <2>3, RecursiveDefinition, Zenon
  <2> HIDE DEF F
  <2> QED BY <1>3, <2>4 DEF HasFixpoint
<1>6. ReadPackets = CHOOSE g : g = F(g)  BY DEF ReadPackets
<1>7. ReadPackets = F(ReadPackets)
  <2> HIDE DEF F
  <2> QED BY <1>5, <1>6
<1>8. ReadPackets = f
  <2> DEFINE g == ReadPackets
  <2>1. g = F(g) /\ f = F(f)  BY <1>5, <1>7
  <2>2. /\ f = [x \in Seq(Byte) |-> f[x]] /\ g = [x \in Seq(Byte) |-> g[x]]
    <3> HIDE DEF Case
    <3> QED BY <2>1
  <2> HIDE DEF g, F, m
  <2>3. ASSUME NEW x \in Seq(Byte), \A y \in Seq(Byte) : m[y] < m[x] => f[y] = g[y]
        PROVE  f[x] = g[x]
    <3>1. F(f)[x] = F(g)[x]  BY <1>4, <2>3, Zenon
    <3> QED BY <2>1, <3>1, Zenon
  <2>4. Alike(Seq(Byte), m, f, g)  BY <2>2, <2>3 DEF Alike
  <2>5. f = g  BY <1>1, <2>4, SameFunction, Zenon
  <2> QED BY <2>5 DEF g
<1>9. ASSUME NEW b \in Seq(Byte) PROVE ReadPackets[b] = Case(ReadPackets, b)
  <2> HIDE DEF Case
  <2> QED BY <1>7
<1> HIDE DEF Case
<1>10. ReadPackets \in Fs  BY <1>8
<1> QED BY <1>2, <1>9, <1>10

-----------------------------------------------------------------------------
(* The reference that takes a stream apart at once.                        *)

\* The reference Frames does what its recursive definition says.
LEMMA FramesEquation ==
  /\ Frames \in [Seq(Byte) -> Seq(Seq(Byte))]
  /\ \A b \in Seq(Byte) :
        LET n == UnpackNum(b[2], b[3])
        IN  Frames[b] =
              IF Len(b) < PacketMinSize THEN <<>>
              ELSE IF Head(b) # HeadByte \/ Len(b) < n + PacketMinSize
                THEN Frames[Tail(b)]
                ELSE <<SubSeq(b, 4, 3 + n)>> \o Frames[Drop(b, n + PacketMinSize)]
<1> USE DEF PacketMinSize
<1> DEFINE num(b) == UnpackNum(b[2], b[3])
           skip(b) == Head(b) # HeadByte \/ Len(b) < num(b) + 4
           Case(f, b) == IF Len(b) < 4 THEN <<>>
                         ELSE IF skip(b) THEN f[Tail(b)]
                         ELSE <<SubSeq(b, 4, 3 + num(b))>> \o f[Drop(b, num(b) + 4)]
           V == Seq(Seq(Byte))
           F(f) == [b \in Seq(Byte) |-> Case(f, b)]
           Fs == [Seq(Byte) -> V]
           Phi == [f \in Fs |-> F(f)]
           m == [b \in Seq(Byte) |-> Len(b)]
<1>0. ASSUME NEW b \in Seq(Byte), ~(Len(b) < 4)
      PROVE  /\ Tail(b) \in Seq(Byte) /\ m[Tail(b)] < m[b]
             /\ ~skip(b) => /\ SubSeq(b, 4, 3 + num(b)) \in Seq(Byte)
                            /\ Drop(b, num(b) + 4) \in Seq(Byte)
                            /\ m[Drop(b, num(b) + 4)] < m[b]
  <2>1. Len(b) \in Nat  OBVIOUS
  <2>2. b[2] \in Byte /\ b[3] \in Byte  BY <1>0, <2>1
  <2>3. num(b) \in Nat  BY <2>2, NumInRange
  <2>4. Tail(b) \in Seq(Byte) /\ Len(Tail(b)) < Len(b)  BY <1>0, <2>1
  <2> DEFINE u == Drop(b, num(b) + 4)
  <2>5. num(b) + 4 \in Nat  BY <2>3
  <2>6. u \in Seq(Byte) /\ Len(u) = IF num(b) + 4 <= Len(b) THEN Len(b) - (num(b) + 4) ELSE 0
    BY <2>5, DropType
  <2>7. ASSUME ~skip(b) PROVE SubSeq(b, 4, 3 + num(b)) \in Seq(Byte)
    <3>1. 3 + num(b) <= Len(b)  BY <2>1, <2>3, <2>7
    <3> HIDE DEF num
    <3> QED BY <2>1, <2>3, <3>1
  <2> HIDE DEF num, u
  <2>8. Len(u) < Len(b)  BY <1>0, <2>1, <2>3, <2>6
  <2> HIDE DEF skip
  <2> QED BY <2>4, <2>6, <2>7, <2>8 DEF u
<1>1. m \in [Seq(Byte) -> Nat]  OBVIOUS
<1>2. ASSUME NEW f \in Fs, NEW b \in Seq(Byte) PROVE Case(f, b) \in V
  <2>1. <<>> \in V  OBVIOUS
  <2> DEFINE p == SubSeq(b, 4, 3 + num(b))
             later == f[Drop(b, num(b) + 4)]
  <2>2. ASSUME ~(Len(b) < 4), ~skip(b) PROVE <<p>> \o later \in V
    <3>1. later \in V /\ p \in Seq(Byte)  BY <1>0, <2>2
    <3> HIDE DEF p, later
    <3>2. <<p>> \in Seq(Seq(Byte))  BY <3>1
    <3> QED BY <3>1, <3>2, ConcatProperties, Zenon
  <2>3. ASSUME ~(Len(b) < 4), skip(b) PROVE f[Tail(b)] \in V
    BY <1>0, <2>3
  <2> HIDE DEF skip, num, V
  <2> QED BY <2>1, <2>2, <2>3
<1>3. Phi \in [Fs -> Fs] /\ \A f \in Fs : Phi[f] = F(f)
  <2> HIDE DEF Case, V
  <2>1. \A f \in Fs : F(f) \in Fs  BY <1>2
  <2> HIDE DEF F, Fs
  <2> QED BY <2>1
<1>4. ASSUME NEW g, NEW h, NEW x \in Seq(Byte),
             \A y \in Seq(Byte) : m[y] < m[x] => g[y] = h[y]
      PROVE  F(g)[x] = F(h)[x]
  <2>1. CASE Len(x) < 4  BY <2>1
  <2>2. CASE ~(Len(x) < 4)
    <3> HIDE DEF num, skip, m
    <3>1. g[Tail(x)] = h[Tail(x)]  BY <1>0, <1>4, <2>2
    <3>2. ~skip(x) => g[Drop(x, num(x) + 4)] = h[Drop(x, num(x) + 4)]
      BY <1>0, <1>4, <2>2
    <3> QED BY <2>2, <3>1, <3>2
  <2> QED BY <2>1, <2>2
<1>5. PICK f \in Fs : f = F(f)
  <2>1. Recursive(Seq(Byte), V, m, Phi)
    <3> SUFFICES ASSUME NEW g \in Fs, NEW h \in Fs, NEW x \in Seq(Byte),
                        \A y \in Seq(Byte) : m[y] < m[x] => g[y] = h[y]
                 PROVE  Phi[g][x] = Phi[h][x]
      BY DEF Recursive
    <3> HIDE DEF F, Fs, m, Phi
    <3>1. F(g)[x] = F(h)[x]  BY <1>4
    <3> QED BY <1>3, <3>1
  <2>2. <<>> \in V  OBVIOUS
  <2>3. m \in [Seq(Byte) -> Nat] /\ Phi \in [Fs -> Fs] /\ <<>> \in V
    BY <1>1, <1>3, <2>2
  <2> HIDE DEF m, Phi, V
  <2>4. HasFixpoint(Seq(Byte), V, Phi)
    BY <2>1, <2>3, RecursiveDefinition, Zenon
  <2> HIDE DEF F
  <2> QED BY <1>3, <2>4 DEF HasFixpoint
<1>6. Frames = CHOOSE g : g = F(g)  BY DEF Frames
<1>7. Frames = F(Frames)
  <2> HIDE DEF F
  <2> QED BY <1>5, <1>6
<1>8. Frames = f
  <2> DEFINE g == Frames
  <2>1. g = F(g) /\ f = F(f)  BY <1>5, <1>7
  <2>2. /\ f = [x \in Seq(Byte) |-> f[x]] /\ g = [x \in Seq(Byte) |-> g[x]]
    <3> HIDE DEF Case
    <3> QED BY <2>1
  <2> HIDE DEF g, F, m
  <2>3. ASSUME NEW x \in Seq(Byte), \A y \in Seq(Byte) : m[y] < m[x] => f[y] = g[y]
        PROVE  f[x] = g[x]
    <3>1. F(f)[x] = F(g)[x]  BY <1>4, <2>3, Zenon
    <3> QED BY <2>1, <3>1, Zenon
  <2>4. Alike(Seq(Byte), m, f, g)  BY <2>2, <2>3 DEF Alike
  <2>5. f = g  BY <1>1, <2>4, SameFunction, Zenon
  <2> QED BY <2>5 DEF g
<1>9. ASSUME NEW b \in Seq(Byte) PROVE Frames[b] = Case(Frames, b)
  <2> HIDE DEF Case
  <2> QED BY <1>7
<1>10. Frames \in Fs  BY <1>8
<1> QED BY <1>9, <1>10

\* Bytes before a head byte belong to no frame.
LEMMA FramesAfterNoise ==
  ASSUME NEW x \in Byte, x # HeadByte, NEW t \in Seq(Byte)
  PROVE  <<x>> \o t \in Seq(Byte) /\ Frames[<<x>> \o t] = Frames[t]
<1> USE DEF PacketMinSize
<1> DEFINE s == <<x>> \o t
<1>1. /\ s \in Seq(Byte) /\ Len(s) = Len(t) + 1 /\ Len(t) \in Nat
      /\ Head(s) = x /\ Tail(s) = t
  OBVIOUS
<1> HIDE DEF s
<1>2. CASE Len(s) < 4
  <2>1. Len(t) < 4  BY <1>1, <1>2
  <2>2. Frames[s] = <<>>  BY <1>1, <1>2, FramesEquation
  <2>3. Frames[t] = <<>>  BY <2>1, FramesEquation
  <2> QED BY <1>1, <2>2, <2>3 DEF s
<1>3. CASE ~(Len(s) < 4)
  BY <1>1, <1>3, FramesEquation DEF s
<1> QED BY <1>2, <1>3

\* What is known of a message the application sends.
LEMMA MessageFacts ==
  ASSUME NEW d \in Messages
  PROVE  /\ d \in Seq(Byte) /\ Len(d) \in Nat
         /\ NumRange \in Nat /\ Len(d) + 4 < NumRange /\ Len(d) < NumRange
         /\ pack(d).buffer \in Seq(Byte) /\ Len(pack(d).buffer) = Len(d) + 4
<1>1. d \in Seq(Byte) /\ Len(d) + 4 < NumRange
  BY PingPangAssumption, FramingAssumption DEF PacketMinSize
<1>2. Len(d) \in Nat /\ NumRange \in Nat  BY <1>1, PacketAssumption DEF NumRange
<1>3. Len(d) < NumRange  BY <1>1, <1>2
<1> QED BY <1>1, <1>2, <1>3, FrameBytes DEF PacketMinSize

\* A packet in front of a stream is its first frame.
LEMMA FramesAfterPacket ==
  ASSUME NEW d \in Messages, NEW t \in Seq(Byte)
  PROVE  /\ pack(d).buffer \o t \in Seq(Byte)
         /\ Frames[pack(d).buffer \o t] = <<d>> \o Frames[t]
<1> USE DEF PacketMinSize
<1> DEFINE f == pack(d).buffer
           k == Len(d)
           s == f \o t
<1>1. d \in Seq(Byte) /\ k \in Nat /\ k < NumRange  BY MessageFacts
<1>2. /\ f \in Seq(Byte) /\ Len(f) = k + 4 /\ f[1] = HeadByte
      /\ UnpackNum(f[2], f[3]) = k /\ \A i \in 1..k : f[i + 3] = d[i]
  BY <1>1, FrameBytes
<1> HIDE DEF f
<1>3. Len(t) \in Nat  OBVIOUS
<1>4. /\ s \in Seq(Byte) /\ Len(s) = Len(f) + Len(t)
      /\ \A i \in 1..(Len(f) + Len(t)) :
            s[i] = IF i <= Len(f) THEN f[i] ELSE t[i - Len(f)]
  BY <1>2, ConcatProperties, Zenon
<1>5. Drop(s, k + 4) = t
  <2>1. Drop(s, Len(f)) = t  BY <1>2, TakeJoined, Zenon
  <2> QED BY <1>2, <2>1
<1> HIDE DEF s, k
<1>6. \A i \in 1..(k + 4) : s[i] = f[i]  BY <1>1, <1>2, <1>3, <1>4
<1>7. /\ Len(s) \in Nat /\ Len(s) >= k + 4
      /\ s[1] = HeadByte /\ UnpackNum(s[2], s[3]) = k
  BY <1>1, <1>2, <1>3, <1>4, <1>6
<1>8. SubSeq(s, 4, 3 + k) = d
  <2> DEFINE u == SubSeq(s, 4, 3 + k)
  <2>1. u \in Seq(Byte) /\ Len(u) = k /\ \A i \in 1..k : u[i] = s[i + 3]
    BY <1>1, <1>4, <1>7
  <2> HIDE DEF u
  <2>2. \A i \in 1..k : u[i] = d[i]
    <3> TAKE i \in 1..k
    <3>1. i + 3 \in 1..(k + 4)  BY <1>1
    <3>2. s[i + 3] = f[i + 3]  BY <1>6, <3>1
    <3>3. f[i + 3] = d[i]  BY <1>2 DEF k
    <3> QED BY <2>1, <3>2, <3>3
  <2>3. Len(u) = Len(d) /\ \A i \in 1..Len(u) : u[i] = d[i]
    BY <2>1, <2>2 DEF k
  <2>4. u = d  BY <1>1, <2>1, <2>3, SeqEqual, Zenon
  <2> QED BY <2>4 DEF u
<1>9. Head(s) = s[1]  BY <1>1, <1>4, <1>7
<1>10. Frames[s] = <<SubSeq(s, 4, 3 + k)>> \o Frames[Drop(s, k + 4)]
  <2>1. ~(Len(s) < 4) /\ ~(Head(s) # HeadByte \/ Len(s) < k + 4)
    BY <1>1, <1>7, <1>9
  <2> QED BY <1>4, <1>7, <2>1, FramesEquation
<1> QED BY <1>4, <1>5, <1>8, <1>10 DEF s, f

-----------------------------------------------------------------------------
(* What a stream is made of.                                               *)

\* C holds the empty string, and what noise or a packet in front of a member
\* makes.
Closed(C) ==
    /\ <<>> \in C
    /\ \A x \in Byte, t \in C : x # HeadByte => <<x>> \o t \in C
    /\ \A d \in Messages, t \in C : pack(d).buffer \o t \in C

\* The byte strings that are packets and noise, in any order: the least set of
\* that kind.
Streams == {s \in Seq(Byte) : \A C \in SUBSET Seq(Byte) : Closed(C) => s \in C}

\* Induction over the make-up of a stream.
LEMMA StreamInduction ==
  ASSUME NEW C \in SUBSET Seq(Byte), Closed(C)
  PROVE  Streams \subseteq C
BY DEF Streams

\* Noise or a packet in front of a stream makes a stream.
LEMMA StreamsClosed == Closed(Streams) /\ Streams \in SUBSET Seq(Byte)
<1>1. <<>> \in Streams
  <2>1. <<>> \in Seq(Byte)  OBVIOUS
  <2> QED BY <2>1 DEF Streams, Closed
<1>2. ASSUME NEW x \in Byte, NEW t \in Streams, x # HeadByte
      PROVE  <<x>> \o t \in Streams
  <2>1. t \in Seq(Byte)  BY DEF Streams
  <2>2. <<x>> \o t \in Seq(Byte)  BY <1>2, <2>1, FramesAfterNoise
  <2>3. ASSUME NEW C \in SUBSET Seq(Byte), Closed(C) PROVE <<x>> \o t \in C
    <3>1. t \in C  BY <2>3 DEF Streams
    <3> QED BY <1>2, <2>3, <3>1 DEF Closed
  <2> QED BY <2>2, <2>3 DEF Streams
<1>3. ASSUME NEW d \in Messages, NEW t \in Streams
      PROVE  pack(d).buffer \o t \in Streams
  <2>1. t \in Seq(Byte)  BY DEF Streams
  <2>2. pack(d).buffer \o t \in Seq(Byte)  BY <2>1, FramesAfterPacket
  <2>3. ASSUME NEW C \in SUBSET Seq(Byte), Closed(C) PROVE pack(d).buffer \o t \in C
    <3>1. t \in C  BY <2>3 DEF Streams
    <3> QED BY <2>3, <3>1 DEF Closed
  <2> QED BY <2>2, <2>3 DEF Streams
<1>4. Streams \in SUBSET Seq(Byte)  BY DEF Streams
<1> QED BY <1>1, <1>2, <1>3, <1>4 DEF Closed

\* The empty stream has no frame.
LEMMA EmptyStream == <<>> \in Streams /\ <<>> \in Seq(Byte) /\ Frames[<<>>] = <<>>
<1>1. <<>> \in Seq(Byte) /\ Len(<<>>) < PacketMinSize  BY DEF PacketMinSize
<1> QED BY <1>1, StreamsClosed, FramesEquation DEF Closed

\* Two streams, one behind the other, are a stream of the frames of both.
LEMMA StreamsJoin ==
  ASSUME NEW s \in Streams, NEW t \in Streams
  PROVE  s \o t \in Streams /\ Frames[s \o t] = Frames[s] \o Frames[t]
<1> DEFINE V == Seq(Byte)
           Good(a) == a \o t \in Streams /\ Frames[a \o t] = Frames[a] \o Frames[t]
           C == {a \in Streams : Good(a)}
<1>1. t \in V /\ Streams \in SUBSET V  BY StreamsClosed
<1>2. Frames[t] \in Seq(V)  BY <1>1, FramesEquation
<1>3. Good(<<>>)
  <2>1. <<>> \o t = t  BY <1>1, ConcatEmptySeq
  <2>2. <<>> \o Frames[t] = Frames[t]  BY <1>2, ConcatEmptySeq
  <2> QED BY <2>1, <2>2, EmptyStream
<1>4. ASSUME NEW x \in Byte, NEW a \in Streams, Good(a), x # HeadByte
      PROVE  Good(<<x>> \o a)
  <2> DEFINE one == <<x>>
  <2>1. one \in V /\ a \in V  BY <1>1
  <2> HIDE DEF one
  <2>2. (one \o a) \o t = one \o (a \o t)  BY <1>1, <2>1, ConcatAssociative
  <2>3. one \o (a \o t) \in Streams  BY <1>4, StreamsClosed DEF Closed, one
  <2>4. Frames[one \o a] = Frames[a]  BY <1>4, <2>1, FramesAfterNoise DEF one
  <2>5. a \o t \in V  BY <1>1, <1>4
  <2>6. Frames[one \o (a \o t)] = Frames[a \o t]
    BY <1>4, <2>5, FramesAfterNoise DEF one
  <2>7. Good(one \o a)  BY <1>4, <2>2, <2>3, <2>4, <2>6
  <2> QED BY <2>7 DEF one
<1>5. ASSUME NEW d \in Messages, NEW a \in Streams, Good(a)
      PROVE  Good(pack(d).buffer \o a)
  <2> DEFINE f == pack(d).buffer
             one == <<d>>
  <2>1. f \in V /\ a \in V /\ d \in V  BY <1>1, MessageFacts
  <2>2. one \in Seq(V)  BY <2>1
  <2> HIDE DEF f, one
  <2>3. (f \o a) \o t = f \o (a \o t)
    <3>1. f \in Seq(Byte) /\ a \in Seq(Byte) /\ t \in Seq(Byte)  BY <1>1, <2>1
    <3> QED BY ONLY <3>1, ConcatAssociative
  <2>4. f \o (a \o t) \in Streams  BY <1>5, StreamsClosed DEF Closed, f
  <2>5. Frames[f \o a] = one \o Frames[a]  BY <2>1, FramesAfterPacket DEF f, one
  <2>6. a \o t \in V  BY <1>1, <1>5
  <2>7. Frames[f \o (a \o t)] = one \o Frames[a \o t]
    BY <2>6, FramesAfterPacket DEF f, one
  <2>8. Frames[a] \in Seq(V)  BY <2>1, FramesEquation
  <2>9. (one \o Frames[a]) \o Frames[t] = one \o (Frames[a] \o Frames[t])
    <3> DEFINE u == Frames[a]
               v == Frames[t]
    <3>1. one \in Seq(V) /\ u \in Seq(V) /\ v \in Seq(V)  BY <1>2, <2>2, <2>8
    <3> HIDE DEF u, v, V
    <3>2. (one \o u) \o v = one \o (u \o v)  BY ONLY <3>1, ConcatAssociative
    <3> QED BY <3>2 DEF u, v
  <2>10. Good(f \o a)  BY <1>5, <2>3, <2>4, <2>5, <2>7, <2>9
  <2> QED BY <2>10 DEF f
<1> HIDE DEF Good
<1>6. Closed(C)
  <2>1. <<>> \in C  BY <1>3, EmptyStream
  <2>2. ASSUME NEW x \in Byte, NEW a \in C, x # HeadByte PROVE <<x>> \o a \in C
    BY <1>4, <2>2, StreamsClosed DEF Closed
  <2>3. ASSUME NEW d \in Messages, NEW a \in C PROVE pack(d).buffer \o a \in C
    BY <1>5, <2>3, StreamsClosed DEF Closed
  <2> HIDE DEF C
  <2> QED BY <2>1, <2>2, <2>3 DEF Closed
<1>7. C \in SUBSET V  BY <1>1
<1>8. s \in C
  <2> HIDE DEF C
  <2> QED BY <1>6, <1>7, StreamInduction
<1> QED BY <1>8 DEF Good

\* A packet is a stream with one frame: the message it was made of.
LEMMA PacketIsStream ==
  ASSUME NEW d \in Messages
  PROVE  pack(d).buffer \in Streams /\ Frames[pack(d).buffer] = <<d>>
<1>1. pack(d).buffer \in Seq(Byte) /\ d \in Seq(Byte)  BY MessageFacts
<1>2. pack(d).buffer \o <<>> = pack(d).buffer  BY <1>1, ConcatEmptySeq
<1>3. <<d>> \o <<>> = <<d>>
  <2>1. <<d>> \in Seq(Seq(Byte))  BY <1>1
  <2> QED BY <2>1, ConcatEmptySeq
<1>4. pack(d).buffer \o <<>> \in Streams  BY StreamsClosed DEF Closed
<1>5. Frames[pack(d).buffer \o <<>>] = <<d>> \o <<>>
  BY EmptyStream, FramesAfterPacket
<1> QED BY <1>2, <1>3, <1>4, <1>5

\* Bytes without a head byte are a stream without a frame.
LEMMA NoiseIsStream ==
  ASSUME NEW z \in Noises
  PROVE  z \in Streams /\ Frames[z] = <<>>
<1> DEFINE Quiet(s) == \A i \in 1..Len(s) : s[i] # HeadByte
           Good(s) == s \in Streams /\ Frames[s] = <<>>
           Fine(n) == \A s \in Seq(Byte) : Len(s) = n /\ Quiet(s) => Good(s)
           T == {n \in Nat : Fine(n)}
<1>1. Fine(0)
  <2>1. \A s \in Seq(Byte) : Len(s) = 0 => s = <<>>  OBVIOUS
  <2> QED BY <2>1, EmptyStream
<1>2. ASSUME NEW n \in Nat, Fine(n) PROVE Fine(n + 1)
  <2> SUFFICES ASSUME NEW s \in Seq(Byte), Len(s) = n + 1, Quiet(s) PROVE Good(s)
    OBVIOUS
  <2>1. /\ Head(s) \in Byte /\ Head(s) = s[1] /\ Head(s) # HeadByte
        /\ Tail(s) \in Seq(Byte) /\ Len(Tail(s)) = n
        /\ \A i \in 1..n : Tail(s)[i] = s[i + 1]
    OBVIOUS
  <2>2. Quiet(Tail(s))  BY <2>1
  <2>3. Good(Tail(s))  BY <1>2, <2>1, <2>2
  <2>4. s = <<Head(s)>> \o Tail(s)
    <3> DEFINE a == <<Head(s)>>
               b == Tail(s)
    <3>1. a \in Seq(Byte) /\ Len(a) = 1 /\ a[1] = s[1]  BY <2>1
    <3> HIDE DEF a, b
    <3>2. b \in Seq(Byte) /\ Len(b) = n /\ \A i \in 1..n : b[i] = s[i + 1]
      BY <2>1 DEF b
    <3>3. /\ a \o b \in Seq(Byte) /\ Len(a \o b) = Len(a) + Len(b)
          /\ \A i \in 1..(Len(a) + Len(b)) :
                (a \o b)[i] = IF i <= Len(a) THEN a[i] ELSE b[i - Len(a)]
      <4>1. a \in Seq(Byte) /\ b \in Seq(Byte)  BY <3>1, <3>2
      <4> QED BY ONLY <4>1, ConcatProperties
    <3>4. Len(a \o b) = n + 1
      BY <3>1, <3>2, <3>3
    <3>5. \A i \in 1..(n + 1) : (a \o b)[i] = s[i]
      <4> TAKE i \in 1..(n + 1)
      <4>1. i \in 1..(Len(a) + Len(b))  BY <3>1, <3>2
      <4>2. CASE i = 1  BY <3>1, <3>3, <4>1, <4>2
      <4>3. CASE i # 1
        <5>1. i - 1 \in 1..n /\ (i - 1) + 1 = i /\ ~(i <= 1)  BY <4>3
        <5> QED BY <3>1, <3>2, <3>3, <4>1, <5>1
      <4> QED BY <4>2, <4>3
    <3>6. Len(a \o b) = Len(s) /\ \A i \in 1..Len(a \o b) : (a \o b)[i] = s[i]
      BY <3>4, <3>5
    <3>7. a \o b = s  BY <3>3, <3>6, SeqEqual, Zenon
    <3> QED BY <3>7 DEF a, b
  <2>5. <<Head(s)>> \o Tail(s) \in Streams
    BY <2>1, <2>3, StreamsClosed DEF Closed
  <2>6. Frames[<<Head(s)>> \o Tail(s)] = Frames[Tail(s)]
    BY <2>1, FramesAfterNoise
  <2> QED BY <2>3, <2>4, <2>5, <2>6
<1> HIDE DEF Fine
<1>3. T \in SUBSET Nat /\ 0 \in T /\ \A n \in T : n + 1 \in T  BY <1>1, <1>2
<1>4. T = Nat
  <2> HIDE DEF T
  <2> QED BY <1>3, SetInduction
<1>5. z \in Seq(Byte) /\ Len(z) \in Nat /\ Quiet(z)
  <2>1. z \in Seq(Byte)  BY PingPangAssumption
  <2> QED BY <2>1, FramingAssumption
<1> QED BY <1>4, <1>5 DEF Fine

-----------------------------------------------------------------------------
(* How TCP may cut a stream.                                               *)

\* One string cut in two ways.
TwoCuts(S, b, w, f, t) ==
    /\ b \in Seq(S) /\ w \in Seq(S) /\ f \in Seq(S) /\ t \in Seq(S)
    /\ b \o w = f \o t

\* Either the first piece of the one cut is part of the first piece of the
\* other, or it begins with it and the rest is cut the same.
LEMMA CutTwice ==
  ASSUME NEW S, NEW b, NEW w, NEW f, NEW t, TwoCuts(S, b, w, f, t)
  PROVE  /\ Len(b) < Len(f) => b = SubSeq(f, 1, Len(b))
         /\ Len(b) >= Len(f) => /\ Drop(b, Len(f)) \in Seq(S)
                                /\ b = f \o Drop(b, Len(f))
                                /\ Drop(b, Len(f)) \o w = t
                                /\ Len(Drop(b, Len(f))) = Len(b) - Len(f)
<1>0. /\ b \in Seq(S) /\ w \in Seq(S) /\ f \in Seq(S) /\ t \in Seq(S)
      /\ b \o w = f \o t
  BY DEF TwoCuts
<1> DEFINE m == Len(b)
           n == Len(f)
           c == b \o w
<1>1. m \in Nat /\ n \in Nat /\ Len(w) \in Nat /\ Len(t) \in Nat  BY <1>0
<1>2. /\ Len(c) = Len(b) + Len(w)
      /\ \A i \in 1..(Len(b) + Len(w)) : c[i] = IF i <= Len(b) THEN b[i] ELSE w[i - Len(b)]
  BY <1>0, ConcatProperties, Zenon
<1>3. /\ Len(f \o t) = Len(f) + Len(t)
      /\ \A i \in 1..(Len(f) + Len(t)) :
            (f \o t)[i] = IF i <= Len(f) THEN f[i] ELSE t[i - Len(f)]
  BY <1>0, ConcatProperties, Zenon
<1>4. c = f \o t  BY <1>0
<1> HIDE DEF c
<1>5. \A i \in 1..m : b[i] = c[i]
  <2> HIDE DEF m
  <2>1. \A i \in 1..m : i \in 1..(m + Len(w)) /\ i <= m  BY <1>1
  <2> QED BY <1>2, <2>1 DEF m
<1>6. \A i \in 1..n : f[i] = c[i]
  <2> HIDE DEF n
  <2>1. \A i \in 1..n : i \in 1..(n + Len(t)) /\ i <= n  BY <1>1
  <2> QED BY <1>3, <1>4, <2>1 DEF n
<1>7. ASSUME m < n PROVE b = SubSeq(f, 1, m)
  <2> DEFINE u == SubSeq(f, 1, m)
  <2>1. u \in Seq(S) /\ Len(u) = m /\ \A i \in 1..m : u[i] = f[i]
    <3> HIDE DEF m
    <3> QED BY <1>0, <1>1, <1>7
  <2> HIDE DEF u
  <2>2. \A i \in 1..m : b[i] = u[i]
    <3> HIDE DEF m, n
    <3> TAKE i \in 1..m
    <3>1. i \in 1..n  BY <1>1, <1>7
    <3>2. b[i] = c[i] /\ f[i] = c[i] /\ u[i] = f[i]  BY <1>5, <1>6, <2>1, <3>1
    <3> QED BY <3>2
  <2>3. Len(b) = Len(u) /\ \A i \in 1..Len(b) : b[i] = u[i]  BY <2>1, <2>2
  <2>4. b = u  BY <1>0, <2>1, <2>3, SeqEqual, Zenon
  <2> QED BY <2>4 DEF u
<1>8. ASSUME m >= n
      PROVE  /\ Drop(b, n) \in Seq(S) /\ b = f \o Drop(b, n)
             /\ Drop(b, n) \o w = t /\ Len(Drop(b, n)) = m - n
  <2> DEFINE u == Drop(b, n)
             g == f \o u
             k == m - n
  <2>1. k \in Nat /\ n + k = m
    <3> HIDE DEF m, n
    <3> QED BY <1>1, <1>8
  <2>2. u \in Seq(S) /\ Len(u) = k /\ \A i \in 1..k : u[i] = b[i + n]
    <3>1. b \in Seq(S) /\ n \in Nat /\ k \in Nat /\ n + k <= Len(b)
      <4> HIDE DEF n, k
      <4> QED BY <1>0, <1>1, <2>1
    <3> HIDE DEF n, k
    <3>2. /\ Drop(b, n) \in Seq(S) /\ Len(Drop(b, n)) = Len(b) - n
          /\ \A i \in 1..(Len(b) - n) : Drop(b, n)[i] = b[i + n]
      BY ONLY <3>1, TakeTwice
    <3> QED BY <3>2 DEF k
  <2> HIDE DEF u
  <2>3. /\ g \in Seq(S) /\ Len(g) = Len(f) + Len(u)
        /\ \A i \in 1..(Len(f) + Len(u)) : g[i] = IF i <= Len(f) THEN f[i] ELSE u[i - Len(f)]
    <3>1. f \in Seq(S) /\ u \in Seq(S)  BY <1>0, <2>2
    <3> QED BY ONLY <3>1, ConcatProperties
  <2>4. Len(g) = m /\ \A i \in 1..m : g[i] = IF i <= n THEN f[i] ELSE u[i - n]
    BY <2>1, <2>2, <2>3
  <2> HIDE DEF g, k, m, n
  <2>5. \A i \in 1..m : g[i] = b[i]
    <3> TAKE i \in 1..m
    <3>1. CASE i <= n
      <4>1. i \in 1..n  BY <1>1, <3>1
      <4>2. f[i] = b[i]  BY <1>5, <1>6, <4>1
      <4> QED BY <2>4, <3>1, <4>2
    <3>2. CASE ~(i <= n)
      <4>1. i - n \in 1..k /\ (i - n) + n = i  BY <1>1, <2>1, <3>2
      <4>2. u[i - n] = b[i]  BY <2>2, <4>1
      <4> QED BY <2>4, <3>2, <4>2
    <3> QED BY <3>1, <3>2
  <2>6. Len(g) = Len(b) /\ \A i \in 1..Len(g) : g[i] = b[i]  BY <2>4, <2>5 DEF m
  <2>7. g = b  BY <1>0, <2>3, <2>6, SeqEqual, Zenon
  <2>8. f \o (u \o w) = f \o t
    <3>1. g \o w = f \o t  BY <1>4, <2>7 DEF c
    <3>2. f \in Seq(S) /\ u \in Seq(S) /\ w \in Seq(S)  BY <1>0, <2>2
    <3>3. (f \o u) \o w = f \o (u \o w)  BY ONLY <3>2, ConcatAssociative
    <3> QED BY <3>1, <3>3 DEF g
  <2>9. u \o w = t
    <3>1. u \o w \in Seq(S)  BY <1>0, <2>2, ConcatProperties, Zenon
    <3> DEFINE v == u \o w
    <3> HIDE DEF v
    <3>2. f \in Seq(S) /\ v \in Seq(S) /\ t \in Seq(S) /\ f \o v = f \o t
      BY <1>0, <2>8, <3>1 DEF v
    <3>3. v = t  BY <3>2, ConcatSimplifications, Zenon
    <3> QED BY <3>3 DEF v
  <2> QED BY <2>2, <2>7, <2>9 DEF g, u, k
<1> QED BY <1>7, <1>8

\* readFromBuffer() starts with a pass without data.
LEMMA ReadFirstPass ==
  ASSUME NEW b \in Seq(Byte)
  PROVE  LET p == ReadPass(b, <<>>)
         IN  /\ p.state # "on" => readFromBuffer(b) = p
             /\ \A c \in Seq(Byte) :
                  p = Outcome("on", c, <<>>) => readFromBuffer(b) = readFromBuffer(c)
<1> DEFINE start == Outcome("on", b, <<>>)
           p == ReadPass(b, <<>>)
<1>1. /\ start \in Outcomes /\ start.state = "on"
      /\ start.bytes = b /\ start.data = <<>>
  <2>1. <<>> \in Seq(Byte)  OBVIOUS
  <2> QED BY <2>1 DEF Outcome, Outcomes
<1>2. p \in Outcomes
  <2>1. <<>> \in Seq(Byte)  OBVIOUS
  <2> QED BY <2>1, PassProgress
<1>3. readLoop[start] = readLoop[p]
  <2> HIDE DEF start
  <2> QED BY <1>1, LoopEquation
<1>4. p.state # "on" => readLoop[p] = p
  <2> HIDE DEF p
  <2> QED BY <1>2, LoopEquation
<1> QED BY <1>3, <1>4 DEF readFromBuffer

-----------------------------------------------------------------------------
(* readFromBuffer() on any piece of a stream.                              *)

\* Less than a header, or less than some packet.
Short(b) == Len(b) < PacketMinSize \/ \E d \in Messages : Len(b) < Len(d) + PacketMinSize

\* What readFromBuffer() does when the buffer holds b and w is still to come:
\* it takes noise off the front, and the first packet if all of it is there.
ReadsFirst(b, w) ==
    LET r == readFromBuffer(b)
    IN  /\ r.bytes \in Seq(Byte) /\ r.bytes \o w \in Streams
        /\ \/ /\ r.state = "more" /\ Short(r.bytes)
              /\ Frames[b \o w] = Frames[r.bytes \o w]
           \/ /\ r.state = "read"
              /\ \E d \in Messages :
                    /\ r.data = pack(d).buffer
                    /\ Frames[b \o w] = <<d>> \o Frames[r.bytes \o w]

\* A pass that finds too little, and one that finds a byte of noise.
LEMMA NoisePass ==
  ASSUME NEW b \in Seq(Byte)
  PROVE  /\ Len(b) < 4 => ReadPass(b, <<>>) = Outcome("more", b, <<>>)
         /\ ~(Len(b) < 4) /\ b[1] # HeadByte
               => ReadPass(b, <<>>) = Outcome("on", Tail(b), <<>>)
<1> USE DEF PacketMinSize
<1>1. Len(b) < 4 => ReadPass(b, <<>>) = Outcome("more", b, <<>>)  BY DEF ReadPass
<1>2. ASSUME ~(Len(b) < 4), b[1] # HeadByte
      PROVE  ReadPass(b, <<>>) = Outcome("on", Tail(b), <<>>)
  <2> DEFINE three == SubSeq(b, 1, 3)
             seen == <<>> \o three
  <2>1. three \in Seq(Byte) /\ three[1] = b[1]  BY <1>2
  <2>2. seen = three
    <3> HIDE DEF three
    <3> QED BY <2>1, ConcatEmptySeq
  <2>3. seen[1] # HeadByte
    <3> HIDE DEF seen, three
    <3> QED BY <1>2, <2>1, <2>2
  <2> QED BY <1>2, <2>3 DEF ReadPass
<1> QED BY <1>1, <1>2

\* A read that waits leaves everything as it was.
LEMMA WaitingRead ==
  ASSUME NEW b \in Seq(Byte), NEW w \in Seq(Byte), b \o w \in Streams, Short(b),
         ReadPass(b, <<>>) = Outcome("more", b, <<>>)
  PROVE  ReadsFirst(b, w)
<1>1. readFromBuffer(b) = Outcome("more", b, <<>>)
  <2>1. Outcome("more", b, <<>>).state # "on"  BY DEF Outcome
  <2> QED BY <2>1, ReadFirstPass
<1>2. /\ readFromBuffer(b).state = "more" /\ readFromBuffer(b).bytes = b
  BY <1>1 DEF Outcome
<1> QED BY <1>2 DEF ReadsFirst

\* readFromBuffer() on any piece of a stream, wherever TCP has cut it.
LEMMA ReadsAnyCut ==
  ASSUME NEW b \in Seq(Byte), NEW w \in Seq(Byte), b \o w \in Streams
  PROVE  ReadsFirst(b, w)
<1> DEFINE V == Seq(Byte)
           Good(s) == \A p \in V, q \in V : p \o q = s => ReadsFirst(p, q)
           C == {s \in Streams : Good(s)}
<1>1. ASSUME NEW p \in V, NEW q \in V, p \o q \in Streams, Len(p) < 4
      PROVE  ReadsFirst(p, q)
  BY <1>1, NoisePass, WaitingRead DEF Short, PacketMinSize
<1>2. Good(<<>>)
  <2> SUFFICES ASSUME NEW p \in V, NEW q \in V, p \o q = <<>> PROVE ReadsFirst(p, q)
    OBVIOUS
  <2>1. p = <<>>  BY ConcatEqualIffEmpty
  <2>2. Len(p) < 4  BY <2>1
  <2> QED BY <1>1, <2>2, EmptyStream
<1>3. ASSUME NEW x \in Byte, NEW a \in Streams, Good(a), x # HeadByte
      PROVE  Good(<<x>> \o a)
  <2> DEFINE f == <<x>>
  <2> SUFFICES ASSUME NEW p \in V, NEW q \in V, p \o q = f \o a PROVE ReadsFirst(p, q)
    OBVIOUS
  <2>1. f \in V /\ Len(f) = 1 /\ f[1] = x /\ a \in V  BY StreamsClosed
  <2>2. p \o q \in Streams  BY <1>3, StreamsClosed DEF Closed
  <2>3. CASE Len(p) < 4  BY <1>1, <2>2, <2>3
  <2>4. CASE ~(Len(p) < 4)
    <3> DEFINE c == Drop(p, Len(f))
    <3>1. Len(p) >= Len(f)  BY <2>1, <2>4
    <3> HIDE DEF f
    <3>2. c \in V /\ p = f \o c /\ c \o q = a
      <4>1. TwoCuts(Byte, p, q, f, a)  BY <2>1 DEF TwoCuts
      <4> QED BY <3>1, <4>1, CutTwice
    <3> HIDE DEF c
    <3>3. Tail(p) = c /\ p[1] = x  BY <3>2 DEF f
    <3>4. ReadPass(p, <<>>) = Outcome("on", c, <<>>)
      BY <1>3, <2>4, <3>3, NoisePass
    <3>5. readFromBuffer(p) = readFromBuffer(c)  BY <3>2, <3>4, ReadFirstPass
    <3>6. ReadsFirst(c, q)  BY <1>3, <3>2
    <3>7. Frames[p \o q] = Frames[c \o q]
      <4>1. Frames[f \o a] = Frames[a]  BY <1>3, <2>1, FramesAfterNoise DEF f
      <4> QED BY <3>2, <4>1
    <3> QED BY <3>5, <3>6, <3>7 DEF ReadsFirst
  <2> QED BY <2>3, <2>4
<1>4. ASSUME NEW d \in Messages, NEW a \in Streams, Good(a)
      PROVE  Good(pack(d).buffer \o a)
  <2> DEFINE f == pack(d).buffer
  <2> SUFFICES ASSUME NEW p \in V, NEW q \in V, p \o q = f \o a PROVE ReadsFirst(p, q)
    OBVIOUS
  <2>1. /\ d \in V /\ Len(d) \in Nat /\ Len(d) < NumRange /\ Len(d) + 4 < NumRange
        /\ f \in V /\ Len(f) = Len(d) + 4 /\ a \in V
    BY MessageFacts, StreamsClosed
  <2>2. f \o a \in Streams  BY StreamsClosed DEF Closed
  <2> HIDE DEF f
  <2>3. CASE Len(p) < Len(f)
    <3>1. p = SubSeq(f, 1, Len(p))
      <4>1. TwoCuts(Byte, p, q, f, a)  BY <2>1 DEF TwoCuts
      <4> QED BY <2>3, <4>1, CutTwice
    <3>2. Len(p) \in 0..(Len(d) + PacketMinSize - 1)
      BY <2>1, <2>3 DEF PacketMinSize
    <3>3. ReadPass(SubSeq(f, 1, Len(p)), <<>>)
            = Outcome("more", SubSeq(f, 1, Len(p)), <<>>)
      BY <2>1, <3>2, UnfinishedFrameWaits DEF f, PacketMinSize
    <3>4. ReadPass(p, <<>>) = Outcome("more", p, <<>>)  BY <3>1, <3>3, Zenon
    <3>5. Short(p)  BY <2>1, <2>3 DEF Short, PacketMinSize
    <3> QED BY <2>2, <3>4, <3>5, WaitingRead
  <2>4. CASE ~(Len(p) < Len(f))
    <3> DEFINE c == Drop(p, Len(f))
    <3>0. Len(p) >= Len(f)  BY <2>1, <2>4
    <3>1. c \in V /\ p = f \o c /\ c \o q = a
      <4>1. TwoCuts(Byte, p, q, f, a)  BY <2>1 DEF TwoCuts
      <4> QED BY <3>0, <4>1, CutTwice
    <3> HIDE DEF c
    <3>2. ReadPass(p, <<>>) = Outcome("read", c, f)
      BY <2>1, <3>1, FrameRoundTrip DEF f
    <3>3. readFromBuffer(p) = Outcome("read", c, f)
      <4>1. Outcome("read", c, f).state # "on"  BY DEF Outcome
      <4> QED BY <3>2, <4>1, ReadFirstPass
    <3>4. /\ readFromBuffer(p).state = "read" /\ readFromBuffer(p).bytes = c
          /\ readFromBuffer(p).data = f
      BY <3>3 DEF Outcome
    <3>5. Frames[p \o q] = <<d>> \o Frames[c \o q]
      <4>1. Frames[f \o a] = <<d>> \o Frames[a]  BY <2>1, FramesAfterPacket DEF f
      <4> QED BY <3>1, <4>1
    <3>6. c \o q \in Streams  BY <3>1
    <3> QED BY <3>1, <3>4, <3>5, <3>6 DEF ReadsFirst, f
  <2> QED BY <2>3, <2>4
<1> HIDE DEF Good
<1>5. Closed(C)
  <2>1. <<>> \in C  BY <1>2, EmptyStream
  <2>2. ASSUME NEW x \in Byte, NEW a \in C, x # HeadByte PROVE <<x>> \o a \in C
    BY <1>3, <2>2, StreamsClosed DEF Closed
  <2>3. ASSUME NEW d \in Messages, NEW a \in C PROVE pack(d).buffer \o a \in C
    BY <1>4, <2>3, StreamsClosed DEF Closed
  <2> HIDE DEF C
  <2> QED BY <2>1, <2>2, <2>3 DEF Closed
<1>6. C \in SUBSET V  BY StreamsClosed
<1>7. b \o w \in C
  <2> HIDE DEF C
  <2> QED BY <1>5, <1>6, StreamInduction
<1> QED BY <1>7 DEF Good

-----------------------------------------------------------------------------
(* All packets of any piece of a stream.                                   *)

\* The packets that messages are made into.
PacketsOf(ms) == [i \in 1..Len(ms) |-> Swapped(pack(ms[i]).buffer)]

\* What reading until there is no more packet does when the buffer holds b and
\* w is still to come: it takes off whole packets, in order.
ReadsWhole(b, w) ==
    LET r == ReadPackets[b]
    IN  /\ r.bytes \in Seq(Byte) /\ Short(r.bytes) /\ r.bytes \o w \in Streams
        /\ \E ms \in Seq(Messages) :
              /\ r.packets = PacketsOf(ms)
              /\ Frames[b \o w] = ms \o Frames[r.bytes \o w]

\* One more message in front is one more packet in front.
LEMMA PacketsOfMore ==
  ASSUME NEW d \in Messages, NEW ms \in Seq(Messages)
  PROVE  /\ <<d>> \o ms \in Seq(Messages)
         /\ <<Swapped(pack(d).buffer)>> \o PacketsOf(ms) = PacketsOf(<<d>> \o ms)
<1> DEFINE P == [buffer : Seq(Byte), dataSize : Nat]
           sw(e) == Swapped(pack(e).buffer)
           n == Len(ms)
           one == <<d>>
           more == one \o ms
           sone == <<sw(d)>>
           rest == [i \in 1..n |-> sw(ms[i])]
           left == sone \o rest
           right == [i \in 1..(n + 1) |-> sw(more[i])]
<1>1. \A e \in Messages : sw(e) \in P
  <2> SUFFICES ASSUME NEW e \in Messages PROVE sw(e) \in P  OBVIOUS
  <2>1. pack(e).buffer \in Seq(Byte)  BY MessageFacts
  <2> QED BY <2>1, SwappedType
<1> HIDE DEF P, sw
<1>2. n \in Nat /\ \A i \in 1..n : ms[i] \in Messages  OBVIOUS
<1>3. one \in Seq(Messages) /\ Len(one) = 1 /\ one[1] = d  OBVIOUS
<1>4. sone \in Seq(P) /\ Len(sone) = 1 /\ sone[1] = sw(d)  BY <1>1
<1>5. rest \in Seq(P) /\ Len(rest) = n /\ \A i \in 1..n : rest[i] = sw(ms[i])
  <2> HIDE DEF n
  <2> QED BY <1>1, <1>2
<1> HIDE DEF one, sone, rest
<1>6. /\ more \in Seq(Messages) /\ Len(more) = Len(one) + Len(ms)
      /\ \A i \in 1..(Len(one) + Len(ms)) :
            more[i] = IF i <= Len(one) THEN one[i] ELSE ms[i - Len(one)]
  BY <1>3, ConcatProperties, Zenon
<1>7. /\ left \in Seq(P) /\ Len(left) = Len(sone) + Len(rest)
      /\ \A i \in 1..(Len(sone) + Len(rest)) :
            left[i] = IF i <= Len(sone) THEN sone[i] ELSE rest[i - Len(sone)]
  <2>1. sone \in Seq(P) /\ rest \in Seq(P)  BY <1>4, <1>5
  <2> QED BY ONLY <2>1, ConcatProperties
<1> HIDE DEF more, left
<1>8. /\ Len(more) = n + 1 /\ more[1] = d /\ \A i \in 2..(n + 1) : more[i] = ms[i - 1]
      /\ \A i \in 1..(n + 1) : more[i] \in Messages
  <2> HIDE DEF n
  <2>1. Len(one) + Len(ms) = n + 1  BY <1>2, <1>3 DEF n
  <2>2. 1 \in 1..(n + 1)  BY <1>2
  <2>3. \A i \in 2..(n + 1) : i \in 1..(n + 1) /\ ~(i <= 1)  BY <1>2
  <2>4. \A i \in 1..(n + 1) : more[i] \in Messages  BY <1>2, <1>6, <2>1
  <2> QED BY <1>3, <1>6, <2>1, <2>2, <2>3, <2>4
<1>9. /\ Len(left) = n + 1 /\ left[1] = sw(d)
      /\ \A i \in 2..(n + 1) : left[i] = sw(ms[i - 1])
  <2> HIDE DEF n
  <2>1. Len(sone) + Len(rest) = n + 1  BY <1>2, <1>4, <1>5
  <2>2. 1 \in 1..(n + 1)  BY <1>2
  <2>3. \A i \in 2..(n + 1) : i \in 1..(n + 1) /\ ~(i <= 1) /\ i - 1 \in 1..n  BY <1>2
  <2> QED BY <1>4, <1>5, <1>7, <2>1, <2>2, <2>3
<1>10. right \in Seq(P) /\ Len(right) = n + 1
  <2> HIDE DEF n
  <2> QED BY <1>1, <1>2, <1>8
<1>11. \A i \in 1..(n + 1) : left[i] = right[i]
  <2> HIDE DEF n
  <2> TAKE i \in 1..(n + 1)
  <2>1. CASE i = 1  BY <1>8, <1>9, <2>1
  <2>2. CASE i # 1
    <3>1. i \in 2..(n + 1)  BY <1>2, <2>2
    <3> QED BY <1>8, <1>9, <3>1
  <2> QED BY <2>1, <2>2
<1>12. Len(left) = Len(right) /\ \A i \in 1..Len(left) : left[i] = right[i]
  BY <1>9, <1>10, <1>11, Zenon
<1>13. left = right
  <2> HIDE DEF right
  <2> QED BY <1>7, <1>10, <1>12, SeqEqual, Zenon
<1>14. right = PacketsOf(more)  BY <1>8 DEF PacketsOf, sw
<1>15. rest = PacketsOf(ms)  BY DEF PacketsOf, sw, rest
<1> HIDE DEF right
<1> QED BY <1>6, <1>13, <1>14, <1>15 DEF left, sone, more, one, sw

\* while (0 == packetbuf->readPacket(packet)) reads every whole packet that is
\* there, in order, and leaves less than one behind, wherever TCP has cut the
\* stream.
LEMMA ReadsAnyCutWhole ==
  ASSUME NEW b \in Seq(Byte), NEW w \in Seq(Byte), b \o w \in Streams
  PROVE  ReadsWhole(b, w)
<1> DEFINE V == Seq(Byte)
           bad == {p \in V : p \o w \in Streams /\ ~ReadsWhole(p, w)}
           T == {Len(p) : p \in bad}
<1> SUFFICES ASSUME bad # {} PROVE FALSE  OBVIOUS
<1>1. T \in SUBSET Nat /\ T # {}
  <2>1. \A p \in bad : Len(p) \in Nat  OBVIOUS
  <2> HIDE DEF bad
  <2> QED BY <2>1
<1>2. PICK n \in T : \A k \in T : n <= k
  <2> HIDE DEF T
  <2> QED BY <1>1, Least
<1>3. PICK p \in bad : Len(p) = n  OBVIOUS
<1> DEFINE r == readFromBuffer(p)
           u == r.bytes
<1>4. p \in V /\ p \o w \in Streams /\ ~ReadsWhole(p, w) /\ Len(p) \in Nat  OBVIOUS
<1>5. ReadsFirst(p, w)  BY <1>4, ReadsAnyCut
<1>6. u \in V /\ u \o w \in Streams /\ u \o w \in V
  BY <1>5, StreamsClosed DEF ReadsFirst
<1>7. Frames[u \o w] \in Seq(Seq(Byte))  BY <1>6, FramesEquation
<1>8. CASE r.state = "more"
  <2>1. /\ Short(u) /\ Frames[p \o w] = Frames[u \o w]
    BY <1>5, <1>8 DEF ReadsFirst
  <2>2. ReadPackets[p] = [bytes |-> u, packets |-> <<>>]
    BY <1>4, <1>8, PacketsEquation
  <2>3. <<>> \in Seq(Messages) /\ <<>> = PacketsOf(<<>>)  BY DEF PacketsOf
  <2>4. <<>> \o Frames[u \o w] = Frames[u \o w]  BY <1>7, ConcatEmptySeq
  <2>5. ReadPackets[p].bytes = u /\ ReadPackets[p].packets = <<>>  BY <2>2
  <2> HIDE DEF u
  <2>6. ReadsWhole(p, w)  BY <1>6, <2>1, <2>3, <2>4, <2>5 DEF ReadsWhole
  <2> QED BY <1>4, <2>6
<1>9. CASE r.state = "read"
  <2>1. PICK d \in Messages :
          r.data = pack(d).buffer /\ Frames[p \o w] = <<d>> \o Frames[u \o w]
    BY <1>5, <1>9 DEF ReadsFirst
  <2>2. ReadsWhole(u, w)
    <3>1. Len(u) < Len(p)  BY <1>4, <1>9, ReadProgress
    <3>2. u \notin bad
      <4>1. Len(u) \in Nat  BY <1>6
      <4>2. Len(u) \in T => n <= Len(u)  BY <1>2
      <4>3. Len(u) \notin T
        <5> HIDE DEF T, u
        <5> QED BY <1>3, <1>4, <3>1, <4>1, <4>2
      <4> HIDE DEF bad, u
      <4> QED BY <4>3
    <3> HIDE DEF u
    <3> QED BY <1>6, <3>2
  <2> DEFINE v == ReadPackets[u].bytes
             q == ReadPackets[u].packets
             rest == Frames[v \o w]
             one == <<d>>
  <2>3. v \in V /\ Short(v) /\ v \o w \in Streams  BY <2>2 DEF ReadsWhole
  <2>4. PICK ms \in Seq(Messages) : q = PacketsOf(ms) /\ Frames[u \o w] = ms \o rest
    BY <2>2 DEF ReadsWhole
  <2>5. /\ ReadPackets[p].bytes = v
        /\ ReadPackets[p].packets = <<Swapped(r.data)>> \o q
    <3>1. ReadPackets[p] = [bytes |-> v, packets |-> <<Swapped(r.data)>> \o q]
      BY <1>4, <1>9, PacketsEquation
    <3> HIDE DEF v, q, r
    <3> QED BY <3>1
  <2>6. /\ one \o ms \in Seq(Messages)
        /\ <<Swapped(r.data)>> \o q = PacketsOf(one \o ms)
    BY <2>1, <2>4, PacketsOfMore
  <2>7. Frames[p \o w] = (one \o ms) \o rest
    <3>1. one \in Seq(V) /\ ms \in Seq(V)
      <4>1. Messages \subseteq V  BY PingPangAssumption
      <4>2. one \in Seq(Messages)  OBVIOUS
      <4> QED BY <4>1, <4>2, SeqMonotonic
    <3>2. rest \in Seq(V)
      <4>1. v \o w \in V  BY <2>3, StreamsClosed
      <4> QED BY <4>1, FramesEquation
    <3> HIDE DEF rest, one, V
    <3>3. (one \o ms) \o rest = one \o (ms \o rest)
      BY ONLY <3>1, <3>2, ConcatAssociative
    <3> QED BY <2>1, <2>4, <3>3 DEF one
  <2> HIDE DEF one, v, q, r, u
  <2>8. ReadsWhole(p, w)  BY <2>3, <2>5, <2>6, <2>7 DEF ReadsWhole, rest
  <2> QED BY <1>4, <2>8
<1> QED BY <1>5, <1>8, <1>9 DEF ReadsFirst

-----------------------------------------------------------------------------
(* Writing the packets back.                                               *)

\* What FlattenSeq computes: the strings joined one after the other.
LEMMA FlattenSteps ==
  ASSUME NEW seqs \in Seq(Seq(Byte)), Len(seqs) # 0
  PROVE  \E fl \in [1..Len(seqs) -> Seq(Byte)] :
            /\ FlattenSeq(seqs) = fl[Len(seqs)]
            /\ fl[1] = seqs[1]
            /\ \A i \in 2..Len(seqs) : fl[i] = fl[i - 1] \o seqs[i]
<1> DEFINE n == Len(seqs)
           I == 1..n
           V == Seq(Byte)
           Case(f, i) == IF i = 1 THEN seqs[i] ELSE f[i - 1] \o seqs[i]
           F(f) == [i \in I |-> Case(f, i)]
           Fs == [I -> V]
           Phi == [f \in Fs |-> F(f)]
           m == [i \in I |-> i]
           fl == CHOOSE g : g = F(g)
<1>0. n \in Nat /\ n # 0 /\ \A i \in I : seqs[i] \in V  OBVIOUS
<1>1. FlattenSeq(seqs) = fl[n]  BY DEF FlattenSeq
<1> HIDE DEF n
<1>2. m \in [I -> Nat]  OBVIOUS
<1>3. ASSUME NEW f \in Fs, NEW i \in I PROVE Case(f, i) \in V
  <2>1. CASE i = 1  BY <1>0, <2>1
  <2>2. CASE i # 1
    <3> DEFINE a == f[i - 1]
               b == seqs[i]
    <3>1. a \in Seq(Byte) /\ b \in Seq(Byte)  BY <1>0, <2>2
    <3> HIDE DEF a, b
    <3>2. a \o b \in Seq(Byte)  BY ONLY <3>1, ConcatProperties
    <3> QED BY <2>2, <3>2 DEF a, b
  <2> QED BY <2>1, <2>2
<1>4. Phi \in [Fs -> Fs] /\ \A f \in Fs : Phi[f] = F(f)
  <2> HIDE DEF Case
  <2>1. \A f \in Fs : F(f) \in Fs  BY <1>3
  <2> HIDE DEF F, Fs
  <2> QED BY <2>1
<1>5. ASSUME NEW g, NEW h, NEW x \in I, \A y \in I : m[y] < m[x] => g[y] = h[y]
      PROVE  F(g)[x] = F(h)[x]
  <2>1. CASE x = 1  BY <2>1
  <2>2. CASE x # 1
    <3>1. x - 1 \in I /\ m[x - 1] < m[x]  BY <1>0, <2>2
    <3>2. g[x - 1] = h[x - 1]
      <4> HIDE DEF m
      <4> QED BY <1>5, <3>1
    <3> QED BY <2>2, <3>2
  <2> QED BY <2>1, <2>2
<1>6. PICK f \in Fs : f = F(f)
  <2>1. Recursive(I, V, m, Phi)
    <3> SUFFICES ASSUME NEW g \in Fs, NEW h \in Fs, NEW x \in I,
                        \A y \in I : m[y] < m[x] => g[y] = h[y]
                 PROVE  Phi[g][x] = Phi[h][x]
      BY DEF Recursive
    <3> HIDE DEF F, Fs, m, Phi
    <3>1. F(g)[x] = F(h)[x]  BY <1>5
    <3> QED BY <1>4, <3>1
  <2>2. <<>> \in V  OBVIOUS
  <2>3. m \in [I -> Nat] /\ Phi \in [Fs -> Fs] /\ <<>> \in V
    BY <1>2, <1>4, <2>2
  <2> HIDE DEF m, Phi, V, I
  <2>4. HasFixpoint(I, V, Phi)  BY <2>1, <2>3, RecursiveDefinition, Zenon
  <2> HIDE DEF F
  <2> QED BY <1>4, <2>4 DEF HasFixpoint
<1>7. fl = F(fl)
  <2> HIDE DEF F
  <2> QED BY <1>6
<1>8. fl = f
  <2>1. fl = F(fl) /\ f = F(f)  BY <1>6, <1>7
  <2> HIDE DEF fl
  <2>2. /\ f = [x \in I |-> f[x]] /\ fl = [x \in I |-> fl[x]]
    <3> HIDE DEF Case
    <3> QED BY <2>1
  <2> HIDE DEF F, m
  <2>3. ASSUME NEW x \in I, \A y \in I : m[y] < m[x] => f[y] = fl[y]
        PROVE  f[x] = fl[x]
    <3>1. F(f)[x] = F(fl)[x]  BY <1>5, <2>3, Zenon
    <3> QED BY <2>1, <3>1, Zenon
  <2>4. Alike(I, m, f, fl)  BY <2>2, <2>3 DEF Alike
  <2>5. f = fl  BY <1>2, <2>4, SameFunction, Zenon
  <2> QED BY <2>5
<1>9. f \in Fs /\ FlattenSeq(seqs) = f[n]  BY <1>1, <1>8
<1>10. f[1] = seqs[1] /\ \A i \in 2..n : f[i] = f[i - 1] \o seqs[i]
  <2>1. \A i \in I : f[i] = Case(f, i)
    <3> HIDE DEF Case
    <3> QED BY <1>6
  <2>2. 1 \in I /\ \A i \in 2..n : i \in I /\ i # 1  BY <1>0
  <2> QED BY <2>1, <2>2
<1> QED BY <1>9, <1>10 DEF n

\* The packets that were read, written one after the other, are a stream of the
\* same messages.
LEMMA WrittenBack ==
  ASSUME NEW ms \in Seq(Messages)
  PROVE  /\ FlattenSeq(Buffers(PacketsOf(ms))) \in Streams
         /\ Frames[FlattenSeq(Buffers(PacketsOf(ms)))] = ms
<1> DEFINE n == Len(ms)
           seqs == [i \in 1..n |-> pack(ms[i]).buffer]
<1>1. n \in Nat /\ \A i \in 1..n : ms[i] \in Messages  OBVIOUS
<1>2. Buffers(PacketsOf(ms)) = seqs
  <2>1. DOMAIN PacketsOf(ms) = 1..n  BY DEF PacketsOf
  <2>2. \A i \in 1..n : PacketsOf(ms)[i].buffer = pack(ms[i]).buffer
    BY DEF PacketsOf, Swapped
  <2> QED BY <2>1, <2>2 DEF Buffers
<1>3. seqs \in Seq(Seq(Byte)) /\ Len(seqs) = n
  <2> HIDE DEF n
  <2>1. \A i \in 1..n : pack(ms[i]).buffer \in Seq(Byte)  BY <1>1, MessageFacts
  <2> QED BY <1>1, <2>1
<1>4. CASE n = 0
  <2>1. seqs = <<>> /\ ms = <<>>
    <3>1. seqs = <<>>
      <4> HIDE DEF seqs
      <4> QED BY <1>3, <1>4
    <3> QED BY <1>4, <3>1
  <2>2. FlattenSeq(seqs) = seqs
    <3> HIDE DEF seqs
    <3> QED BY <1>3, <1>4 DEF FlattenSeq
  <2> QED BY <1>2, <2>1, <2>2, EmptyStream
<1>5. CASE n # 0
  <2>1. PICK fl \in [1..n -> Seq(Byte)] :
          /\ FlattenSeq(seqs) = fl[n]
          /\ fl[1] = seqs[1]
          /\ \A i \in 2..n : fl[i] = fl[i - 1] \o seqs[i]
    <3> HIDE DEF seqs
    <3>1. Len(seqs) # 0  BY <1>3, <1>5
    <3> QED BY <1>3, <3>1, FlattenSteps
  <2> DEFINE Fine(i) == i \in 1..n =>
                          fl[i] \in Streams /\ Frames[fl[i]] = SubSeq(ms, 1, i)
             T == {i \in Nat : Fine(i)}
  <2>2. Fine(0)  BY <1>1
  <2>3. ASSUME NEW i \in Nat, Fine(i) PROVE Fine(i + 1)
    <3> SUFFICES ASSUME i + 1 \in 1..n
                 PROVE  /\ fl[i + 1] \in Streams
                        /\ Frames[fl[i + 1]] = SubSeq(ms, 1, i + 1)
      OBVIOUS
    <3> DEFINE d == ms[i + 1]
               one == <<d>>
               some == SubSeq(ms, 1, i)
    <3>1. d \in Messages /\ seqs[i + 1] = pack(d).buffer  BY <1>1
    <3>2. pack(d).buffer \in Streams /\ Frames[pack(d).buffer] = one
      BY <3>1, PacketIsStream
    <3>3. some \o one = SubSeq(ms, 1, i + 1)
      <4>1. 1 \in 1..n /\ i + 1 \in 1..n  BY <1>1
      <4> HIDE DEF n
      <4>2. 1 \in 1..Len(ms) /\ i + 1 \in 1..Len(ms)  BY <4>1 DEF n
      <4>3. SubSeq(ms, 1, i + 1) = SubSeq(ms, 1, (i + 1) - 1) \o <<ms[i + 1]>>
        BY <4>2, SubSeqRecursiveSecond
      <4>4. (i + 1) - 1 = i  OBVIOUS
      <4> QED BY <4>3, <4>4
    <3>4. CASE i = 0
      <4>1. fl[i + 1] = pack(d).buffer  BY <2>1, <3>1, <3>4
      <4>2. some \o one = one
        <5>1. some = <<>>  BY <3>4
        <5>2. one \in Seq(Messages)  BY <3>1
        <5> HIDE DEF one, some
        <5> QED BY <5>1, <5>2, ConcatEmptySeq
      <4> QED BY <3>2, <3>3, <4>1, <4>2
    <3>5. CASE i # 0
      <4>1. i \in 1..n /\ i + 1 \in 2..n /\ (i + 1) - 1 = i  BY <1>1, <3>5
      <4>2. fl[i] \in Streams /\ Frames[fl[i]] = some  BY <2>3, <4>1
      <4>3. fl[i + 1] = fl[i] \o pack(d).buffer
        <5>1. fl[i + 1] = fl[(i + 1) - 1] \o seqs[i + 1]  BY <2>1, <4>1
        <5> HIDE DEF seqs
        <5> QED BY <3>1, <4>1, <5>1
      <4> HIDE DEF one, some, d
      <4>4. /\ fl[i] \o pack(d).buffer \in Streams
            /\ Frames[fl[i] \o pack(d).buffer] = Frames[fl[i]] \o Frames[pack(d).buffer]
        BY <3>2, <4>2, StreamsJoin
      <4> QED BY <3>2, <3>3, <4>2, <4>3, <4>4
    <3> QED BY <3>4, <3>5
  <2> HIDE DEF Fine
  <2>4. T \in SUBSET Nat /\ 0 \in T /\ \A i \in T : i + 1 \in T  BY <2>2, <2>3
  <2>5. T = Nat
    <3> HIDE DEF T
    <3> QED BY <2>4, SetInduction
  <2>6. Fine(n)  BY <1>1, <2>5
  <2>7. SubSeq(ms, 1, n) = ms  BY SubSeqFull
  <2>8. n \in 1..n  BY <1>1, <1>5
  <2> HIDE DEF n, seqs
  <2> QED BY <1>2, <2>1, <2>6, <2>7, <2>8 DEF Fine
<1> QED BY <1>4, <1>5

-----------------------------------------------------------------------------
(* The inductive invariant.                                                *)

\* The inductive invariant: what either side has still to handle is a stream of
\* whole packets and noise, wherever reads have cut it; its buffer holds less
\* than one packet of it; what it was last handed were packets of messages.
\* Without buffers nothing is kept back.
PacketInv ==
    /\ mode \in Modes
    /\ wire \in [Sides -> Seq(Byte)] /\ buf \in [Sides -> Seq(Byte)]
    /\ got \in [Sides -> Seq([buffer : Seq(Byte), dataSize : Nat])]
    /\ \A s \in Sides : \E ms \in Seq(Messages) : got[s] = PacketsOf(ms)
    /\ \A s \in Sides : IF mode = "NoBuffer" THEN buf[s] = <<>>
                        ELSE Stream(s) \in Streams /\ Short(buf[s])
    /\ ~refused

\* The messages side s has still to handle.
Pending(s) == Parsed(Stream(s))

\* The two sides are each other's peer.
LEMMA Peers ==
  ASSUME NEW s \in Sides
  PROVE  /\ Peer(s) \in Sides /\ Peer(s) # s
         /\ Peer("server") = "client" /\ Peer("client") = "server"
         /\ "server" \in Sides /\ "client" \in Sides
BY DEF Sides, Peer

\* What is taken off the front and what is left make up the whole.
LEMMA TakeAndDrop ==
  ASSUME NEW S, NEW s \in Seq(S), NEW n \in Nat, n <= Len(s)
  PROVE  /\ SubSeq(s, 1, n) \in Seq(S) /\ Len(SubSeq(s, 1, n)) = n
         /\ Drop(s, n) \in Seq(S)
         /\ SubSeq(s, 1, n) \o Drop(s, n) = s
<1>1. Len(s) \in Nat  OBVIOUS
<1>2. SubSeq(s, 1, n) \in Seq(S) /\ Len(SubSeq(s, 1, n)) = n  BY <1>1
<1>3. Drop(s, n) \in Seq(S)  BY DropType
<1>4. SubSeq(s, 1, n) \o Drop(s, n) = s
  <2>1. 1 \in 1..(Len(s) + 1) /\ n \in (1 - 1)..Len(s) /\ Len(s) \in n..Len(s)
    BY <1>1
  <2>2. SubSeq(s, 1, n) \o SubSeq(s, n + 1, Len(s)) = SubSeq(s, 1, Len(s))
    BY <2>1, ConcatAdjacentSubSeq
  <2> QED BY <2>2, SubSeqFull DEF Drop
<1> QED BY <1>2, <1>3, <1>4

\* Bytes that are messages of their own, one by one.
LEMMA SinglesJoin ==
  ASSUME NEW a \in Seq(Byte), NEW b \in Seq(Byte)
  PROVE  /\ Singles(a) \in Seq(Seq(Byte)) /\ Singles(b) \in Seq(Seq(Byte))
         /\ Singles(a \o b) = Singles(a) \o Singles(b)
<1> DEFINE one(x) == <<x>>
           c == a \o b
           u == Singles(a)
           v == Singles(b)
           w == Singles(c)
           m == Len(a)
           n == Len(b)
<1>1. m \in Nat /\ n \in Nat  OBVIOUS
<1>2. c \in Seq(Byte) /\ Len(c) = Len(a) + Len(b)
      /\ \A i \in 1..(Len(a) + Len(b)) : c[i] = IF i <= Len(a) THEN a[i] ELSE b[i - Len(a)]
  BY ConcatProperties, Zenon
<1>3. ASSUME NEW s \in Seq(Byte)
      PROVE  /\ Singles(s) \in Seq(Seq(Byte)) /\ Len(Singles(s)) = Len(s)
             /\ \A i \in 1..Len(s) : Singles(s)[i] = one(s[i])
  <2>1. Singles(s) = [i \in 1..Len(s) |-> one(s[i])]  BY DEF Singles
  <2>2. Len(s) \in Nat /\ \A i \in 1..Len(s) : one(s[i]) \in Seq(Byte)  OBVIOUS
  <2> HIDE DEF one
  <2> QED BY <2>1, <2>2
<1>4. /\ u \in Seq(Seq(Byte)) /\ Len(u) = m /\ \A i \in 1..m : u[i] = one(a[i])
      /\ v \in Seq(Seq(Byte)) /\ Len(v) = n /\ \A i \in 1..n : v[i] = one(b[i])
  BY <1>3
<1> HIDE DEF c
<1>5. w \in Seq(Seq(Byte)) /\ Len(w) = m + n /\ \A i \in 1..(m + n) : w[i] = one(c[i])
  <2> HIDE DEF one, w
  <2>1. w \in Seq(Seq(Byte)) /\ Len(w) = Len(c) /\ \A i \in 1..Len(c) : w[i] = one(c[i])
    BY <1>2, <1>3 DEF w
  <2> QED BY <1>2, <2>1
<1> DEFINE uv == u \o v
<1> HIDE DEF u, v, w, one
<1>6. /\ uv \in Seq(Seq(Byte)) /\ Len(uv) = Len(u) + Len(v)
      /\ \A i \in 1..(Len(u) + Len(v)) : uv[i] = IF i <= Len(u) THEN u[i] ELSE v[i - Len(u)]
  <2>1. u \in Seq(Seq(Byte)) /\ v \in Seq(Seq(Byte))  BY <1>4
  <2> QED BY ONLY <2>1, ConcatProperties
<1> HIDE DEF uv
<1>7. \A i \in 1..(m + n) : uv[i] = w[i]
  <2>1. /\ Len(uv) = m + n
        /\ \A i \in 1..(m + n) : uv[i] = IF i <= m THEN u[i] ELSE v[i - m]
        /\ \A i \in 1..(m + n) : c[i] = IF i <= m THEN a[i] ELSE b[i - m]
    BY <1>2, <1>4, <1>6
  <2> HIDE DEF m, n
  <2> TAKE i \in 1..(m + n)
  <2>2. CASE i <= m
    <3>1. i \in 1..m  BY <1>1, <2>2
    <3> QED BY <1>4, <1>5, <2>1, <2>2, <3>1
  <2>3. CASE ~(i <= m)
    <3>1. i - m \in 1..n  BY <1>1, <2>3
    <3> QED BY <1>4, <1>5, <2>1, <2>3, <3>1
  <2> QED BY <2>2, <2>3
<1>8. Len(uv) = Len(w) /\ \A i \in 1..Len(uv) : uv[i] = w[i]
  BY <1>4, <1>5, <1>6, <1>7
<1>9. uv = w  BY <1>5, <1>6, <1>8, SeqEqual, Zenon
<1> QED BY <1>4, <1>9 DEF uv, u, v, w, c

\* A buffer that holds less than a packet has room for one read.
LEMMA RoomForRead ==
  ASSUME PacketInv, NEW s \in Sides, NEW n \in 1..MaxRead, mode # "NoBuffer"
  PROVE  Fits(s, n)
<1> USE DEF PacketMinSize
<1>1. mode \in {"NoBuffer", "CycleBuffer", "ListBuffer"} /\ MaxRead \in Nat /\ Capacity \in Nat
  BY PingPangAssumption DEF PacketInv
<1>2. CASE mode = "ListBuffer"  BY <1>2 DEF Fits
<1>3. CASE mode = "CycleBuffer"
  <2>1. 3 + MaxRead <= Capacity /\ \A d \in Messages : Len(d) + 3 + MaxRead <= Capacity
    <3>1. "CycleBuffer" \in Modes  BY <1>3 DEF PacketInv
    <3>2. 4 - 1 + MaxRead <= Capacity /\ \A d \in Messages : Len(d) + 4 - 1 + MaxRead <= Capacity
      BY <3>1, RoomAssumption
    <3>3. \A d \in Messages : Len(d) \in Nat  BY MessageFacts
    <3> QED BY <1>1, <3>2, <3>3
  <2>2. Short(buf[s]) /\ buf[s] \in Seq(Byte)  BY <1>3 DEF PacketInv
  <2>3. Len(buf[s]) \in Nat  BY <2>2
  <2> DEFINE k == Len(buf[s])
  <2>4. CASE k < 4
    <3>1. k + n <= Capacity
      <4> HIDE DEF k
      <4> QED BY <1>1, <2>1, <2>3, <2>4 DEF k
    <3> QED BY <3>1 DEF Fits
  <2>5. CASE \E d \in Messages : k < Len(d) + 4
    <3>1. PICK d \in Messages : k < Len(d) + 4  BY <2>5
    <3>2. Len(d) \in Nat /\ Len(d) + 3 + MaxRead <= Capacity  BY <2>1, MessageFacts
    <3>3. k + n <= Capacity
      <4> HIDE DEF k
      <4> QED BY <1>1, <2>3, <3>1, <3>2 DEF k
    <3> QED BY <3>3 DEF Fits
  <2> QED BY <2>2, <2>4, <2>5 DEF Short
<1> QED BY <1>1, <1>2, <1>3

-----------------------------------------------------------------------------
(* newMessage() keeps the invariant and echoes whole messages.             *)

\* Either way of taking a string apart gives messages.
LEMMA ParsedType ==
  ASSUME NEW b \in Seq(Byte)
  PROVE  Singles(b) \in Seq(Seq(Byte)) /\ Frames[b] \in Seq(Seq(Byte))
BY SinglesJoin, FramesEquation

\* Side s has taken messages off what it had to handle, and given the same to
\* its peer.
Echoed(s) ==
    \E ms \in Seq(Seq(Byte)) :
        /\ Pending(s)' \in Seq(Seq(Byte)) /\ Pending(s) = ms \o Pending(s)'
        /\ Pending(Peer(s))' = Pending(Peer(s)) \o ms

\* newMessage() without buffers hands on the bytes of one read.
LEMMA EchoWithoutBuffer ==
  ASSUME PacketInv, NEW s \in Sides, NEW n \in 1..MaxRead, n <= Len(wire[s]),
         mode = "NoBuffer", NewMessage(s, n)
  PROVE  PacketInv' /\ Echoed(s)
<1> DEFINE V == Seq(Byte)
           o == Peer(s)
           chunk == SubSeq(wire[s], 1, n)
           rest == Drop(wire[s], n)
<1>1. o \in Sides /\ o # s  BY Peers
<1>2. /\ wire \in [Sides -> V] /\ buf \in [Sides -> V] /\ wire[s] \in V /\ wire[o] \in V
      /\ buf[s] = <<>> /\ buf[o] = <<>>
  BY <1>1 DEF PacketInv
<1>3. n \in Nat  BY PingPangAssumption
<1>4. chunk \in V /\ rest \in V /\ chunk \o rest = wire[s]
  <2>1. wire[s] \in Seq(Byte) /\ n \in Nat /\ n <= Len(wire[s])  BY <1>2, <1>3
  <2> QED BY ONLY <2>1, TakeAndDrop
<1>5. /\ wire' = [[wire EXCEPT ![s] = Drop(@, n)] EXCEPT ![o] = @ \o chunk]
      /\ UNCHANGED <<mode, buf, got, sent, noise, refused>>
  BY DEF NewMessage
<1> DEFINE back == wire[o] \o chunk
<1> HIDE DEF chunk, rest, o
<1>6. back \in V
  <2>1. wire[o] \in Seq(Byte) /\ chunk \in Seq(Byte)  BY <1>2, <1>4
  <2> QED BY ONLY <2>1, ConcatProperties
<1>7. /\ wire'[s] = rest /\ wire'[o] = back /\ wire' \in [Sides -> V]
  BY <1>1, <1>2, <1>4, <1>5, <1>6 DEF rest
<1> HIDE DEF back
<1>8. PacketInv'
  BY <1>5, <1>7 DEF PacketInv
<1>9. /\ Pending(s) = Singles(wire[s]) /\ Pending(o) = Singles(wire[o])
      /\ Pending(s)' = Singles(rest) /\ Pending(o)' = Singles(back)
  <2>1. \A x \in V : <<>> \o x = x  BY ConcatEmptySeq
  <2>2. Stream(s) = wire[s] /\ Stream(o) = wire[o]  BY <1>2, <2>1 DEF Stream
  <2>3. Stream(s)' = rest /\ Stream(o)' = back
    BY <1>2, <1>4, <1>5, <1>6, <1>7, <2>1 DEF Stream
  <2> QED BY <1>5, <2>2, <2>3 DEF Pending, Parsed
<1>10. /\ Singles(rest) \in Seq(Seq(Byte)) /\ Singles(chunk) \in Seq(Seq(Byte))
       /\ Singles(wire[s]) = Singles(chunk) \o Singles(rest)
       /\ Singles(back) = Singles(wire[o]) \o Singles(chunk)
  BY <1>2, <1>4, SinglesJoin DEF back
<1>11. Echoed(s)  BY <1>9, <1>10 DEF Echoed, o
<1> QED BY <1>8, <1>11

\* newMessage() with a buffer hands on the packets that are whole, and keeps
\* the start of the next one.
LEMMA EchoWithBuffer ==
  ASSUME PacketInv, NEW s \in Sides, NEW n \in 1..MaxRead, n <= Len(wire[s]),
         mode # "NoBuffer", NewMessage(s, n)
  PROVE  PacketInv' /\ Echoed(s)
<1> DEFINE V == Seq(Byte)
           P == [buffer : Seq(Byte), dataSize : Nat]
           o == Peer(s)
           chunk == SubSeq(wire[s], 1, n)
           rest == Drop(wire[s], n)
           b == buf[s] \o chunk
           left == ReadPackets[b].bytes
           packets == ReadPackets[b].packets
           flat == FlattenSeq(Buffers(packets))
           back == wire[o] \o flat
<1>1. o \in Sides /\ o # s  BY Peers
<1>2. /\ wire \in [Sides -> V] /\ buf \in [Sides -> V] /\ wire[s] \in V /\ wire[o] \in V
      /\ buf[s] \in V /\ buf[o] \in V
      /\ Stream(s) \in Streams /\ Stream(o) \in Streams /\ Short(buf[o])
      /\ got \in [Sides -> Seq(P)]
  BY <1>1 DEF PacketInv
<1>3. n \in Nat /\ Fits(s, n)  BY PingPangAssumption, RoomForRead
<1>4. chunk \in V /\ rest \in V /\ chunk \o rest = wire[s]
  <2>1. wire[s] \in Seq(Byte) /\ n \in Nat /\ n <= Len(wire[s])  BY <1>2, <1>3
  <2> QED BY ONLY <2>1, TakeAndDrop
<1>5. /\ buf' = [buf EXCEPT ![s] = left]
      /\ got' = [got EXCEPT ![s] = packets]
      /\ wire' = [[wire EXCEPT ![s] = Drop(@, n)] EXCEPT ![o] = @ \o flat]
      /\ refused' = (refused \/ ~Fits(s, n))
      /\ UNCHANGED <<mode, sent, noise>>
  BY <1>3 DEF NewMessage, ReadAll
<1> HIDE DEF chunk, rest, o
<1>6. b \in V /\ b \o rest = Stream(s)
  <2>1. buf[s] \in Seq(Byte) /\ chunk \in Seq(Byte) /\ rest \in Seq(Byte)  BY <1>2, <1>4
  <2>2. b \in V  BY <2>1, ConcatProperties
  <2>3. (buf[s] \o chunk) \o rest = buf[s] \o (chunk \o rest)
    <3> DEFINE x == buf[s]
    <3>1. x \in Seq(Byte)  BY <2>1
    <3> HIDE DEF x
    <3>2. (x \o chunk) \o rest = x \o (chunk \o rest)
      BY <2>1, <3>1, ConcatAssociative
    <3> QED BY <3>2 DEF x
  <2> QED BY <1>4, <2>2, <2>3 DEF Stream
<1> HIDE DEF b
<1>7. ReadsWhole(b, rest)  BY <1>2, <1>4, <1>6, ReadsAnyCutWhole
<1>8. left \in V /\ Short(left) /\ left \o rest \in Streams  BY <1>7 DEF ReadsWhole
<1>9. PICK ms \in Seq(Messages) :
        packets = PacketsOf(ms) /\ Frames[Stream(s)] = ms \o Frames[left \o rest]
  BY <1>6, <1>7 DEF ReadsWhole
<1>10. packets \in Seq(P)
  BY <1>6, PacketsEquation DEF PacketsRead
<1> HIDE DEF left
<1>11. flat \in Streams /\ Frames[flat] = ms /\ flat \in V
  BY <1>9, WrittenBack, StreamsClosed
<1> HIDE DEF flat, packets
<1>12. back \in V /\ buf[o] \o back = Stream(o) \o flat
  <2>1. buf[o] \in Seq(Byte) /\ wire[o] \in Seq(Byte) /\ flat \in Seq(Byte)
    BY <1>2, <1>11
  <2>2. (buf[o] \o wire[o]) \o flat = buf[o] \o (wire[o] \o flat)
    <3> DEFINE x == buf[o]
               y == wire[o]
    <3>1. x \in Seq(Byte) /\ y \in Seq(Byte) /\ flat \in Seq(Byte)  BY <2>1
    <3> HIDE DEF x, y
    <3>2. (x \o y) \o flat = x \o (y \o flat)
      BY ONLY <3>1, ConcatAssociative
    <3> QED BY <3>2 DEF x, y
  <2>3. back \in V  BY <2>1, ConcatProperties
  <2> QED BY <2>2, <2>3 DEF Stream
<1>13. /\ wire'[s] = rest /\ wire'[o] = back /\ wire' \in [Sides -> V]
  <2> HIDE DEF back
  <2>1. wire' = [[wire EXCEPT ![s] = rest] EXCEPT ![o] = back]
    BY <1>1, <1>2, <1>5 DEF rest, back
  <2> QED BY <1>1, <1>2, <1>4, <1>12, <2>1
<1>14. /\ buf'[s] = left /\ buf'[o] = buf[o] /\ buf' \in [Sides -> V]
  BY <1>1, <1>2, <1>5, <1>8
<1>15. Stream(s)' = left \o rest /\ Stream(o)' = Stream(o) \o flat
  <2> HIDE DEF back
  <2> QED BY <1>12, <1>13, <1>14 DEF Stream
<1>16. /\ Stream(o) \o flat \in Streams
       /\ Frames[Stream(o) \o flat] = Frames[Stream(o)] \o ms
  BY <1>2, <1>11, StreamsJoin
<1> HIDE DEF back
<1>17. PacketInv'
  <2>1. mode' \in Modes /\ ~refused'  BY <1>3, <1>5 DEF PacketInv
  <2>2. wire' \in [Sides -> V] /\ buf' \in [Sides -> V]  BY <1>13, <1>14
  <2>3. got' \in [Sides -> Seq(P)]  BY <1>2, <1>5, <1>10
  <2>4. \A q \in Sides : \E m \in Seq(Messages) : got'[q] = PacketsOf(m)
    <3> SUFFICES ASSUME NEW q \in Sides
                 PROVE  \E m \in Seq(Messages) : got'[q] = PacketsOf(m)
      OBVIOUS
    <3>1. CASE q = s  BY <1>2, <1>5, <1>9, <3>1
    <3>2. CASE q # s
      <4>1. got'[q] = got[q]  BY <1>2, <1>5, <3>2
      <4> QED BY <4>1 DEF PacketInv
    <3> QED BY <3>1, <3>2
  <2>5. \A q \in Sides : q = s \/ q = o  BY <1>1 DEF Sides, o
  <2>6. /\ Stream(s)' \in Streams /\ Short(buf'[s])
        /\ Stream(o)' \in Streams /\ Short(buf'[o])
    BY <1>2, <1>8, <1>14, <1>15, <1>16
  <2>7. mode' # "NoBuffer"  BY <1>5
  <2>8. \A q \in Sides : Stream(q)' \in Streams /\ Short(buf'[q])  BY <2>5, <2>6
  <2> QED BY <2>1, <2>2, <2>3, <2>4, <2>7, <2>8 DEF PacketInv
<1>18. /\ Pending(s) = Frames[Stream(s)] /\ Pending(o) = Frames[Stream(o)]
       /\ Pending(s)' = Frames[left \o rest] /\ Pending(o)' = Frames[Stream(o) \o flat]
  BY <1>5, <1>15 DEF Pending, Parsed
<1>19. ms \in Seq(Seq(Byte)) /\ Frames[left \o rest] \in Seq(Seq(Byte))
  <2>1. Messages \subseteq Seq(Byte)  BY PingPangAssumption
  <2>2. ms \in Seq(Seq(Byte))  BY <2>1, SeqMonotonic
  <2>3. left \o rest \in Seq(Byte)  BY <1>8, StreamsClosed
  <2> QED BY <2>2, <2>3, ParsedType
<1>20. Echoed(s)  BY <1>9, <1>16, <1>18, <1>19 DEF Echoed, o
<1> QED BY <1>17, <1>20

-----------------------------------------------------------------------------
(* The other actions.                                                      *)

\* sendTestMessage() adds its message, whole, behind what the server has to
\* handle.
LEMMA SendStep ==
  ASSUME PacketInv, NEW d \in Messages, SendTestMessage(d)
  PROVE  /\ PacketInv'
         /\ \E batch \in {<<d>>, Singles(d)} :
               Pending("server")' = Pending("server") \o batch
         /\ Pending("client")' = Pending("client")
<1> DEFINE V == Seq(Byte)
           S == "server"
           out == Framed(d)
           more == wire[S] \o out
<1>1. S \in Sides /\ "client" \in Sides /\ "client" # S
      /\ \A q \in Sides : q = S \/ q = "client"
  BY DEF Sides
<1>2. /\ wire \in [Sides -> V] /\ buf \in [Sides -> V]
      /\ wire[S] \in V /\ buf[S] \in V
  BY <1>1 DEF PacketInv
<1>3. out \in V
  <2>1. d \in V /\ pack(d).buffer \in V  BY MessageFacts
  <2> QED BY <2>1 DEF Framed
<1>4. /\ wire' = [wire EXCEPT ![S] = @ \o out]
      /\ UNCHANGED <<mode, buf, got, refused>>
  BY DEF SendTestMessage
<1> HIDE DEF out
<1>5. more \in V /\ buf[S] \o more = Stream(S) \o out
  <2> DEFINE x == buf[S]
             y == wire[S]
  <2>1. x \in Seq(Byte) /\ y \in Seq(Byte) /\ out \in Seq(Byte)  BY <1>2, <1>3
  <2> HIDE DEF x, y
  <2>2. (x \o y) \o out = x \o (y \o out)  BY ONLY <2>1, ConcatAssociative
  <2>3. y \o out \in Seq(Byte)  BY <2>1, ConcatProperties
  <2> QED BY <2>2, <2>3 DEF Stream, x, y
<1>6. /\ wire'[S] = more /\ wire'["client"] = wire["client"] /\ wire' \in [Sides -> V]
  <2>1. wire' = [wire EXCEPT ![S] = more]  BY <1>4
  <2> HIDE DEF more
  <2> QED BY <1>1, <1>2, <1>5, <2>1
<1> HIDE DEF more
<1>7. /\ Stream(S)' = Stream(S) \o out /\ Stream("client")' = Stream("client")
  BY <1>4, <1>5, <1>6 DEF Stream
<1>8. Pending("client")' = Pending("client")
  BY <1>4, <1>7 DEF Pending, Parsed
<1>9. CASE mode = "NoBuffer"
  <2>1. PacketInv'  BY <1>4, <1>6, <1>9 DEF PacketInv
  <2>2. out = d /\ d \in V  BY <1>9, MessageFacts DEF Framed, out
  <2>3. Stream(S) \in V
    <3> DEFINE x == buf[S]
               y == wire[S]
    <3>1. x \in Seq(Byte) /\ y \in Seq(Byte)  BY <1>2
    <3> HIDE DEF x, y
    <3>2. x \o y \in Seq(Byte)  BY <3>1, ConcatProperties
    <3> QED BY <3>2 DEF Stream, x, y
  <2>4. Pending(S)' = Singles(Stream(S) \o d) /\ Pending(S) = Singles(Stream(S))
    BY <1>4, <1>7, <1>9, <2>2 DEF Pending, Parsed
  <2>5. Pending(S)' = Pending(S) \o Singles(d)  BY <2>2, <2>3, <2>4, SinglesJoin
  <2> QED BY <1>8, <2>1, <2>5
<1>10. CASE mode # "NoBuffer"
  <2>1. out \in Streams /\ Frames[out] = <<d>>
    BY <1>10, PacketIsStream DEF Framed, out
  <2>2. Stream(S) \in Streams /\ Stream("client") \in Streams
        /\ Short(buf[S]) /\ Short(buf["client"])
    BY <1>1, <1>10 DEF PacketInv
  <2>3. /\ Stream(S) \o out \in Streams
        /\ Frames[Stream(S) \o out] = Frames[Stream(S)] \o <<d>>
    <3> DEFINE x == Stream(S)
    <3>1. x \in Streams  BY <2>2
    <3> HIDE DEF x
    <3>2. x \o out \in Streams /\ Frames[x \o out] = Frames[x] \o Frames[out]
      BY <2>1, <3>1, StreamsJoin
    <3> QED BY <2>1, <3>2 DEF x
  <2>4. PacketInv'
    <3>1. /\ Stream(S)' \in Streams /\ Stream("client")' \in Streams
          /\ Short(buf'[S]) /\ Short(buf'["client"])
      BY <1>4, <1>7, <2>2, <2>3
    <3>2. \A q \in Sides : Stream(q)' \in Streams /\ Short(buf'[q])  BY <1>1, <3>1
    <3> QED BY <1>4, <1>6, <1>10, <3>2 DEF PacketInv
  <2>5. Pending(S)' = Pending(S) \o <<d>>
    BY <1>4, <1>7, <1>10, <2>3 DEF Pending, Parsed
  <2> QED BY <1>8, <2>4, <2>5
<1> QED BY <1>9, <1>10

\* Bare bytes without a head byte change nothing for those who read packets.
LEMMA BareStep ==
  ASSUME PacketInv, NEW z \in Noises, WriteBare(z)
  PROVE  PacketInv' /\ \A s \in Sides : Pending(s)' = Pending(s)
<1> DEFINE V == Seq(Byte)
           S == "server"
           more == wire[S] \o z
<1>1. S \in Sides /\ "client" \in Sides /\ "client" # S
      /\ \A q \in Sides : q = S \/ q = "client"
  BY DEF Sides
<1>2. /\ wire \in [Sides -> V] /\ buf \in [Sides -> V]
      /\ wire[S] \in V /\ buf[S] \in V
  BY <1>1 DEF PacketInv
<1>3. z \in Streams /\ Frames[z] = <<>> /\ z \in V  BY NoiseIsStream, StreamsClosed
<1>4. /\ wire' = [wire EXCEPT ![S] = @ \o z] /\ mode # "NoBuffer"
      /\ UNCHANGED <<mode, buf, got, refused>>
  BY DEF WriteBare
<1>5. more \in V /\ buf[S] \o more = Stream(S) \o z
  <2> DEFINE x == buf[S]
             y == wire[S]
  <2>1. x \in Seq(Byte) /\ y \in Seq(Byte) /\ z \in Seq(Byte)  BY <1>2, <1>3
  <2> HIDE DEF x, y
  <2>2. (x \o y) \o z = x \o (y \o z)  BY ONLY <2>1, ConcatAssociative
  <2>3. y \o z \in Seq(Byte)  BY <2>1, ConcatProperties
  <2> QED BY <2>2, <2>3 DEF Stream, x, y
<1>6. /\ wire'[S] = more /\ wire'["client"] = wire["client"] /\ wire' \in [Sides -> V]
  <2>1. wire' = [wire EXCEPT ![S] = more]  BY <1>4
  <2> HIDE DEF more
  <2> QED BY <1>1, <1>2, <1>5, <2>1
<1> HIDE DEF more
<1>7. /\ Stream(S)' = Stream(S) \o z /\ Stream("client")' = Stream("client")
  BY <1>4, <1>5, <1>6 DEF Stream
<1>8. Stream(S) \in Streams /\ Stream("client") \in Streams
      /\ Short(buf[S]) /\ Short(buf["client"])
  BY <1>1, <1>4 DEF PacketInv
<1>9. Stream(S) \o z \in Streams /\ Frames[Stream(S) \o z] = Frames[Stream(S)]
  <2>1. Stream(S) \o z \in Streams /\ Frames[Stream(S) \o z] = Frames[Stream(S)] \o <<>>
    <3> DEFINE x == Stream(S)
    <3>1. x \in Streams  BY <1>8
    <3> HIDE DEF x
    <3>2. x \o z \in Streams /\ Frames[x \o z] = Frames[x] \o Frames[z]
      BY <1>3, <3>1, StreamsJoin
    <3> QED BY <1>3, <3>2 DEF x
  <2>2. Frames[Stream(S)] \in Seq(Seq(Byte))  BY <1>8, StreamsClosed, ParsedType
  <2>3. Frames[Stream(S)] \o <<>> = Frames[Stream(S)]
    <3> DEFINE x == Frames[Stream(S)]
    <3> HIDE DEF x
    <3>1. x \in Seq(Seq(Byte))  BY <2>2 DEF x
    <3>2. x \o <<>> = x  BY <3>1, ConcatEmptySeq
    <3> QED BY <3>2 DEF x
  <2> QED BY <2>1, <2>3
<1>10. PacketInv'
  <2>1. /\ Stream(S)' \in Streams /\ Stream("client")' \in Streams
        /\ Short(buf'[S]) /\ Short(buf'["client"])
    BY <1>4, <1>7, <1>8, <1>9
  <2>2. \A q \in Sides : Stream(q)' \in Streams /\ Short(buf'[q])  BY <1>1, <2>1
  <2> QED BY <1>4, <1>6, <2>2 DEF PacketInv
<1>11. Pending(S)' = Pending(S) /\ Pending("client")' = Pending("client")
  BY <1>4, <1>7, <1>9 DEF Pending, Parsed
<1> QED BY <1>1, <1>10, <1>11

\* The invariant holds at first.
LEMMA InitPacketInv == Init => PacketInv /\ \A s \in Sides : Pending(s) = <<>>
<1> SUFFICES ASSUME Init PROVE PacketInv /\ \A s \in Sides : Pending(s) = <<>>
  OBVIOUS
<1>1. <<>> \in Seq(Byte) /\ <<>> \o <<>> = <<>> /\ Len(<<>>) = 0
  BY EmptyStream, ConcatEmptySeq
<1>2. \A s \in Sides : Stream(s) = <<>> /\ buf[s] = <<>>
  BY <1>1 DEF Init, Stream
<1>3. <<>> \in Seq(Messages) /\ PacketsOf(<<>>) = <<>>  BY DEF PacketsOf
<1>4. Short(<<>>)  BY <1>1 DEF Short, PacketMinSize
<1>5. wire \in [Sides -> Seq(Byte)] /\ buf \in [Sides -> Seq(Byte)]
  BY <1>1 DEF Init
<1>6. got \in [Sides -> Seq([buffer : Seq(Byte), dataSize : Nat])]
  <2>1. <<>> \in Seq([buffer : Seq(Byte), dataSize : Nat])  OBVIOUS
  <2> QED BY <2>1 DEF Init
<1>7. \A s \in Sides : \E ms \in Seq(Messages) : got[s] = PacketsOf(ms)
  BY <1>3 DEF Init
<1>8. PacketInv
  BY <1>2, <1>4, <1>5, <1>6, <1>7, EmptyStream DEF PacketInv, Init
<1>9. Singles(<<>>) = <<>>  BY DEF Singles
<1>10. \A s \in Sides : Pending(s) = <<>>
  BY <1>2, <1>9, EmptyStream DEF Pending, Parsed
<1> QED BY <1>8, <1>10

-----------------------------------------------------------------------------
(* The theorems about the two peers.                                       *)

\* Taking messages off the front of one queue and adding them to the other is
\* a step of the ring, or none if there are no messages.
LEMMA RingTakes ==
  ASSUME NEW ms \in Seq(Seq(Byte)), NEW rest \in Seq(Seq(Byte))
  PROVE  /\ Len(ms) \in Nat
         /\ Len(ms) # 0 => Len(ms) \in 1..Len(ms \o rest)
         /\ Len(ms) = 0 => ms = <<>> /\ ms \o rest = rest
         /\ SubSeq(ms \o rest, 1, Len(ms)) = ms
         /\ SubSeq(ms \o rest, Len(ms) + 1, Len(ms \o rest)) = rest
<1>1. Len(ms) \in Nat /\ Len(rest) \in Nat  OBVIOUS
<1>2. Len(ms \o rest) = Len(ms) + Len(rest)  BY ConcatProperties
<1>3. Len(ms) = 0 => ms = <<>>  OBVIOUS
<1>4. <<>> \o rest = rest  BY ConcatEmptySeq
<1>5. SubSeq(ms \o rest, 1, Len(ms)) = ms /\ Drop(ms \o rest, Len(ms)) = rest
  BY TakeJoined, Zenon
<1>6. Len(ms) # 0 => Len(ms) \in 1..Len(ms \o rest)  BY <1>1, <1>2
<1> QED BY <1>1, <1>3, <1>4, <1>5, <1>6 DEF Drop

\* What either side has still to handle is a sequence of messages.
LEMMA PendingType ==
  ASSUME PacketInv, NEW s \in Sides
  PROVE  Pending(s) \in Seq(Seq(Byte))
<1> DEFINE x == buf[s]
           y == wire[s]
<1>1. x \in Seq(Byte) /\ y \in Seq(Byte)  BY DEF PacketInv
<1> HIDE DEF x, y
<1>2. x \o y \in Seq(Byte)  BY <1>1, ConcatProperties
<1>3. Stream(s) \in Seq(Byte)  BY <1>2 DEF Stream, x, y
<1> QED BY <1>3, ParsedType DEF Pending, Parsed

\* Messages that a side has echoed are a step of the ring.
LEMMA EchoesInRing ==
  ASSUME PacketInv, NEW s \in Sides, Echoed(s)
  PROVE  [Ring!RingNext]_(Ring!ringVars)
<1> DEFINE o == Peer(s)
           p == Pending(s)
           q == Pending(o)
<1>1. PICK ms \in Seq(Seq(Byte)) :
        p' \in Seq(Seq(Byte)) /\ p = ms \o p' /\ q' = q \o ms
  BY DEF Echoed
<1> DEFINE k == Len(ms)
<1>2. /\ k \in Nat /\ (k # 0 => k \in 1..Len(p))
      /\ (k = 0 => ms = <<>> /\ p = p')
      /\ SubSeq(p, 1, k) = ms /\ SubSeq(p, k + 1, Len(p)) = p'
  <2> DEFINE rest == p'
             all == p
  <2>1. rest \in Seq(Seq(Byte)) /\ all = ms \o rest  BY <1>1
  <2> HIDE DEF rest, all
  <2>2. /\ k \in Nat /\ (k # 0 => k \in 1..Len(all))
        /\ (k = 0 => ms = <<>> /\ all = rest)
        /\ SubSeq(all, 1, k) = ms /\ SubSeq(all, k + 1, Len(all)) = rest
    BY <2>1, RingTakes
  <2> QED BY <2>2 DEF rest, all
<1>3. k = 0 => q' = q
  <2> DEFINE x == q
  <2>1. x \in Seq(Seq(Byte))  BY Peers, PendingType
  <2> HIDE DEF x
  <2>2. x \o <<>> = x  BY <2>1, ConcatEmptySeq
  <2> QED BY <1>1, <1>2, <2>2 DEF x
<1>4. s = "server" \/ s = "client"  BY DEF Sides
<1> HIDE DEF k
<1>5. CASE s = "server"
  <2>1. Peer(s) = "client"  BY <1>5 DEF Peer
  <2>2. k = 0 => UNCHANGED Ring!ringVars
    BY <1>2, <1>3, <1>5, <2>1 DEF Ring!ringVars, Pending
  <2>3. k # 0 => Ring!ServerEchoes(k) /\ k \in 1..Len(Parsed(Stream("server")))
    BY <1>1, <1>2, <1>5, <2>1 DEF Ring!ServerEchoes, Pending
  <2> QED BY <2>2, <2>3 DEF Ring!RingNext
<1>6. CASE s = "client"
  <2>1. Peer(s) = "server"  BY <1>6 DEF Peer
  <2>2. k = 0 => UNCHANGED Ring!ringVars
    BY <1>2, <1>3, <1>6, <2>1 DEF Ring!ringVars, Pending
  <2>3. k # 0 => Ring!ClientEchoes(k) /\ k \in 1..Len(Parsed(Stream("client")))
    BY <1>1, <1>2, <1>6, <2>1 DEF Ring!ClientEchoes, Pending
  <2> QED BY <2>2, <2>3 DEF Ring!RingNext
<1> QED BY <1>4, <1>5, <1>6

\* Every step keeps the invariant and is a step of the ring, or changes nothing
\* that the ring sees.
LEMMA StepInRing ==
  ASSUME PacketInv, [Next]_vars
  PROVE  PacketInv' /\ [Ring!RingNext]_(Ring!ringVars)
<1>1. ASSUME NEW d \in Messages, SendTestMessage(d)
      PROVE  PacketInv' /\ [Ring!RingNext]_(Ring!ringVars)
  <2>1. PacketInv' /\ Pending("client")' = Pending("client")  BY <1>1, SendStep
  <2>2. PICK batch \in {<<d>>, Singles(d)} :
          Pending("server")' = Pending("server") \o batch
    BY <1>1, SendStep
  <2>3. batch \in {<<e>> : e \in Messages} \cup {Singles(e) : e \in Messages}
    BY <2>2
  <2>4. Ring!Send(batch)  BY <2>1, <2>2 DEF Ring!Send, Pending
  <2> QED BY <2>1, <2>3, <2>4 DEF Ring!RingNext
<1>2. ASSUME NEW z \in Noises, WriteBare(z)
      PROVE  PacketInv' /\ [Ring!RingNext]_(Ring!ringVars)
  <2>1. PacketInv' /\ \A s \in Sides : Pending(s)' = Pending(s)  BY <1>2, BareStep
  <2>2. UNCHANGED Ring!ringVars  BY <2>1 DEF Ring!ringVars, Pending, Sides
  <2> QED BY <2>1, <2>2
<1>3. ASSUME NEW s \in Sides, Receive(s)
      PROVE  PacketInv' /\ [Ring!RingNext]_(Ring!ringVars)
  <2>1. PICK n \in 1..MaxRead : n <= Len(wire[s]) /\ NewMessage(s, n)
    BY <1>3 DEF Receive
  <2>2. PacketInv' /\ Echoed(s)  BY <2>1, EchoWithoutBuffer, EchoWithBuffer
  <2> QED BY <2>2, EchoesInRing
<1>4. CASE UNCHANGED vars
  <2>1. PacketInv'  BY <1>4 DEF vars, PacketInv, Stream
  <2>2. UNCHANGED Ring!ringVars  BY <1>4 DEF vars, Ring!ringVars, Parsed, Stream
  <2> QED BY <2>1, <2>2
<1> QED BY <1>1, <1>2, <1>3, <1>4 DEF Next

\* Wherever TCP cuts the streams, however many messages are under way and
\* whatever bytes the messages hold, what either side has still to handle is a
\* stream of whole packets, of which its PacketBuffer keeps less than one.
THEOREM PacketInvariant == Spec => []PacketInv
<1>1. Init => PacketInv  BY InitPacketInv
<1>2. PacketInv /\ [Next]_vars => PacketInv'  BY StepInRing
<1> QED BY <1>1, <1>2, PTL DEF Spec

\* append() is never refused: a CycleBuffer with room for a packet that lacks
\* its last byte and for one read is large enough, for ever.
THEOREM NothingIsRefused == Spec => []NothingRefused
<1>1. PacketInv => NothingRefused  BY DEF PacketInv, NothingRefused
<1> QED BY <1>1, PacketInvariant, PTL

\* Every packet that newMessage() is handed is a frame as the documentation
\* describes it, with the size its header says.
THEOREM DeliveredAreWellFormed == Spec => []DeliveredWellFormed
<1>1. PacketInv => DeliveredWellFormed
  <2> SUFFICES ASSUME PacketInv, NEW s \in Sides, NEW i \in DOMAIN got[s]
               PROVE  WellFormed(got[s][i])
    BY DEF DeliveredWellFormed
  <2>1. PICK ms \in Seq(Messages) : got[s] = PacketsOf(ms)  BY DEF PacketInv
  <2>2. i \in 1..Len(ms) /\ got[s][i] = Swapped(pack(ms[i]).buffer)
    BY <2>1 DEF PacketsOf
  <2>3. ms[i] \in Messages  BY <2>2
  <2>4. ms[i] \in Seq(Byte) /\ Len(ms[i]) < NumRange  BY <2>3, MessageFacts
  <2>5. <<>> \in Seq(Byte)  BY EmptyStream
  <2>6. WellFormed(Swapped(pack(ms[i]).buffer))  BY <2>4, <2>5, FrameRoundTrip
  <2> QED BY <2>2, <2>6
<1> QED BY <1>1, PacketInvariant, PTL

\* The packet layer over TCP is a ring of whole messages: however the bytes are
\* cut into reads, every step of the two peers sends whole messages, or takes
\* some off the front of one direction and puts the same ones, in order,
\* behind the other.
THEOREM ImplementsRingOfMessages == Spec => ImplementsRing
<1>1. Init => Ring!RingInit
  <2> SUFFICES ASSUME Init PROVE Ring!RingInit  OBVIOUS
  <2>1. Pending("server") = <<>> /\ Pending("client") = <<>>
    BY InitPacketInv DEF Sides
  <2> QED BY <2>1 DEF Ring!RingInit, Pending
<1>2. PacketInv /\ [Next]_vars => [Ring!RingNext]_(Ring!ringVars)  BY StepInRing
<1> QED BY <1>1, <1>2, PacketInvariant, PTL DEF Spec, ImplementsRing, Ring!RingSpec
=============================================================================
