-------------------------- MODULE MessageFramingProofs --------------------------
(***************************************************************************)
(* Theorems about MessageFraming: that packets are well formed and mark a  *)
(* message that is cut short, and that the two streams implement           *)
(* MessageChannel however the bytes are cut into packets and chunks.       *)
(***************************************************************************)
EXTENDS MessageFraming, SequenceTheorems, FiniteSetTheorems, TLAPS

-----------------------------------------------------------------------------
(* The inductive invariant: the outgoing stream *)

Byte    == 1..MaxBytes
Packets == [message : Messages, id : 0..255, last : BOOLEAN, ignore : BOOLEAN,
            reset : BOOLEAN, data : Seq(Byte), limit : Nat]
Units   == [length : Nat, last : BOOLEAN, part : 1..HeaderLength] \cup Byte

Typed ==
    /\ TypeOK
    /\ bl \in Seq(Byte) /\ packets \in Seq(Packets) /\ piped \in Nat
    /\ wire \in Seq(Units) /\ chunks \in Seq(Units)

Latest     == IF packets = <<>> THEN 0 ELSE packets[Len(packets)].message
FirstOf(j) == j = 1 \/ packets[j - 1].last

\* The bytes of its message up to packet j: the number of its last one, which only the
\* packet of an empty message has not
UpTo(j)   == IF packets[j].data = <<>> THEN 0 ELSE packets[j].data[Len(packets[j].data)]
Before(j) == IF FirstOf(j) THEN 0 ELSE UpTo(j - 1)

\* The bytes of the current message that are in packets
Base == IF packetNumber = 0 THEN 0 ELSE UpTo(Len(packets))

\* Messages are written in turn; one whose last packet was pushed has ended, and was
\* emitted in full.
TurnInv ==
    /\ Sent = IF currentMessage = 0 THEN 1..Latest ELSE 1..(currentMessage - 1)
    /\ ignore \subseteq ended /\ Sent \subseteq ended
    /\ \A m \in Messages :
          /\ emitted[m] <= written[m]
          /\ m \in Sent => emitted[m] = written[m]
          /\ m \notin Sent /\ m # currentMessage => emitted[m] = 0

\* The message that is written: its last packet so far, and its bytes in bl, which
\* follow those in the packets
CurrentInv ==
    /\ currentMessage = 0 => bl = <<>>
    /\ currentMessage = 0 \/ packetNumber = 0 => packets = <<>> \/ packets[Len(packets)].last
    /\ currentMessage # 0 => length > 0 /\ Len(bl) <= length
    /\ currentMessage # 0 /\ packetNumber = 0 => Latest = currentMessage - 1
    /\ currentMessage # 0 /\ packetNumber > 0 =>
          /\ bl # <<>> /\ packets # <<>>
          /\ LET p == packets[Len(packets)]
             IN  /\ ~p.last /\ p.message = currentMessage /\ p.limit = length
                 /\ p.id = packetNumber % 256 /\ p.reset = (currentMessage \in Reset)
    /\ currentMessage # 0 =>
          /\ \A k \in 1..Len(bl) : bl[k] = Base + k
          /\ Base + Len(bl) <= emitted[currentMessage]
          /\ currentMessage \notin ignore => Base + Len(bl) = emitted[currentMessage]

\* The packets of all messages: each goes on where the one before it stopped.
GoesOn(j) ==
    LET p == packets[j] IN
    /\ p.limit > 0
    /\ FirstOf(j) => p.message = IF j = 1 THEN 1 ELSE packets[j - 1].message + 1
    /\ 1..(p.message - 1) \subseteq Sent
    /\ \A k \in 1..Len(p.data) : p.data[k] = Before(j) + k
    /\ UpTo(j) <= emitted[p.message]
    /\ p.ignore => p.last
    /\ p.last => /\ p.message \in Sent /\ (p.ignore <=> p.message \in ignore)
                 /\ ~p.ignore => UpTo(j) = written[p.message]
PacketsInv == \A j \in 1..Len(packets) : GoesOn(j)

\* What WellPacked says of packet j
Packed(j) ==
    LET p == packets[j] IN
    /\ p.id = IF FirstOf(j) THEN 1 ELSE (packets[j - 1].id + 1) % 256
    /\ ~FirstOf(j) => /\ packets[j - 1].message = p.message
                      /\ packets[j - 1].limit = p.limit
                      /\ packets[j - 1].reset = p.reset
    /\ ~p.last => Len(p.data) = p.limit
    /\ p.last => Len(p.data) <= p.limit
    /\ p.last /\ ~FirstOf(j) => p.data # <<>>

\* What was emitted of a message that is not ignored is in its packets, but for what bl
\* holds.
EmittedInv ==
    \A m \in Messages \ ignore : \A i \in 1..emitted[m] :
        i \in BytesOf(m) \/ (m = currentMessage /\ i > Base)

OutInv == TurnInv /\ CurrentInv /\ PacketsInv /\ WellPacked /\ EmittedInv

-----------------------------------------------------------------------------
(* The inductive invariant: the incoming stream *)

Size(j) == HeaderLength + Len(packets[j].data)

\* Packet j is in s after the first n bytes, if its length is not broken.
FramedAt(s, n, j) ==
    /\ \A k \in 1..HeaderLength :
          \E len \in {HeaderLength - 1, Size(j)} :
             s[n + k] = [length |-> len, last |-> packets[j].last, part |-> k]
    /\ \A k \in 1..Len(packets[j].data) : s[n + HeaderLength + k] = packets[j].data[k]

\* The bytes under way are the packets after the first q, in order; off says where each
\* one ends, which is never before an earlier one does.
Framed(s, q, off) ==
    /\ off[q] = 0 /\ off[piped] = Len(s)
    /\ \A i, j \in q..piped : i <= j => off[i] <= off[j]
    /\ \A j \in (q + 1)..piped : off[j] = off[j - 1] + Size(j) /\ FramedAt(s, off[j - 1], j)

\* What was handed over of messages after the first q packets
Received(q) ==
    LET m     == IF q = 0 THEN 0 ELSE packets[q].message
        whole == q = 0 \/ packets[q].last
        bytes == IF q = 0 THEN 0 ELSE UpTo(q)
    IN  /\ complete = IF whole THEN 1..m ELSE 1..(m - 1)
        /\ incoming = m \/ (incoming = 0 /\ whole)
        /\ over = IF incoming = 0 THEN 1..m ELSE 1..(m - 1)
        /\ waiting = "end" <=> whole /\ incoming # 0
        /\ m # 0 => got[m] \o inBuffer[m] = [k \in 1..bytes |-> k]
        /\ \A i \in Messages : i # incoming => inBuffer[i] = <<>>
        /\ \A i \in Messages : i > m => got[i] = <<>>

InInv == \E q \in 0..piped : \E off \in [q..piped -> Nat] :
            Framed(chunks \o wire, q, off) /\ Received(q)

-----------------------------------------------------------------------------
(* Arithmetic of FullPackets *)

LEMMA Rest ==
  ASSUME NEW b \in Nat, NEW L \in Nat \ {0}, b > 0
  PROVE  /\ (b - 1) \div L \in Nat
         /\ ((b - 1) \div L) * L <= b - 1
         /\ b - 1 < ((b - 1) \div L) * L + L
OBVIOUS

LEMMA Multiples ==
  ASSUME NEW L \in Nat, NEW k \in Nat, NEW n \in Nat, k <= n
  PROVE  k * L <= n * L /\ (k + 1) * L = k * L + L /\ k * L \in Nat
OBVIOUS

LEMMA NextId ==
  ASSUME NEW n \in Nat
  PROVE  (n + 1) % 256 = ((n % 256) + 1) % 256 /\ n % 256 \in 0..255
OBVIOUS

-----------------------------------------------------------------------------
(* Parts of a sequence *)

LEMMA Part ==
  ASSUME NEW S, NEW s, NEW n \in Nat, NEW len \in Nat, \A i \in 1..len : s[n + i] \in S
  PROVE  /\ SubSeq(s, n + 1, n + len) \in Seq(S)
         /\ Len(SubSeq(s, n + 1, n + len)) = len
         /\ \A i \in 1..len : SubSeq(s, n + 1, n + len)[i] = s[n + i]
  <1> DEFINE low == n + 1
             high == n + len
             t == SubSeq(s, low, high)
  <1>1. low \in Int /\ high \in Int /\ high - low + 1 = len
    OBVIOUS
  <1>2. \A i \in low..high : s[i] \in S
    <2>1. SUFFICES ASSUME NEW i \in low..high
                   PROVE  s[i] \in S
      OBVIOUS
    <2>2. i - n \in 1..len /\ n + (i - n) = i
      OBVIOUS
    <2>3. QED
      BY <2>2
  <1>3. \A i \in 1..len : low + i - 1 = n + i
    OBVIOUS
  <1>4. (low <= high => high - low + 1 = len) /\ (~(low <= high) => len = 0)
    OBVIOUS
  <1> HIDE DEF low, high
  <1>5. /\ t \in Seq(S) /\ Len(t) = IF low <= high THEN high - low + 1 ELSE 0
        /\ \A i \in 1..(high - low + 1) : t[i] = s[low + i - 1]
    BY <1>1, <1>2, SubSeqProperties
  <1> HIDE DEF t
  <1>6. t \in Seq(S) /\ Len(t) = len /\ \A i \in 1..len : t[i] = s[n + i]
    BY <1>1, <1>3, <1>4, <1>5
  <1>7. QED
    BY <1>6 DEF t, low, high

IsPart(t, s, n, len) == Len(t) = len /\ \A i \in 1..len : t[i] = s[n + i]

LEMMA PartOf ==
  ASSUME NEW S, NEW s, NEW n \in Nat, NEW len \in Nat, \A i \in 1..len : s[n + i] \in S
  PROVE  /\ SubSeq(s, n + 1, n + len) \in Seq(S)
         /\ IsPart(SubSeq(s, n + 1, n + len), s, n, len)
  BY Part DEF IsPart

LEMMA PartIs ==
  ASSUME NEW S, NEW s, NEW t \in Seq(S), NEW n \in Nat, \A i \in 1..Len(t) : s[n + i] = t[i]
  PROVE  SubSeq(s, n + 1, n + Len(t)) = t
  <1> DEFINE len == Len(t)
             part == SubSeq(s, n + 1, n + len)
  <1>1. len \in Nat /\ \A i \in 1..len : s[n + i] = t[i] /\ t[i] \in S
    BY ElementOfSeq, LenProperties
  <1> HIDE DEF len
  <1>2. \A i \in 1..len : s[n + i] \in S
    BY <1>1
  <1>3. part \in Seq(S) /\ Len(part) = len /\ \A i \in 1..len : part[i] = s[n + i]
    <2>1. \A l \in Nat : (\A i \in 1..l : s[n + i] \in S) =>
             /\ SubSeq(s, n + 1, n + l) \in Seq(S) /\ Len(SubSeq(s, n + 1, n + l)) = l
             /\ \A i \in 1..l : SubSeq(s, n + 1, n + l)[i] = s[n + i]
      BY Part
    <2>2. QED
      BY <1>1, <1>2, <2>1
  <1> HIDE DEF part
  <1>4. Len(part) = Len(t) /\ \A i \in 1..Len(part) : part[i] = t[i]
    BY <1>1, <1>3 DEF len
  <1>5. part = t
    BY <1>3, <1>4, SeqEqual
  <1>6. QED
    BY <1>5 DEF part, len

-----------------------------------------------------------------------------
(* What 'data' of the current message pushes *)

\* The packets and bl after 'data', of total bytes together, which make full packets
DataPushed(total, full) ==
    /\ packets' \in Seq(Packets) /\ bl' \in Seq(Byte)
    /\ Len(packets') = Len(packets) + full
    /\ \A j \in 1..Len(packets) : packets'[j] = packets[j]
    /\ \A k \in 1..full :
          LET p == packets'[Len(packets) + k]
          IN  /\ p.message = currentMessage /\ p.id = (packetNumber + k) % 256
              /\ ~p.last /\ ~p.ignore /\ p.reset = (currentMessage \in Reset)
              /\ p.limit = length /\ Len(p.data) = length
              /\ \A i \in 1..length : p.data[i] = Base + (k - 1) * length + i
    /\ Len(bl') = total - full * length /\ Len(bl') <= length
    /\ \A i \in 1..Len(bl') : bl'[i] = Base + full * length + i
    /\ bl # <<>> \/ full > 0 => Len(bl') > 0
    /\ packetNumber' = packetNumber + full

LEMMA Splits ==
  ASSUME NEW b \in Nat, length \in Nat, length > 0
  PROVE  /\ FullPackets(b) \in Nat /\ FullPackets(b) * length \in Nat
         /\ FullPackets(b) * length <= b /\ b <= FullPackets(b) * length + length
         /\ b > 0 => FullPackets(b) * length < b
         /\ \A k \in 1..FullPackets(b) :
               /\ (k - 1) * length \in Nat /\ k * length = (k - 1) * length + length
               /\ k * length <= FullPackets(b) * length
  <1>1. CASE b = 0
    BY <1>1 DEF FullPackets
  <1>2. CASE b # 0
    <2> DEFINE f == (b - 1) \div length
    <2>1. FullPackets(b) = f
      BY <1>2 DEF FullPackets
    <2>2. f \in Nat /\ f * length <= b - 1 /\ b - 1 < f * length + length
      BY <1>2, Rest
    <2> HIDE DEF f
    <2>3. f * length \in Nat
      BY <2>2, Multiples
    <2>4. ASSUME NEW k \in 1..f
          PROVE  /\ (k - 1) * length \in Nat /\ k * length = (k - 1) * length + length
                 /\ k * length <= f * length
      <3>1. k \in Nat /\ k - 1 \in Nat /\ k <= f /\ k - 1 <= f /\ (k - 1) + 1 = k
        BY <2>2
      <3>2. k * length <= f * length
        BY <2>2, <3>1, Multiples
      <3>3. (k - 1) * length \in Nat /\ ((k - 1) + 1) * length = (k - 1) * length + length
        BY <2>2, <3>1, Multiples
      <3>4. QED
        BY <3>1, <3>2, <3>3
    <2>5. QED
      BY <1>2, <2>1, <2>2, <2>3, <2>4
  <1>3. QED
    BY <1>1, <1>2

LEMMA PacketTyped ==
  ASSUME Typed, NEW j \in 1..Len(packets)
  PROVE  /\ packets[j] \in Packets /\ packets[j].message \in Messages
         /\ packets[j].data \in Seq(Byte) /\ Len(packets[j].data) \in Nat
         /\ UpTo(j) \in 0..MaxBytes
  <1>1. packets[j] \in Packets
    BY ElementOfSeq DEF Typed
  <1>2. packets[j].data \in Seq(Byte) /\ packets[j].message \in Messages
    BY <1>1 DEF Packets
  <1>3. UpTo(j) \in 0..MaxBytes
    <2>1. CASE packets[j].data = <<>>
      BY <2>1, SizeAssumption DEF UpTo
    <2>2. CASE packets[j].data # <<>>
      <3>1. Len(packets[j].data) \in 1..Len(packets[j].data)
        BY <1>2, <2>2, EmptySeq, LenProperties
      <3>2. packets[j].data[Len(packets[j].data)] \in Byte
        BY <1>2, <3>1, ElementOfSeq
      <3>3. QED
        BY <2>2, <3>2, SizeAssumption DEF UpTo, Byte
    <2>3. QED
      BY <2>1, <2>2
  <1>4. QED
    BY <1>1, <1>2, <1>3, LenProperties

LEMMA BaseTyped ==
  ASSUME Typed, CurrentInv, currentMessage # 0
  PROVE  Base \in 0..MaxBytes
  <1>1. CASE packetNumber = 0
    BY <1>1, SizeAssumption DEF Base
  <1>2. CASE packetNumber # 0
    <2>1. packets # <<>> /\ packets \in Seq(Packets)
      BY <1>2 DEF Typed, TypeOK, CurrentInv
    <2>2. Len(packets) \in 1..Len(packets)
      BY <2>1, EmptySeq, LenProperties
    <2>3. QED
      BY <1>2, <2>2, PacketTyped DEF Base
  <1>3. QED
    BY <1>1, <1>2

LEMMA DataEffect ==
  ASSUME Typed, CurrentInv, NEW n \in 1..MaxBytes, MessageData(n)
  PROVE  /\ DataPushed(Len(bl) + Len(Data(currentMessage, n)),
                       FullPackets(Len(bl) + Len(Data(currentMessage, n))))
         /\ Len(Data(currentMessage, n)) = IF currentMessage \in ignore THEN 0 ELSE n
  <1> DEFINE m == currentMessage
             data == Data(m, n)
             all == bl \o data
             total == Len(bl) + Len(data)
             full == FullPackets(total)
             packet(k) == Packet(m, packetNumber + k, FALSE,
                                 SubSeq(all, (k - 1) * length + 1, k * length))
  <1>1. /\ m \in Messages /\ m # 0 /\ n \in 1..(written[m] - emitted[m])
        /\ emitted[m] \in 0..MaxBytes /\ written[m] \in 0..MaxBytes /\ MaxBytes \in Nat
        /\ bl \in Seq(Byte) /\ packets \in Seq(Packets) /\ Len(bl) \in Nat
        /\ length \in Nat /\ length > 0 /\ packetNumber \in Nat
    <2>1. m # 0 /\ n \in 1..(written[m] - emitted[m])
      BY DEF MessageData
    <2>2. m \in Messages
      BY <2>1 DEF Typed, TypeOK
    <2>3. emitted[m] \in 0..MaxBytes /\ written[m] \in 0..MaxBytes
      BY <2>2 DEF Typed, TypeOK
    <2>4. bl \in Seq(Byte) /\ packets \in Seq(Packets) /\ Len(bl) \in Nat /\ packetNumber \in Nat
      BY LenProperties DEF Typed, TypeOK
    <2>5. length \in Nat /\ length > 0
      BY <2>1 DEF Typed, TypeOK, CurrentInv
    <2>6. QED
      BY <2>1, <2>2, <2>3, <2>4, <2>5, SizeAssumption
  <1>2. /\ data \in Seq(Byte) /\ Len(data) = (IF m \in ignore THEN 0 ELSE n)
        /\ \A k \in 1..Len(data) : data[k] = emitted[m] + k /\ m \notin ignore
    <2>1. CASE m \in ignore
      BY <2>1 DEF Data
    <2>2. CASE m \notin ignore
      <3>1. data = [k \in 1..n |-> emitted[m] + k]
        BY <2>2 DEF Data
      <3>2. \A k \in 1..n : emitted[m] + k \in Byte
        BY <1>1 DEF Byte
      <3>3. data \in Seq(Byte) /\ Len(data) = n
        BY <1>1, <3>1, <3>2
      <3>4. QED
        BY <2>2, <3>1, <3>3
    <2>3. QED
      BY <2>1, <2>2
  <1> HIDE DEF data
  <1>3. /\ all \in Seq(Byte) /\ Len(all) = total /\ total \in Nat /\ Len(data) \in Nat
        /\ \A i \in 1..total : all[i] = IF i <= Len(bl) THEN bl[i] ELSE data[i - Len(bl)]
    <2>1. bl \in Seq(Byte) /\ data \in Seq(Byte) /\ Len(bl) \in Nat
      BY <1>1, <1>2
    <2>2. Len(data) \in Nat /\ total \in Nat
      BY <2>1, LenProperties
    <2>3. /\ bl \o data \in Seq(Byte) /\ Len(bl \o data) = Len(bl) + Len(data)
          /\ \A i \in 1..(Len(bl) + Len(data)) :
                (bl \o data)[i] = IF i <= Len(bl) THEN bl[i] ELSE data[i - Len(bl)]
      BY <2>1, ConcatProperties
    <2>4. QED
      BY <2>2, <2>3
  <1>4. \A k \in 1..Len(bl) : bl[k] = Base + k
    BY <1>1 DEF CurrentInv, Base
  <1>5. m \notin ignore => Base + Len(bl) = emitted[m]
    BY <1>1 DEF CurrentInv, Base
  <1>6. ASSUME NEW i \in 1..total
        PROVE  all[i] = Base + i /\ all[i] \in Byte
    <2>1. CASE i <= Len(bl)
      <3>1. i \in 1..Len(bl) /\ all[i] = bl[i]
        BY <1>1, <1>3, <2>1
      <3>2. QED
        BY <1>3, <1>4, <3>1
    <2>2. CASE ~(i <= Len(bl))
      <3>1. i - Len(bl) \in 1..Len(data)
        BY <1>1, <1>3, <2>2
      <3>2. all[i] = emitted[m] + (i - Len(bl)) /\ m \notin ignore
        BY <1>2, <1>3, <2>2, <3>1
      <3>3. Base = emitted[m] - Len(bl)
        <4>1. Base \in Int
          BY <1>1, BaseTyped
        <4>2. QED
          BY <1>1, <1>5, <3>2, <4>1
      <3>4. QED
        BY <1>1, <1>3, <3>1, <3>2, <3>3
    <2>3. QED
      BY <2>1, <2>2
  <1>7. /\ packets' = packets \o [k \in 1..full |-> packet(k)]
        /\ bl' = SubSeq(all, full * length + 1, total)
        /\ packetNumber' = packetNumber + full
    BY <1>3 DEF MessageData, data
  <1> HIDE DEF all
  <1>8. /\ full \in Nat /\ full * length \in Nat /\ full * length <= total
        /\ total <= full * length + length
        /\ total > 0 => full * length < total
        /\ \A k \in 1..full : /\ (k - 1) * length \in Nat /\ k * length = (k - 1) * length + length
                             /\ k * length <= full * length
    BY <1>1, <1>3, Splits
  <1> HIDE DEF full
  <1>9. Base \in Nat
    BY <1>1, BaseTyped
  <1>10. ASSUME NEW k \in 1..full
         PROVE  LET p == packet(k)
                IN  /\ p \in Packets /\ p.message = m /\ p.id = (packetNumber + k) % 256
                    /\ ~p.last /\ ~p.ignore /\ p.reset = (m \in Reset)
                    /\ p.limit = length /\ Len(p.data) = length
                    /\ \A i \in 1..length : p.data[i] = Base + (k - 1) * length + i
    <2> DEFINE low == (k - 1) * length
               part == SubSeq(all, low + 1, k * length)
    <2>1. low \in Nat /\ k * length = low + length /\ low + length <= total
      <3>1. low \in Nat /\ k * length = low + length /\ k * length <= full * length
        BY <1>8
      <3> HIDE DEF low
      <3> DEFINE end == k * length
                 whole == full * length
      <3>2. end = low + length /\ end <= whole /\ whole <= total
        BY <1>8, <3>1
      <3>3. length \in Nat /\ whole \in Nat /\ total \in Nat
        BY <1>1, <1>3, <1>8
      <3> HIDE DEF end, whole, total
      <3>4. low + length <= total
        BY <3>1, <3>2, <3>3
      <3>5. QED
        BY <3>1, <3>4
    <2> HIDE DEF low
    <2>2. /\ part \in Seq(Byte) /\ Len(part) = length
          /\ \A i \in 1..length : part[i] = all[low + i]
      <3>1. \A i \in 1..length : low + i \in 1..total
        BY <1>1, <1>3, <2>1
      <3>2. \A i \in 1..length : all[low + i] \in Byte
        BY <1>6, <3>1
      <3>3. part = SubSeq(all, low + 1, low + length)
        BY <2>1
      <3>4. low \in Nat /\ length \in Nat
        BY <1>1, <2>1
      <3>5. /\ SubSeq(all, low + 1, low + length) \in Seq(Byte)
            /\ IsPart(SubSeq(all, low + 1, low + length), all, low, length)
        BY <3>2, <3>4, PartOf, Zenon
      <3>6. QED
        BY <3>3, <3>5, Zenon DEF IsPart
    <2>3. \A i \in 1..length : part[i] = Base + low + i
      <3>1. \A i \in 1..length : low + i \in 1..total
        BY <1>1, <1>3, <2>1
      <3>2. \A i \in 1..length : all[low + i] = Base + (low + i)
        BY <1>6, <3>1
      <3>3. QED
        BY <1>1, <1>9, <2>1, <2>2, <3>2
    <2> DEFINE id == (packetNumber + k) % 256
               reset == m \in Reset
    <2>4. packet(k) = [message |-> m, id |-> id, last |-> FALSE, ignore |-> FALSE,
                       reset |-> reset, data |-> part, limit |-> length]
      BY DEF Packet, low
    <2> HIDE DEF part, packet
    <2>5. packet(k) \in Packets
      <3>1. id \in 0..255 /\ reset \in BOOLEAN
        BY <1>1, <1>8
      <3> HIDE DEF id, reset
      <3>2. m \in Messages /\ length \in Nat /\ part \in Seq(Byte)
        BY <1>1, <2>2
      <3>3. QED
        BY <2>4, <3>1, <3>2 DEF Packets
    <2>6. \A i \in 1..length : part[i] = Base + (k - 1) * length + i
      BY <2>3 DEF low
    <2>7. /\ packet(k).message = m /\ packet(k).id = id /\ packet(k).last = FALSE
          /\ packet(k).ignore = FALSE /\ packet(k).reset = reset /\ packet(k).data = part
          /\ packet(k).limit = length
      BY <2>4
    <2>8. QED
      BY <2>2, <2>5, <2>6, <2>7 DEF id, reset
  <1> HIDE DEF packet
  <1>11. /\ packets' \in Seq(Packets) /\ Len(packets') = Len(packets) + full
         /\ \A j \in 1..Len(packets) : packets'[j] = packets[j]
         /\ \A k \in 1..full : packets'[Len(packets) + k] = packet(k)
    <2> DEFINE new == [k \in 1..full |-> packet(k)]
    <2>1. new \in Seq(Packets) /\ Len(new) = full /\ \A k \in 1..full : new[k] = packet(k)
      BY <1>8, <1>10
    <2> HIDE DEF new
    <2>2. /\ packets \o new \in Seq(Packets) /\ Len(packets \o new) = Len(packets) + Len(new)
          /\ \A i \in 1..(Len(packets) + Len(new)) :
                (packets \o new)[i] = IF i <= Len(packets) THEN packets[i] ELSE new[i - Len(packets)]
      BY <1>1, <2>1, ConcatProperties
    <2>3. packets' = packets \o new /\ Len(packets) \in Nat
      BY <1>1, <1>7, LenProperties DEF new
    <2>4. QED
      BY <1>8, <2>1, <2>2, <2>3
  <1>12. /\ bl' \in Seq(Byte) /\ Len(bl') = total - full * length
         /\ \A i \in 1..Len(bl') : bl'[i] = Base + full * length + i
    <2> DEFINE low == full * length
    <2>1. low \in Nat /\ low <= total /\ total - low \in Nat /\ low + (total - low) = total
      BY <1>3, <1>8
    <2> HIDE DEF low
    <2>2. \A i \in 1..(total - low) : low + i \in 1..total
      BY <1>3, <2>1
    <2>3. \A i \in 1..(total - low) : all[low + i] = Base + (low + i) /\ all[low + i] \in Byte
      BY <1>6, <2>2
    <2> DEFINE rest == total - low
    <2>4. /\ SubSeq(all, low + 1, low + rest) \in Seq(Byte)
          /\ Len(SubSeq(all, low + 1, low + rest)) = rest
          /\ \A i \in 1..rest : SubSeq(all, low + 1, low + rest)[i] = all[low + i]
      <3>1. rest \in Nat /\ low \in Nat /\ \A i \in 1..rest : all[low + i] \in Byte
        BY <2>1, <2>3
      <3> HIDE DEF rest
      <3>2. /\ SubSeq(all, low + 1, low + rest) \in Seq(Byte)
            /\ IsPart(SubSeq(all, low + 1, low + rest), all, low, rest)
        BY <3>1, PartOf, Zenon
      <3>3. QED
        BY <3>2, Zenon DEF IsPart
    <2>5. \A i \in 1..(total - low) : SubSeq(all, low + 1, total)[i] = Base + (low + i)
      BY <2>1, <2>3, <2>4
    <2>6. \A i \in 1..(total - low) : Base + (low + i) = Base + low + i
      BY <1>3, <1>9, <2>1
    <2>7. bl' = SubSeq(all, low + 1, total)
      BY <1>7 DEF low
    <2>8. QED
      BY <2>1, <2>4, <2>5, <2>6, <2>7 DEF low
  <1>13. Len(bl') <= length /\ (bl # <<>> \/ full > 0 => Len(bl') > 0)
    <2> DEFINE low == full * length
    <2>1. /\ Len(bl') = total - low
          /\ low \in Nat /\ total <= low + length /\ (total > 0 => low < total)
      BY <1>8, <1>12
    <2>2. full > 0 => low > 0
      <3>1. full > 0 => full \in 1..full
        BY <1>8
      <3>2. full > 0 => (full - 1) * length \in Nat /\ low = (full - 1) * length + length
        BY <1>8, <3>1
      <3>3. QED
        BY <1>1, <3>2
    <2> HIDE DEF low
    <2>3. low <= total
      BY <1>8 DEF low
    <2>4. bl # <<>> => total > 0
      BY <1>1, <1>3, EmptySeq
    <2>5. QED
      BY <1>1, <1>3, <2>1, <2>2, <2>3, <2>4
  <1>14. DataPushed(total, full)
    BY <1>7, <1>10, <1>11, <1>12, <1>13, ZenonT(30) DEF DataPushed
  <1>15. QED
    BY <1>2, <1>14 DEF full, data

-----------------------------------------------------------------------------
(* Packets before and after a step *)

\* Packets are only added.
Extended ==
    /\ packets' \in Seq(Packets) /\ Len(packets) <= Len(packets')
    /\ \A j \in 1..Len(packets) : packets'[j] = packets[j]

LEMMA PackedByParts ==
  ASSUME packets \in Seq(Packets)
  PROVE  WellPacked <=> \A j \in 1..Len(packets) : Packed(j)
  <1>1. DOMAIN packets = 1..Len(packets)
    OBVIOUS
  <1>2. QED
    BY <1>1, Zenon DEF WellPacked, Packed, FirstOf

LEMMA OldPacket ==
  ASSUME Typed, Extended, NEW j \in 1..Len(packets)
  PROVE  /\ packets'[j] = packets[j] /\ UpTo(j)' = UpTo(j)
         /\ FirstOf(j)' = FirstOf(j) /\ Before(j)' = Before(j)
         /\ j # 1 => packets'[j - 1] = packets[j - 1]
  <1>1. packets'[j] = packets[j]
    BY DEF Extended
  <1>2. j # 1 => packets'[j - 1] = packets[j - 1]
    <2>1. j # 1 => j - 1 \in 1..Len(packets)
      BY LenProperties DEF Typed
    <2>2. QED
      BY <2>1 DEF Extended
  <1>3. FirstOf(j)' = FirstOf(j)
    BY <1>2 DEF FirstOf
  <1>4. UpTo(j)' = UpTo(j)
    BY <1>1 DEF UpTo
  <1>5. Before(j)' = Before(j)
    <2>1. CASE FirstOf(j)
      BY <1>3, <2>1 DEF Before
    <2>2. CASE ~FirstOf(j)
      <3>1. packets'[j - 1] = packets[j - 1]
        BY <1>2, <2>2 DEF FirstOf
      <3>2. UpTo(j - 1)' = UpTo(j - 1)
        BY <3>1 DEF UpTo
      <3>3. QED
        BY <1>3, <2>2, <3>2 DEF Before
    <2>3. QED
      BY <2>1, <2>2
  <1>6. QED
    BY <1>1, <1>2, <1>3, <1>4, <1>5

LEMMA SentGrows ==
  ASSUME Typed, Extended
  PROVE  Sent \subseteq Sent'
  <1>1. SUFFICES ASSUME NEW m \in Sent
                 PROVE  m \in Sent'
    OBVIOUS
  <1>2. PICK k \in DOMAIN packets : packets[k].last /\ m = packets[k].message
    BY DEF Sent
  <1>3. k \in DOMAIN packets' /\ packets'[k] = packets[k]
    <2>1. /\ DOMAIN packets = 1..Len(packets) /\ DOMAIN packets' = 1..Len(packets')
          /\ Len(packets) \in Nat /\ Len(packets') \in Nat
      BY LenProperties DEF Extended, Typed
    <2>2. QED
      BY <1>2, <2>1 DEF Extended
  <1>4. QED
    BY <1>2, <1>3 DEF Sent

LEMMA OldPacketsGoOn ==
  ASSUME Typed, PacketsInv, Extended, NEW j \in 1..Len(packets),
         \A m \in Messages : emitted[m] <= emitted'[m] /\ emitted'[m] \in Nat,
         \A m \in Sent : written'[m] = written[m] /\ (m \in ignore' <=> m \in ignore)
  PROVE  GoesOn(j)'
  <1>1. GoesOn(j) /\ packets[j].message \in Messages /\ UpTo(j) \in Nat
    BY PacketTyped, SizeAssumption DEF PacketsInv
  <1>2. /\ packets'[j] = packets[j] /\ UpTo(j)' = UpTo(j)
        /\ FirstOf(j)' = FirstOf(j) /\ Before(j)' = Before(j)
        /\ j # 1 => packets'[j - 1] = packets[j - 1]
    BY OldPacket
  <1>3. Sent \subseteq Sent'
    BY SentGrows
  <1>4. /\ packets[j].limit > 0
        /\ FirstOf(j) => packets[j].message = IF j = 1 THEN 1 ELSE packets[j - 1].message + 1
        /\ 1..(packets[j].message - 1) \subseteq Sent
        /\ \A k \in 1..Len(packets[j].data) : packets[j].data[k] = Before(j) + k
        /\ packets[j].ignore => packets[j].last
    BY <1>1, Zenon DEF GoesOn
  <1>5. UpTo(j)' <= emitted'[packets[j].message]
    <2>1. emitted[packets[j].message] <= emitted'[packets[j].message]
             /\ emitted'[packets[j].message] \in Nat
             /\ emitted[packets[j].message] \in Nat
      <3>1. \A m \in Messages : emitted[m] \in Nat
        BY SizeAssumption DEF Typed, TypeOK
      <3>2. QED
        BY <1>1, <3>1, Zenon
    <2>2. UpTo(j) <= emitted[packets[j].message]
      BY <1>1, Zenon DEF GoesOn
    <2>3. QED
      BY <1>1, <1>2, <2>1, <2>2
  <1>6. ASSUME packets[j].last
        PROVE  /\ packets[j].message \in Sent'
               /\ packets[j].ignore <=> packets[j].message \in ignore'
               /\ ~packets[j].ignore => UpTo(j)' = written'[packets[j].message]
    <2>1. /\ packets[j].message \in Sent
          /\ packets[j].ignore <=> packets[j].message \in ignore
          /\ ~packets[j].ignore => UpTo(j) = written[packets[j].message]
      BY <1>1, <1>6, Zenon DEF GoesOn
    <2>2. QED
      BY <1>2, <1>3, <2>1, Zenon
  <1>7. FirstOf(j)' => packets'[j].message = IF j = 1 THEN 1 ELSE packets'[j - 1].message + 1
    <2>1. FirstOf(j)' => FirstOf(j)
      BY <1>2, Zenon
    <2>2. QED
      BY <1>2, <1>4, <2>1, Zenon
  <1>8. QED
    BY <1>2, <1>3, <1>4, <1>5, <1>6, <1>7, Zenon DEF GoesOn

LEMMA OldPacketsPacked ==
  ASSUME Typed, WellPacked, Extended, NEW j \in 1..Len(packets)
  PROVE  Packed(j)'
  <1>1. Packed(j)
    BY PackedByParts DEF Typed
  <1>2. /\ packets'[j] = packets[j] /\ FirstOf(j)' = FirstOf(j)
        /\ j # 1 => packets'[j - 1] = packets[j - 1]
    BY OldPacket
  <1>3. QED
    BY <1>1, <1>2 DEF Packed, FirstOf

\* What the first packet that is added follows
LEMMA FirstNewPacket ==
  ASSUME Typed, CurrentInv, Extended, currentMessage # 0, NEW j \in Nat, j = Len(packets) + 1
  PROVE  /\ FirstOf(j)' <=> packetNumber = 0
         /\ Before(j)' = Base
         /\ packetNumber = 0 => currentMessage = IF j = 1 THEN 1 ELSE packets'[j - 1].message + 1
         /\ packetNumber # 0 =>
               /\ packets'[j - 1].message = currentMessage /\ packets'[j - 1].limit = length
               /\ packets'[j - 1].reset = (currentMessage \in Reset)
               /\ packets'[j - 1].id = packetNumber % 256
  <1>1. packets \in Seq(Packets) /\ Len(packets) \in Nat /\ packetNumber \in Nat
        /\ currentMessage \in Messages
    BY LenProperties DEF Typed, TypeOK
  <1>2. j # 1 => j - 1 = Len(packets) /\ j - 1 \in 1..Len(packets) /\ packets # <<>>
    BY <1>1
  <1>3. j = 1 => packets = <<>>
    BY <1>1, EmptySeq
  <1>4. j # 1 => /\ packets'[j - 1] = packets[Len(packets)] /\ UpTo(j - 1)' = UpTo(Len(packets))
    BY <1>1, <1>2, OldPacket DEF Extended
  <1>5. FirstOf(j)' <=> packetNumber = 0
    BY <1>1, <1>2, <1>3, <1>4 DEF FirstOf, CurrentInv
  <1>6. Before(j)' = Base
    BY <1>1, <1>3, <1>4, <1>5 DEF Before, Base, CurrentInv
  <1>7. packetNumber = 0 => currentMessage = IF j = 1 THEN 1 ELSE packets'[j - 1].message + 1
    <2>1. packetNumber = 0 => Latest = currentMessage - 1
      BY DEF CurrentInv
    <2>2. j # 1 => Latest = packets'[j - 1].message /\ Latest \in Nat
      BY <1>2, <1>4, PacketTyped DEF Latest, Messages
    <2>3. j = 1 => Latest = 0
      BY <1>3 DEF Latest
    <2>4. QED
      BY <1>1, <2>1, <2>2, <2>3 DEF Messages
  <1>8. packetNumber # 0 => packets # <<>>
    BY <1>1 DEF CurrentInv
  <1>9. QED
    BY <1>1, <1>3, <1>4, <1>5, <1>6, <1>7, <1>8 DEF CurrentInv

-----------------------------------------------------------------------------
(* The packets that a step adds *)

LEMMA DataCounts ==
  ASSUME Typed, TurnInv, CurrentInv, NEW n \in 1..MaxBytes, MessageData(n),
         NEW total, total = Len(bl) + Len(Data(currentMessage, n))
  PROVE  /\ currentMessage \in Messages /\ total \in Nat /\ Base \in Nat
         /\ emitted' \in [Messages -> 0..MaxBytes]
         /\ \A m \in Messages : emitted[m] <= emitted'[m] /\ emitted'[m] <= written[m]
         /\ \A m \in Messages \ {currentMessage} : emitted'[m] = emitted[m]
         /\ emitted'[currentMessage] = emitted[currentMessage] + n
         /\ Base + total <= emitted'[currentMessage]
         /\ currentMessage \notin ignore => Base + total = emitted'[currentMessage]
  <1> DEFINE m == currentMessage
  <1>1. m \in Messages /\ m # 0 /\ n \in 1..(written[m] - emitted[m])
    BY DEF MessageData, Typed, TypeOK
  <1>2. /\ emitted \in [Messages -> 0..MaxBytes] /\ written \in [Messages -> 0..MaxBytes]
        /\ Len(bl) \in Nat /\ n \in Nat /\ MaxBytes \in Nat
    <2>1. emitted \in [Messages -> 0..MaxBytes] /\ written \in [Messages -> 0..MaxBytes]
      BY DEF Typed, TypeOK
    <2>2. Len(bl) \in Nat
      BY LenProperties DEF Typed
    <2>3. MaxBytes \in Nat /\ n \in Nat
      BY SizeAssumption
    <2>4. QED
      BY <2>1, <2>2, <2>3
  <1>3. emitted' = [emitted EXCEPT ![m] = @ + n]
    BY DEF MessageData
  <1>4. Len(Data(m, n)) = IF m \in ignore THEN 0 ELSE n
    BY DataEffect
  <1>5. Base \in Nat
    BY <1>1, BaseTyped
  <1>6. /\ Base + Len(bl) <= emitted[m]
        /\ m \notin ignore => Base + Len(bl) = emitted[m]
    BY <1>1 DEF CurrentInv, Base
  <1>7. emitted[m] + n \in 0..MaxBytes /\ emitted[m] + n <= written[m]
    BY <1>1, <1>2
  <1>8. emitted'[m] = emitted[m] + n
    BY <1>1, <1>2, <1>3
  <1>9. \A i \in Messages \ {m} : emitted'[i] = emitted[i]
    BY <1>2, <1>3
  <1>10. emitted' \in [Messages -> 0..MaxBytes]
    BY <1>2, <1>3, <1>7
  <1>11. \A i \in Messages : emitted[i] <= emitted'[i] /\ emitted'[i] <= written[i]
    <2>1. \A i \in Messages : emitted[i] <= written[i] /\ emitted[i] \in Nat
      BY <1>2 DEF TurnInv
    <2>2. QED
      BY <1>1, <1>2, <1>7, <1>8, <1>9, <2>1
  <1> HIDE DEF m
  <1>12. /\ total \in Nat /\ Base + total <= emitted'[m]
         /\ m \notin ignore => Base + total = emitted'[m]
    <2>1. emitted[m] \in Nat
      BY <1>1, <1>2 DEF m
    <2>2. total = Len(bl) + IF m \in ignore THEN 0 ELSE n
      BY <1>4 DEF m
    <2>3. QED
      BY <1>2, <1>5, <1>6, <1>8, <2>1, <2>2, SMTT(30)
  <1>13. QED
    BY <1>1, <1>5, <1>8, <1>9, <1>10, <1>11, <1>12 DEF m

\* A packet that 'data' pushes, and the one before it
PacketPushed(j, k) ==
    /\ j \in 1..Len(packets')
    /\ packets'[j].message = currentMessage /\ packets'[j].id = (packetNumber + k) % 256
    /\ ~packets'[j].last /\ ~packets'[j].ignore
    /\ packets'[j].reset = (currentMessage \in Reset)
    /\ packets'[j].limit = length /\ Len(packets'[j].data) = length
    /\ \A i \in 1..length : packets'[j].data[i] = Before(j)' + i
    /\ FirstOf(j)' <=> k = 1 /\ packetNumber = 0
    /\ Before(j)' = Base + (k - 1) * length
    /\ UpTo(j)' = Base + (k - 1) * length + length
    /\ FirstOf(j)' => currentMessage = IF j = 1 THEN 1 ELSE packets'[j - 1].message + 1
    /\ ~FirstOf(j)' =>
          /\ packets'[j - 1].message = currentMessage /\ packets'[j - 1].limit = length
          /\ packets'[j - 1].reset = (currentMessage \in Reset)
          /\ packets'[j - 1].id = (packetNumber + k - 1) % 256

\* What packet i is by itself, the h-th that is pushed
OwnFields(i, h) ==
    /\ packets'[i].message = currentMessage /\ packets'[i].id = (packetNumber + h) % 256
    /\ ~packets'[i].last /\ ~packets'[i].ignore
    /\ packets'[i].reset = (currentMessage \in Reset)
    /\ packets'[i].limit = length /\ Len(packets'[i].data) = length
    /\ UpTo(i)' = Base + (h - 1) * length + length
    /\ \A b \in 1..length : packets'[i].data[b] = Base + (h - 1) * length + b

LEMMA PushedPacket ==
  ASSUME Typed, CurrentInv, currentMessage # 0,
         NEW total \in Nat, NEW full \in Nat, DataPushed(total, full),
         NEW k \in 1..full, NEW j \in Nat, j = Len(packets) + k
  PROVE  PacketPushed(j, k)
  <1>1. /\ Len(packets) \in Nat /\ length \in Nat /\ length > 0 /\ packetNumber \in Nat
        /\ Len(packets') = Len(packets) + full /\ Base \in Nat
    <2>1. Len(packets) \in Nat /\ length \in Nat /\ packetNumber \in Nat
      BY LenProperties DEF Typed, TypeOK
    <2>2. Base \in Nat
      BY BaseTyped
    <2>3. length > 0 /\ Len(packets') = Len(packets) + full
      BY DEF CurrentInv, DataPushed
    <2>4. QED
      BY <2>1, <2>2, <2>3
  <1>2. j \in 1..Len(packets')
    BY <1>1
  <1>3. ASSUME NEW h \in 1..full, NEW i \in Nat, i = Len(packets) + h
        PROVE  OwnFields(i, h)
    <2>1. /\ packets'[i].message = currentMessage /\ packets'[i].id = (packetNumber + h) % 256
          /\ ~packets'[i].last /\ ~packets'[i].ignore
          /\ packets'[i].reset = (currentMessage \in Reset)
          /\ packets'[i].limit = length /\ Len(packets'[i].data) = length
          /\ \A b \in 1..length : packets'[i].data[b] = Base + (h - 1) * length + b
      BY <1>3, Zenon DEF DataPushed
    <2>2. packets'[i].data # <<>>
      BY <1>1, <2>1
    <2>3. length \in 1..length
      BY <1>1
    <2>4. UpTo(i)' = packets'[i].data[length]
      BY <2>1, <2>2, Zenon DEF UpTo
    <2>5. QED
      BY <2>1, <2>3, <2>4, Zenon DEF OwnFields
  <1>4. Extended
    <2>1. packets' \in Seq(Packets) /\ \A i \in 1..Len(packets) : packets'[i] = packets[i]
      BY Zenon DEF DataPushed
    <2>2. QED
      BY <1>1, <2>1 DEF Extended
  <1>5. OwnFields(j, k)
    BY <1>3
  <1>6. ASSUME Before(j)' = Base + (k - 1) * length
        PROVE  \A b \in 1..length : packets'[j].data[b] = Before(j)' + b
    BY <1>5, <1>6, Zenon DEF OwnFields
  <1>7. CASE k = 1
    <2>1. j = Len(packets) + 1
      BY <1>7
    <2>2. /\ FirstOf(j)' <=> packetNumber = 0
          /\ Before(j)' = Base
          /\ packetNumber = 0 => currentMessage = IF j = 1 THEN 1 ELSE packets'[j - 1].message + 1
          /\ packetNumber # 0 =>
                /\ packets'[j - 1].message = currentMessage /\ packets'[j - 1].limit = length
                /\ packets'[j - 1].reset = (currentMessage \in Reset)
                /\ packets'[j - 1].id = packetNumber % 256
      BY <1>4, <2>1, FirstNewPacket
    <2>3. (k - 1) * length = 0 /\ Base + (k - 1) * length = Base /\ packetNumber + k - 1 = packetNumber
      BY <1>1, <1>7
    <2>4. Before(j)' = Base + (k - 1) * length
      BY <2>2, <2>3
    <2>5. \A b \in 1..length : packets'[j].data[b] = Before(j)' + b
      BY <1>6, <2>4
    <2>6. packetNumber # 0 => packets'[j - 1].id = (packetNumber + k - 1) % 256
      BY <2>2, <2>3
    <2>7. QED
      BY <1>2, <1>5, <1>7, <2>2, <2>4, <2>5, <2>6, Zenon DEF PacketPushed, OwnFields
  <1>8. CASE k # 1
    <2> DEFINE h == k - 1
               i == j - 1
    <2>1. h \in 1..full /\ i \in Nat /\ i = Len(packets) + h /\ j # 1 /\ packetNumber + h = packetNumber + k - 1
      BY <1>1, <1>8
    <2> HIDE DEF h, i
    <2>2. OwnFields(i, h)
      BY <1>3, <2>1
    <2>3. /\ packets'[i].message = currentMessage /\ packets'[i].id = (packetNumber + h) % 256
          /\ ~packets'[i].last /\ packets'[i].limit = length
          /\ packets'[i].reset = (currentMessage \in Reset)
          /\ UpTo(i)' = Base + (h - 1) * length + length
      BY <2>2, Zenon DEF OwnFields
    <2> USE DEF h, i
    <2>4. ~FirstOf(j)' /\ Before(j)' = UpTo(i)'
      <3>1. ~FirstOf(j)'
        BY <2>1, <2>3, Zenon DEF FirstOf
      <3>2. QED
        BY <3>1, Zenon DEF Before
    <2>5. (h - 1) * length + length = h * length /\ Base + (h - 1) * length + length = Base + h * length
      <3>1. h - 1 \in Nat /\ (h - 1) + 1 = h
        BY <2>1
      <3>2. (h - 1) * length \in Nat /\ h * length = (h - 1) * length + length
        BY <1>1, <3>1, Multiples
      <3>3. QED
        BY <1>1, <3>2
    <2>6. Before(j)' = Base + (k - 1) * length
      BY <2>3, <2>4, <2>5, Zenon
    <2>7. \A b \in 1..length : packets'[j].data[b] = Before(j)' + b
      BY <1>6, <2>6
    <2>8. packets'[j - 1].id = (packetNumber + k - 1) % 256
      BY <2>1, <2>3
    <2>9. /\ packets'[j - 1].message = currentMessage /\ packets'[j - 1].limit = length
          /\ packets'[j - 1].reset = (currentMessage \in Reset)
      BY <2>3
    <2>10. QED
      BY <1>2, <1>5, <1>8, <2>4, <2>6, <2>7, <2>8, <2>9, Zenon DEF PacketPushed, OwnFields
  <1>9. QED
    BY <1>7, <1>8

\* The last packet of a message, and the one before it
LEMMA EndedPacket ==
  ASSUME Typed, TurnInv, CurrentInv, MessageEnd, NEW j \in Nat, j = Len(packets) + 1
  PROVE  /\ Extended /\ Len(packets') = j
         /\ packets'[j].message = currentMessage /\ packets'[j].id = (packetNumber + 1) % 256
         /\ packets'[j].last /\ (packets'[j].ignore <=> currentMessage \in ignore)
         /\ packets'[j].reset = (currentMessage \in Reset)
         /\ packets'[j].limit = length /\ packets'[j].data = bl
         /\ \A i \in 1..Len(bl) : bl[i] = Before(j)' + i
         /\ FirstOf(j)' <=> packetNumber = 0
         /\ Before(j)' = Base /\ UpTo(j)' = Base + Len(bl)
         /\ FirstOf(j)' => currentMessage = IF j = 1 THEN 1 ELSE packets'[j - 1].message + 1
         /\ ~FirstOf(j)' =>
               /\ packets'[j - 1].message = currentMessage /\ packets'[j - 1].limit = length
               /\ packets'[j - 1].reset = (currentMessage \in Reset)
               /\ packets'[j - 1].id = packetNumber % 256
               /\ bl # <<>>
  <1>1. /\ currentMessage \in Messages /\ currentMessage # 0 /\ packetNumber \in Nat
        /\ bl \in Seq(Byte) /\ packets \in Seq(Packets) /\ Len(packets) \in Nat /\ Len(bl) \in Nat
        /\ length \in Nat
    BY LenProperties DEF Typed, TypeOK, MessageEnd
  <1>2. Base \in Nat
    BY <1>1, BaseTyped
  <1> DEFINE id == (packetNumber + 1) % 256
             marked == currentMessage \in ignore
             reset == currentMessage \in Reset
             packet == [message |-> currentMessage, id |-> id, last |-> TRUE, ignore |-> marked,
                        reset |-> reset, data |-> bl, limit |-> length]
  <1>3. packets' = Append(packets, packet)
    BY DEF MessageEnd, LastPacket, Packet
  <1>4. id \in 0..255 /\ marked \in BOOLEAN /\ reset \in BOOLEAN
    BY <1>1
  <1> HIDE DEF id, marked, reset
  <1>5. packet \in Packets
    BY <1>1, <1>4 DEF Packets
  <1>6. /\ packet.message = currentMessage /\ packet.id = id /\ packet.last = TRUE
        /\ packet.ignore = marked /\ packet.reset = reset /\ packet.data = bl /\ packet.limit = length
    OBVIOUS
  <1> HIDE DEF packet
  <1>7. /\ packets' \in Seq(Packets) /\ Len(packets') = Len(packets) + 1
        /\ \A i \in 1..Len(packets) : packets'[i] = packets[i]
        /\ packets'[Len(packets) + 1] = packet
    BY <1>1, <1>3, <1>5, AppendProperties
  <1>8. Extended /\ Len(packets') = j /\ packets'[j] = packet
    BY <1>1, <1>7 DEF Extended
  <1>9. /\ FirstOf(j)' <=> packetNumber = 0
        /\ Before(j)' = Base
        /\ packetNumber = 0 => currentMessage = IF j = 1 THEN 1 ELSE packets'[j - 1].message + 1
        /\ packetNumber # 0 =>
              /\ packets'[j - 1].message = currentMessage /\ packets'[j - 1].limit = length
              /\ packets'[j - 1].reset = (currentMessage \in Reset)
              /\ packets'[j - 1].id = packetNumber % 256
    BY <1>1, <1>8, FirstNewPacket
  <1>10. packetNumber # 0 => bl # <<>>
    BY <1>1 DEF CurrentInv
  <1>11. \A i \in 1..Len(bl) : bl[i] = Base + i
    BY <1>1 DEF CurrentInv, Base
  <1>12. UpTo(j)' = Base + Len(bl)
    <2>1. UpTo(j)' = IF bl = <<>> THEN 0 ELSE bl[Len(bl)]
      BY <1>6, <1>8, Zenon DEF UpTo
    <2>2. CASE bl = <<>>
      <3>1. Base = 0 /\ Len(bl) = 0
        BY <1>10, <2>2 DEF Base
      <3>2. QED
        BY <2>1, <2>2, <3>1
    <2>3. CASE bl # <<>>
      <3>1. Len(bl) \in 1..Len(bl)
        BY <1>1, <2>3, EmptySeq
      <3>2. QED
        BY <1>11, <2>1, <2>3, <3>1
    <2>4. QED
      BY <2>2, <2>3
  <1>13. QED
    BY <1>6, <1>8, <1>9, <1>10, <1>11, <1>12, Zenon DEF id, marked, reset

-----------------------------------------------------------------------------
(* The packets of a message go on where the one before stopped. *)

\* What a step does to packets
LEMMA PacketSteps ==
  ASSUME Typed, TurnInv, [Next]_vars
  PROVE  \/ /\ UNCHANGED <<packets, emitted>>
            /\ \A m \in Sent : written'[m] = written[m] /\ (m \in ignore' <=> m \in ignore)
         \/ \E n \in 1..MaxBytes : MessageData(n)
         \/ MessageEnd
  <1>1. CASE UNCHANGED outVars
    BY <1>1 DEF outVars
  <1>2. CASE \E m \in Messages : WriteData(m)
    <2>1. PICK m \in Messages : WriteData(m)
      BY <1>2
    <2>2. m \notin Sent
      BY <2>1 DEF WriteData, TurnInv
    <2>3. /\ UNCHANGED <<packets, emitted, ignore>>
          /\ \E n \in written[m]..MaxBytes : written' = [written EXCEPT ![m] = n]
      BY <2>1 DEF WriteData
    <2>4. Sent \subseteq Messages
      <3>1. SUFFICES ASSUME NEW k \in DOMAIN packets
                     PROVE  packets[k].message \in Messages
        BY DEF Sent
      <3>2. k \in 1..Len(packets)
        BY DEF Typed
      <3>3. QED
        BY <3>2, PacketTyped
    <2>5. written \in [Messages -> 0..MaxBytes]
      BY DEF Typed, TypeOK
    <2>6. QED
      BY <2>2, <2>3, <2>4, <2>5
  <1>3. CASE \E m \in Messages : EndMessage(m) \/ IgnoreMessage(m)
    <2>1. PICK m \in Messages : EndMessage(m) \/ IgnoreMessage(m)
      BY <1>3
    <2>2. UNCHANGED <<packets, emitted, written>> /\ (ignore' = ignore \/ (m \notin Sent /\ ignore' = ignore \cup {m}))
      BY <2>1 DEF EndMessage, IgnoreMessage
    <2>3. QED
      BY <2>2
  <1>4. CASE (\E s \in PacketSizes : PacketSize(s)) \/ (\E m \in Messages : Write(m))
                \/ (\E broken \in BOOLEAN : Pipe(broken))
    BY <1>4 DEF PacketSize, Write, Pipe
  <1>5. CASE (\E n \in 1..Len(wire) : Transform(n)) \/ CallBack \/ ProcessPacket
                \/ (\E m \in Messages : ReadData(m) \/ IncomingEnd(m)) \/ UNCHANGED vars
    BY <1>1, <1>5 DEF Transform, CallBack, ProcessPacket, ReadData, IncomingEnd, vars
  <1>6. QED
    BY <1>2, <1>3, <1>4, <1>5 DEF Next, Outgoing

LEMMA NextPackets ==
  ASSUME Typed, TurnInv, CurrentInv, PacketsInv, WellPacked, [Next]_vars
  PROVE  PacketsInv' /\ WellPacked'
  <1>1. packets \in Seq(Packets) /\ Len(packets) \in Nat
    BY LenProperties DEF Typed
  <1>2. ASSUME packets' \in Seq(Packets), \A j \in 1..Len(packets') : GoesOn(j)' /\ Packed(j)'
        PROVE  PacketsInv' /\ WellPacked'
    <2>1. \A j \in (1..Len(packets))' : GoesOn(j)' /\ Packed(j)'
      BY <1>2
    <2>2. (packets \in Seq(Packets))' => (WellPacked <=> \A j \in 1..Len(packets) : Packed(j))'
      BY PackedByParts, PTL
    <2>3. QED
      BY <1>2, <2>1, <2>2 DEF PacketsInv
  <1>3. ASSUME UNCHANGED <<packets, emitted>>,
               \A m \in Sent : written'[m] = written[m] /\ (m \in ignore' <=> m \in ignore)
        PROVE  PacketsInv' /\ WellPacked'
    <2>1. Extended
      BY <1>1, <1>3 DEF Extended
    <2>2. \A m \in Messages : emitted[m] <= emitted'[m] /\ emitted'[m] \in Nat
      BY <1>3, SizeAssumption DEF Typed, TypeOK
    <2>3. \A j \in 1..Len(packets) : GoesOn(j)' /\ Packed(j)'
      BY <1>3, <2>1, <2>2, OldPacketsGoOn, OldPacketsPacked
    <2>4. QED
      BY <1>1, <1>2, <1>3, <2>3
  <1>4. ASSUME NEW n \in 1..MaxBytes, MessageData(n)
        PROVE  PacketsInv' /\ WellPacked'
    <2> DEFINE total == Len(bl) + Len(Data(currentMessage, n))
               full == FullPackets(total)
    <2>1. /\ DataPushed(total, full) /\ currentMessage # 0 /\ UNCHANGED <<written, ignore>>
          /\ currentMessage \in Messages
      BY <1>4, DataEffect DEF MessageData, Typed, TypeOK
    <2>2. /\ total \in Nat /\ Base \in Nat /\ Base + total <= emitted'[currentMessage]
          /\ emitted' \in [Messages -> 0..MaxBytes]
          /\ \A m \in Messages : emitted[m] <= emitted'[m]
      BY <1>4, DataCounts
    <2>3. length \in Nat /\ length > 0 /\ packetNumber \in Nat
      BY <2>1 DEF Typed, TypeOK, CurrentInv
    <2> HIDE DEF total
    <2>4. /\ full \in Nat /\ full * length \in Nat /\ full * length <= total
          /\ \A k \in 1..full : /\ (k - 1) * length \in Nat /\ k * length = (k - 1) * length + length
                               /\ k * length <= full * length
      BY <2>2, <2>3, Splits
    <2> HIDE DEF full
    <2>5. /\ packets' \in Seq(Packets) /\ Len(packets') = Len(packets) + full
          /\ Extended
      BY <1>1, <2>1, <2>4 DEF DataPushed, Extended
    <2>6. ASSUME NEW j \in 1..Len(packets)
          PROVE  GoesOn(j)' /\ Packed(j)'
      <3>1. \A m \in Messages : emitted[m] <= emitted'[m] /\ emitted'[m] \in Nat
        BY <2>2, SizeAssumption
      <3>2. \A m \in Sent : written'[m] = written[m] /\ (m \in ignore' <=> m \in ignore)
        BY <2>1
      <3>3. QED
        BY <2>5, <3>1, <3>2, OldPacketsGoOn, OldPacketsPacked
    <2>7. ASSUME NEW k \in 1..full, NEW j \in Nat, j = Len(packets) + k
          PROVE  GoesOn(j)' /\ Packed(j)'
      <3>1. /\ j \in 1..Len(packets')
            /\ packets'[j].message = currentMessage /\ packets'[j].id = (packetNumber + k) % 256
            /\ ~packets'[j].last /\ ~packets'[j].ignore
            /\ packets'[j].reset = (currentMessage \in Reset)
            /\ packets'[j].limit = length /\ Len(packets'[j].data) = length
            /\ \A i \in 1..length : packets'[j].data[i] = Before(j)' + i
            /\ FirstOf(j)' <=> k = 1 /\ packetNumber = 0
            /\ Before(j)' = Base + (k - 1) * length
            /\ UpTo(j)' = Base + (k - 1) * length + length
            /\ FirstOf(j)' => currentMessage = IF j = 1 THEN 1 ELSE packets'[j - 1].message + 1
            /\ ~FirstOf(j)' =>
                  /\ packets'[j - 1].message = currentMessage /\ packets'[j - 1].limit = length
                  /\ packets'[j - 1].reset = (currentMessage \in Reset)
                  /\ packets'[j - 1].id = (packetNumber + k - 1) % 256
        <4>1. total \in Nat /\ full \in Nat /\ DataPushed(total, full) /\ currentMessage # 0
          BY <2>1, <2>2, <2>4
        <4>2. PacketPushed(j, k)
          BY <2>7, <4>1, PushedPacket, Zenon
        <4>3. QED
          BY <4>2, Zenon DEF PacketPushed
      <3>2. 1..(currentMessage - 1) \subseteq Sent'
        BY <2>1, <2>5, SentGrows DEF TurnInv
      <3>3. UpTo(j)' <= emitted'[currentMessage]
        <4> DEFINE low == (k - 1) * length
                   end == full * length
        <4>1. low \in Nat /\ low + length <= end /\ end <= total /\ end \in Nat
          <5>1. low \in Nat /\ k * length = low + length /\ k * length <= end
            BY <2>4
          <5>2. end <= total /\ end \in Nat
            BY <2>4
          <5> HIDE DEF low, end
          <5>3. QED
            BY <5>1, <5>2
        <4>2. UpTo(j)' = Base + low + length
          BY <3>1
        <4>3. emitted'[currentMessage] \in Nat
          BY <2>1, <2>2, SizeAssumption
        <4> HIDE DEF low, end
        <4>4. QED
          BY <2>2, <2>3, <4>1, <4>2, <4>3
      <3>4. GoesOn(j)'
        BY <2>3, <3>1, <3>2, <3>3 DEF GoesOn
      <3>5. packets'[j].id = IF FirstOf(j)' THEN 1 ELSE (packets'[j - 1].id + 1) % 256
        <4>1. FirstOf(j)' => packets'[j].id = 1
          BY <2>3, <3>1
        <4>2. ~FirstOf(j)' => packets'[j].id = (packets'[j - 1].id + 1) % 256
          <5>1. packetNumber + k - 1 \in Nat /\ (packetNumber + k - 1) + 1 = packetNumber + k
            BY <2>3, <2>4
          <5>2. (packetNumber + k) % 256 = (((packetNumber + k - 1) % 256) + 1) % 256
            BY <5>1, NextId
          <5>3. QED
            BY <3>1, <5>2
        <4>3. QED
          BY <4>1, <4>2
      <3>6. Packed(j)'
        BY <3>1, <3>5 DEF Packed
      <3>7. QED
        BY <3>4, <3>6
    <2>8. ASSUME NEW j \in 1..Len(packets')
          PROVE  GoesOn(j)' /\ Packed(j)'
      <3>1. CASE j <= Len(packets)
        BY <1>1, <2>6, <3>1
      <3>2. CASE j > Len(packets)
        <4>1. j - Len(packets) \in 1..full /\ j = Len(packets) + (j - Len(packets)) /\ j \in Nat
          BY <1>1, <2>4, <2>5, <3>2
        <4>2. QED
          BY <2>7, <4>1
      <3>3. QED
        BY <1>1, <3>1, <3>2
    <2>9. QED
      BY <1>2, <2>5, <2>8
  <1>5. CASE MessageEnd
    <2> DEFINE last == Len(packets) + 1
    <2>1. PICK j \in Nat : j = last
      BY <1>1
    <2>2. /\ Extended /\ Len(packets') = j
          /\ packets'[j].message = currentMessage /\ packets'[j].id = (packetNumber + 1) % 256
          /\ packets'[j].last /\ (packets'[j].ignore <=> currentMessage \in ignore)
          /\ packets'[j].reset = (currentMessage \in Reset)
          /\ packets'[j].limit = length /\ packets'[j].data = bl
          /\ \A i \in 1..Len(bl) : bl[i] = Before(j)' + i
          /\ FirstOf(j)' <=> packetNumber = 0
          /\ Before(j)' = Base /\ UpTo(j)' = Base + Len(bl)
          /\ FirstOf(j)' => currentMessage = IF j = 1 THEN 1 ELSE packets'[j - 1].message + 1
          /\ ~FirstOf(j)' =>
                /\ packets'[j - 1].message = currentMessage /\ packets'[j - 1].limit = length
                /\ packets'[j - 1].reset = (currentMessage \in Reset)
                /\ packets'[j - 1].id = packetNumber % 256
                /\ bl # <<>>
      BY <1>5, <2>1, EndedPacket
    <2>3. /\ UNCHANGED <<written, emitted, ignore>> /\ currentMessage # 0 /\ currentMessage \in Messages
          /\ emitted[currentMessage] = written[currentMessage]
          /\ length > 0 /\ Len(bl) <= length /\ packetNumber \in Nat
      BY <1>5 DEF MessageEnd, Typed, TypeOK, CurrentInv
    <2>4. /\ Base + Len(bl) <= emitted[currentMessage]
          /\ currentMessage \notin ignore => Base + Len(bl) = emitted[currentMessage]
      BY <2>3 DEF CurrentInv, Base
    <2>5. 1..(currentMessage - 1) \subseteq Sent' /\ currentMessage \in Sent'
      <3>1. 1..(currentMessage - 1) \subseteq Sent'
        BY <2>2, <2>3, SentGrows DEF TurnInv
      <3>2. j \in DOMAIN packets'
        <4>1. j \in 1..Len(packets') /\ packets' \in Seq(Packets)
          BY <1>1, <2>1, <2>2 DEF Extended
        <4>2. QED
          BY <4>1
      <3>3. QED
        BY <2>2, <3>1, <3>2 DEF Sent
    <2>6. GoesOn(j)'
      BY <2>2, <2>3, <2>4, <2>5 DEF GoesOn
    <2>7. Packed(j)'
      <3>1. FirstOf(j)' => packets'[j].id = 1
        BY <2>2, <2>3
      <3>2. ~FirstOf(j)' => packets'[j].id = (packets'[j - 1].id + 1) % 256
        BY <2>2, <2>3, NextId
      <3>3. QED
        BY <2>2, <2>3, <3>1, <3>2 DEF Packed
    <2>8. ASSUME NEW i \in 1..Len(packets)
          PROVE  GoesOn(i)' /\ Packed(i)'
      <3>1. \A m \in Messages : emitted[m] <= emitted'[m] /\ emitted'[m] \in Nat
        BY <2>3, SizeAssumption DEF Typed, TypeOK
      <3>2. \A m \in Sent : written'[m] = written[m] /\ (m \in ignore' <=> m \in ignore)
        BY <2>3
      <3>3. QED
        BY <2>2, <3>1, <3>2, OldPacketsGoOn, OldPacketsPacked
    <2>9. ASSUME NEW i \in 1..Len(packets')
          PROVE  GoesOn(i)' /\ Packed(i)'
      <3>1. i = j \/ i \in 1..Len(packets)
        BY <1>1, <2>1, <2>2
      <3>2. QED
        BY <2>6, <2>7, <2>8, <3>1
    <2>10. packets' \in Seq(Packets)
      BY <2>2 DEF Extended
    <2>11. QED
      BY <1>2, <2>9, <2>10
  <1>6. QED
    BY <1>3, <1>4, <1>5, PacketSteps

-----------------------------------------------------------------------------
(* The messages in their turn *)

LEMMA SentBy ==
  ASSUME packets \in Seq(Packets)
  PROVE  \A m : m \in Sent <=> \E k \in 1..Len(packets) : packets[k].last /\ packets[k].message = m
  <1>1. DOMAIN packets = 1..Len(packets)
    OBVIOUS
  <1>2. QED
    BY <1>1 DEF Sent

\* 'data' completes no message, 'end' the current one.
LEMMA SentAfterData ==
  ASSUME Typed, CurrentInv, NEW n \in 1..MaxBytes, MessageData(n)
  PROVE  Sent' = Sent
  <1> DEFINE total == Len(bl) + Len(Data(currentMessage, n))
             full == FullPackets(total)
  <1>1. DataPushed(total, full)
    BY DataEffect
  <1>2. full \in Nat /\ packets \in Seq(Packets) /\ Len(packets) \in Nat
    <2>1. total \in Nat
      BY DataEffect, LenProperties DEF Typed, TypeOK
    <2>2. length \in Nat /\ length > 0
      BY DEF Typed, TypeOK, CurrentInv, MessageData
    <2> HIDE DEF total
    <2>3. QED
      BY <2>1, <2>2, Splits, LenProperties DEF Typed
  <1> HIDE DEF total, full
  <1>3. /\ packets' \in Seq(Packets) /\ Len(packets') = Len(packets) + full
        /\ \A j \in 1..Len(packets) : packets'[j] = packets[j]
        /\ \A k \in 1..full : ~packets'[Len(packets) + k].last
    BY <1>1 DEF DataPushed
  <1>4. ASSUME NEW k \in 1..Len(packets'), packets'[k].last
        PROVE  k \in 1..Len(packets)
    <2>1. CASE k > Len(packets)
      <3>1. k - Len(packets) \in 1..full /\ k = Len(packets) + (k - Len(packets))
        BY <1>2, <1>3, <2>1
      <3>2. QED
        BY <1>3, <1>4, <3>1
    <2>2. QED
      BY <1>2, <1>3, <2>1
  <1>5. 1..Len(packets) \subseteq 1..Len(packets')
    BY <1>2, <1>3
  <1>6. \A m : m \in Sent <=> \E k \in 1..Len(packets) : packets[k].last /\ packets[k].message = m
    BY <1>2, SentBy
  <1>7. \A m : m \in Sent' <=> \E k \in 1..Len(packets') : packets'[k].last /\ packets'[k].message = m
    <2>1. DOMAIN packets' = 1..Len(packets')
      BY <1>3
    <2>2. QED
      BY <2>1 DEF Sent
  <1>8. \A m : m \in Sent' <=> m \in Sent
    BY <1>3, <1>4, <1>5, <1>6, <1>7
  <1>9. QED
    BY <1>8

LEMMA SentAfterEnd ==
  ASSUME Typed, TurnInv, CurrentInv, MessageEnd
  PROVE  /\ Sent' = Sent \cup {currentMessage} /\ Latest' = currentMessage
         /\ packets' # <<>> /\ packets'[Len(packets')].last
  <1> DEFINE last == Len(packets) + 1
  <1>1. packets \in Seq(Packets) /\ Len(packets) \in Nat
    BY LenProperties DEF Typed
  <1>2. PICK j \in Nat : j = last
    BY <1>1
  <1>3. /\ Extended /\ Len(packets') = j
        /\ packets'[j].message = currentMessage /\ packets'[j].last
    BY <1>2, EndedPacket
  <1>4. packets' \in Seq(Packets) /\ \A i \in 1..Len(packets) : packets'[i] = packets[i]
    BY <1>3 DEF Extended
  <1>5. \A m : m \in Sent <=> \E k \in 1..Len(packets) : packets[k].last /\ packets[k].message = m
    BY <1>1, SentBy
  <1>6. \A m : m \in Sent' <=> \E k \in 1..Len(packets') : packets'[k].last /\ packets'[k].message = m
    <2>1. DOMAIN packets' = 1..Len(packets')
      BY <1>4
    <2>2. QED
      BY <2>1 DEF Sent
  <1>7. \A k : k \in 1..Len(packets') <=> k \in 1..Len(packets) \/ k = j
    BY <1>1, <1>2, <1>3
  <1>8. \A m : m \in Sent' <=> m \in Sent \/ m = currentMessage
    BY <1>3, <1>4, <1>5, <1>6, <1>7
  <1>9. packets' # <<>>
    BY <1>1, <1>2, <1>3, <1>4, EmptySeq
  <1>10. QED
    BY <1>3, <1>8, <1>9 DEF Latest

LEMMA LatestTyped ==
  ASSUME Typed
  PROVE  Latest \in 0..NumMessages /\ (packets # <<>> => Latest \in Messages)
  <1>1. CASE packets = <<>>
    BY <1>1, SizeAssumption DEF Latest
  <1>2. CASE packets # <<>>
    <2>1. Len(packets) \in 1..Len(packets)
      BY <1>2, EmptySeq, LenProperties DEF Typed
    <2>2. QED
      BY <1>2, <2>1, PacketTyped, SizeAssumption DEF Latest, Messages
  <1>3. QED
    BY <1>1, <1>2

\* A message is written when those before it are sent.
LEMMA WriteTurn ==
  ASSUME Typed, TurnInv, NEW m \in Messages, Write(m)
  PROVE  m = Latest + 1 /\ Sent = 1..(m - 1) /\ m # 0
  <1>1. Sent = 1..Latest /\ m \notin Sent /\ \A k \in Messages : k < m => k \in Sent
    BY DEF Write, TurnInv
  <1>2. Latest \in 0..NumMessages /\ NumMessages \in Nat /\ m \in 1..NumMessages
    BY LatestTyped, SizeAssumption DEF Messages
  <1>3. m > Latest
    BY <1>1, <1>2
  <1>4. ~(Latest + 1 < m)
    <2>1. Latest + 1 < m => Latest + 1 \in Messages /\ Latest + 1 \notin Sent
      BY <1>1, <1>2 DEF Messages
    <2>2. QED
      BY <1>1, <2>1
  <1>5. QED
    BY <1>1, <1>2, <1>3, <1>4

LEMMA NextTurn ==
  ASSUME Typed, TurnInv, CurrentInv, [Next]_vars
  PROVE  TurnInv'
  <1>1. /\ emitted \in [Messages -> 0..MaxBytes] /\ written \in [Messages -> 0..MaxBytes]
        /\ ended \subseteq Messages /\ ignore \subseteq Messages /\ MaxBytes \in Nat
    BY SizeAssumption DEF Typed, TypeOK
  <1>2. ASSUME UNCHANGED packets
        PROVE  Sent' = Sent /\ Latest' = Latest
    BY <1>2 DEF Sent, Latest
  <1>3. CASE UNCHANGED outVars
    BY <1>2, <1>3 DEF TurnInv, outVars
  <1>4. CASE \E m \in Messages : WriteData(m)
    <2>1. PICK m \in Messages : WriteData(m)
      BY <1>4
    <2>2. PICK n \in written[m]..MaxBytes : n > written[m] /\ written' = [written EXCEPT ![m] = n]
      BY <2>1 DEF WriteData
    <2>3. UNCHANGED <<packets, emitted, ended, ignore, currentMessage>> /\ m \notin ended
      BY <2>1 DEF WriteData
    <2>4. \A i \in Messages : /\ emitted[i] <= written'[i]
                              /\ i \in Sent => written'[i] = written[i]
      BY <1>1, <2>2, <2>3 DEF TurnInv
    <2>5. QED
      BY <1>2, <2>3, <2>4 DEF TurnInv
  <1>5. CASE \E m \in Messages : EndMessage(m) \/ IgnoreMessage(m)
    <2>1. PICK m \in Messages : EndMessage(m) \/ IgnoreMessage(m)
      BY <1>5
    <2>2. /\ UNCHANGED <<packets, emitted, written, currentMessage>>
          /\ ended \subseteq ended' /\ ignore' \subseteq ended'
      BY <2>1 DEF EndMessage, IgnoreMessage, TurnInv
    <2>3. QED
      BY <1>2, <2>2 DEF TurnInv
  <1>6. CASE (\E s \in PacketSizes : PacketSize(s)) \/ (\E broken \in BOOLEAN : Pipe(broken))
    BY <1>2, <1>6 DEF PacketSize, Pipe, TurnInv
  <1>7. CASE \E m \in Messages : Write(m)
    <2>1. PICK m \in Messages : Write(m)
      BY <1>7
    <2>2. /\ UNCHANGED <<packets, emitted, written, ended, ignore>> /\ currentMessage' = m
          /\ currentMessage = 0
      BY <2>1 DEF Write
    <2>3. Sent = 1..(m - 1) /\ m # 0
      BY <2>1, WriteTurn
    <2>4. QED
      BY <1>2, <2>2, <2>3 DEF TurnInv, Messages
  <1>8. CASE \E n \in 1..MaxBytes : MessageData(n)
    <2>1. PICK n \in 1..MaxBytes : MessageData(n)
      BY <1>8
    <2>2. Sent' = Sent
      BY <2>1, SentAfterData
    <2>3. /\ UNCHANGED <<written, ended, ignore, currentMessage>> /\ currentMessage # 0
      BY <2>1 DEF MessageData
    <2>4. /\ currentMessage \in Messages
          /\ \A i \in Messages : emitted'[i] <= written[i]
          /\ \A i \in Messages \ {currentMessage} : emitted'[i] = emitted[i]
      BY <2>1, DataCounts
    <2>5. currentMessage \notin Sent
      BY <2>3, <2>4, SizeAssumption DEF TurnInv, Messages
    <2>6. QED
      BY <2>2, <2>3, <2>4, <2>5 DEF TurnInv
  <1>9. CASE MessageEnd
    <2>1. /\ Sent' = Sent \cup {currentMessage} /\ Latest' = currentMessage
      BY <1>9, SentAfterEnd
    <2>2. /\ UNCHANGED <<written, emitted, ended, ignore>> /\ currentMessage # 0 /\ currentMessage' = 0
          /\ currentMessage \in ended /\ emitted[currentMessage] = written[currentMessage]
          /\ currentMessage \in 1..NumMessages /\ NumMessages \in Nat
      BY <1>9, SizeAssumption DEF MessageEnd, Typed, TypeOK, Messages
    <2>3. Sent = 1..(currentMessage - 1)
      BY <2>2 DEF TurnInv
    <2>4. Sent' = 1..currentMessage
      BY <2>1, <2>2, <2>3
    <2>5. QED
      BY <2>1, <2>2, <2>4 DEF TurnInv
  <1>10. CASE (\E n \in 1..Len(wire) : Transform(n)) \/ CallBack \/ ProcessPacket
                \/ (\E m \in Messages : ReadData(m) \/ IncomingEnd(m)) \/ UNCHANGED vars
    BY <1>3, <1>10 DEF Transform, CallBack, ProcessPacket, ReadData, IncomingEnd, vars
  <1>11. QED
    BY <1>4, <1>5, <1>6, <1>7, <1>8, <1>9, <1>10 DEF Next, Outgoing

-----------------------------------------------------------------------------
(* The message that is written *)

\* What 'data' does: full packets are pushed and the rest is kept in bl.
DataStepped(total, full) ==
    /\ DataPushed(total, full) /\ Extended
    /\ full * length \in Nat /\ full * length <= total
    /\ Base + total <= emitted'[currentMessage]
    /\ currentMessage \notin ignore => Base + total = emitted'[currentMessage]
    /\ Base' = Base + full * length
    /\ full > 0 => \A j \in Nat : j = Len(packets') => PacketPushed(j, full)

LEMMA DataStep ==
  ASSUME Typed, TurnInv, CurrentInv, NEW n \in 1..MaxBytes, MessageData(n)
  PROVE  \E total \in Nat, full \in Nat : DataStepped(total, full)
  <1> DEFINE total == Len(bl) + Len(Data(currentMessage, n))
             full == FullPackets(total)
  <1>1. /\ DataPushed(total, full) /\ currentMessage # 0 /\ currentMessage \in Messages
        /\ packets \in Seq(Packets) /\ Len(packets) \in Nat /\ packetNumber \in Nat
        /\ length \in Nat /\ length > 0
    BY DataEffect, LenProperties DEF MessageData, Typed, TypeOK, CurrentInv
  <1>2. /\ total \in Nat /\ Base \in Nat /\ Base + total <= emitted'[currentMessage]
        /\ currentMessage \notin ignore => Base + total = emitted'[currentMessage]
    BY DataCounts
  <1> HIDE DEF total
  <1>3. /\ full \in Nat /\ full * length \in Nat /\ full * length <= total
        /\ \A k \in 1..full : k * length = (k - 1) * length + length
    BY <1>1, <1>2, Splits
  <1> HIDE DEF full
  <1>4. /\ packets' \in Seq(Packets) /\ Len(packets') = Len(packets) + full
        /\ packetNumber' = packetNumber + full
        /\ \A j \in 1..Len(packets) : packets'[j] = packets[j]
    BY <1>1, Zenon DEF DataPushed
  <1>5. Extended
    BY <1>1, <1>3, <1>4 DEF Extended
  <1>6. ASSUME full > 0
        PROVE  /\ \A j \in Nat : j = Len(packets') => PacketPushed(j, full)
               /\ Base' = Base + full * length
    <2>1. full \in 1..full /\ Len(packets') \in Nat /\ packetNumber' # 0
      BY <1>1, <1>3, <1>4, <1>6
    <2>2. \A j \in Nat : j = Len(packets') => PacketPushed(j, full)
      BY <1>1, <1>2, <1>3, <1>4, <2>1, PushedPacket
    <2>3. UpTo(Len(packets))' = Base + (full - 1) * length + length
      <3>1. PICK j \in Nat : j = Len(packets')
        BY <2>1
      <3>2. UpTo(j)' = Base + (full - 1) * length + length
        <4>1. PacketPushed(j, full)
          BY <2>2, <3>1
        <4>2. QED
          BY <4>1, Zenon DEF PacketPushed
      <3>3. UpTo(Len(packets))' = UpTo(j)'
        BY <3>1 DEF UpTo
      <3>4. QED
        BY <3>2, <3>3
    <2>4. full * length = (full - 1) * length + length /\ (full - 1) * length \in Nat
      <3>1. full - 1 \in Nat
        BY <2>1
      <3>2. QED
        BY <1>1, <1>3, <2>1, <3>1, Multiples
    <2> DEFINE low == (full - 1) * length
               end == full * length
    <2>5. end = low + length /\ low \in Nat
      BY <2>4
    <2>6. UpTo(Len(packets))' = Base + low + length
      BY <2>3
    <2> HIDE DEF low, end
    <2>7. Base + low + length = Base + end
      BY <1>1, <1>2, <2>5
    <2>8. Base' = UpTo(Len(packets))'
      BY <2>1 DEF Base
    <2>9. QED
      BY <2>2, <2>6, <2>7, <2>8 DEF end
  <1>7. ASSUME full = 0
        PROVE  Base' = Base + full * length
    <2>1. packetNumber' = packetNumber /\ Len(packets') = Len(packets) /\ full * length = 0
      BY <1>1, <1>4, <1>7
    <2>2. CASE packetNumber = 0
      BY <1>2, <2>1, <2>2 DEF Base
    <2>3. CASE packetNumber # 0
      <3>1. PICK j \in Nat : j = Len(packets)
        BY <1>1
      <3>2. packets # <<>>
        BY <1>1, <2>3 DEF CurrentInv
      <3>3. j \in 1..Len(packets)
        BY <1>1, <3>1, <3>2, EmptySeq
      <3>4. UpTo(j)' = UpTo(j)
        BY <1>5, <3>3, OldPacket
      <3>5. UpTo(Len(packets))' = UpTo(j)'
        BY <2>1, <3>1 DEF UpTo
      <3>6. QED
        BY <1>2, <2>1, <2>3, <3>1, <3>4, <3>5 DEF Base
    <2>4. QED
      BY <2>2, <2>3
  <1>8. DataStepped(total, full)
    BY <1>1, <1>2, <1>3, <1>5, <1>6, <1>7 DEF DataStepped
  <1>9. QED
    BY <1>2, <1>3, <1>8

LEMMA NextCurrent ==
  ASSUME Typed, TurnInv, CurrentInv, [Next]_vars
  PROVE  CurrentInv'
  <1>1. CASE UNCHANGED <<emitted, ignore, currentMessage, length, packetNumber, bl, packets>>
    BY <1>1 DEF CurrentInv, Latest, Base, UpTo
  <1>2. CASE \E m \in Messages : IgnoreMessage(m)
    <2>1. PICK m \in Messages : IgnoreMessage(m)
      BY <1>2
    <2>2. /\ UNCHANGED <<emitted, currentMessage, length, packetNumber, bl, packets>>
          /\ ignore \subseteq ignore'
      BY <2>1 DEF IgnoreMessage
    <2>3. Base' = Base /\ Latest' = Latest
      BY <2>2 DEF Base, UpTo, Latest
    <2>4. QED
      BY <2>2, <2>3 DEF CurrentInv
  <1>3. CASE \E m \in Messages : Write(m)
    <2>1. PICK m \in Messages : Write(m)
      BY <1>3
    <2>2. /\ UNCHANGED <<emitted, ignore, packets, bl>> /\ currentMessage = 0 /\ currentMessage' = m
          /\ packetNumber' = 0 /\ length' = packetSize - HeaderLength
      BY <2>1 DEF Write
    <2>3. m = Latest + 1 /\ m # 0 /\ Sent = 1..(m - 1) /\ Latest \in Nat
      BY <2>1, WriteTurn, LatestTyped
    <2>4. length' > 0 /\ length' \in Nat
      BY <2>2, SizeAssumption DEF Typed, TypeOK
    <2>5. bl' = <<>> /\ Len(bl') = 0
      BY <2>2 DEF CurrentInv
    <2>6. Base' = 0 /\ Latest' = m - 1
      BY <2>2, <2>3 DEF Base, Latest
    <2>7. emitted'[m] = 0
      <3>1. m \notin Sent
        BY <2>3 DEF Messages
      <3>2. QED
        BY <2>2, <2>3, <3>1 DEF TurnInv
    <2>8. packets' = <<>> \/ packets'[Len(packets')].last
      BY <2>2 DEF CurrentInv
    <2>9. QED
      BY <2>2, <2>3, <2>4, <2>5, <2>6, <2>7, <2>8 DEF CurrentInv
  <1>4. CASE \E n \in 1..MaxBytes : MessageData(n)
    <2>1. PICK n \in 1..MaxBytes : MessageData(n)
      BY <1>4
    <2>2. PICK total \in Nat, full \in Nat : DataStepped(total, full)
      BY <2>1, DataStep
    <2>3. UNCHANGED <<ignore, currentMessage, length>> /\ currentMessage # 0
      BY <2>1 DEF MessageData
    <2>4. /\ currentMessage \in Messages /\ packets \in Seq(Packets) /\ Len(packets) \in Nat
          /\ packetNumber \in Nat /\ length \in Nat /\ length > 0 /\ Base \in Nat
      BY <2>3, LenProperties, BaseTyped DEF Typed, TypeOK, CurrentInv
    <2>5. /\ packets' \in Seq(Packets) /\ bl' \in Seq(Byte)
          /\ Len(packets') = Len(packets) + full /\ packetNumber' = packetNumber + full
          /\ \A j \in 1..Len(packets) : packets'[j] = packets[j]
          /\ Len(bl') = total - full * length /\ Len(bl') <= length
          /\ \A i \in 1..Len(bl') : bl'[i] = Base + full * length + i
          /\ bl # <<>> \/ full > 0 => Len(bl') > 0
      BY <2>2, Zenon DEF DataStepped, DataPushed
    <2>6. /\ \A i \in 1..Len(bl') : bl'[i] = Base' + i
          /\ Base' + Len(bl') <= emitted'[currentMessage]
          /\ currentMessage \notin ignore => Base' + Len(bl') = emitted'[currentMessage]
      <3> DEFINE low == full * length
      <3>1. /\ low \in Nat /\ low <= total /\ Base' = Base + low
            /\ Base + total <= emitted'[currentMessage]
            /\ currentMessage \notin ignore => Base + total = emitted'[currentMessage]
        BY <2>2 DEF DataStepped
      <3>2. Len(bl') = total - low /\ \A i \in 1..Len(bl') : bl'[i] = Base + low + i
        BY <2>5
      <3> HIDE DEF low
      <3>3. Base' + Len(bl') = Base + total
        BY <2>4, <3>1, <3>2
      <3>4. QED
        BY <3>1, <3>2, <3>3
    <2>7. bl # <<>> \/ full > 0 => bl' # <<>>
      BY <2>5, EmptySeq
    <2>8. CASE full > 0
      <3>1. PICK j \in Nat : j = Len(packets')
        BY <2>4, <2>5
      <3>2. PacketPushed(j, full)
        BY <2>2, <2>8, <3>1 DEF DataStepped
      <3>3. /\ j \in 1..Len(packets') /\ ~packets'[j].last
            /\ packets'[j].message = currentMessage /\ packets'[j].limit = length
            /\ packets'[j].id = (packetNumber + full) % 256
            /\ packets'[j].reset = (currentMessage \in Reset)
        BY <3>2, Zenon DEF PacketPushed
      <3>4. packets' # <<>> /\ packetNumber' # 0 /\ packetNumber' \in Nat
        BY <2>4, <2>5, <2>8, <3>3, EmptySeq
      <3>5. QED
        BY <2>3, <2>4, <2>5, <2>6, <2>7, <2>8, <3>1, <3>3, <3>4 DEF CurrentInv
    <2>9. CASE full = 0
      <3>1. packetNumber' = packetNumber /\ Len(packets') = Len(packets)
        BY <2>4, <2>5, <2>9
      <3>2. packets' = packets
        BY <2>4, <2>5, <3>1, SeqEqual
      <3>3. Latest' = Latest
        BY <3>2 DEF Latest
      <3>4. packetNumber > 0 => bl # <<>>
        BY <2>3 DEF CurrentInv
      <3>5. QED
        BY <2>3, <2>4, <2>5, <2>6, <2>7, <3>1, <3>2, <3>3, <3>4 DEF CurrentInv
    <2>10. QED
      BY <2>8, <2>9
  <1>5. CASE MessageEnd
    <2>1. packets' # <<>> /\ packets'[Len(packets')].last
      BY <1>5, SentAfterEnd
    <2>2. currentMessage' = 0 /\ bl' = <<>>
      BY <1>5 DEF MessageEnd, BufferOnceSent
    <2>3. QED
      BY <2>1, <2>2 DEF CurrentInv
  <1>6. CASE (\E m \in Messages : WriteData(m) \/ EndMessage(m)) \/ (\E s \in PacketSizes : PacketSize(s))
                \/ (\E broken \in BOOLEAN : Pipe(broken))
    BY <1>1, <1>6 DEF WriteData, EndMessage, PacketSize, Pipe
  <1>7. CASE (\E n \in 1..Len(wire) : Transform(n)) \/ CallBack \/ ProcessPacket
                \/ (\E m \in Messages : ReadData(m) \/ IncomingEnd(m)) \/ UNCHANGED vars
    BY <1>1, <1>7 DEF Transform, CallBack, ProcessPacket, ReadData, IncomingEnd, vars, outVars
  <1>8. QED
    BY <1>2, <1>3, <1>4, <1>5, <1>6, <1>7 DEF Next, Outgoing

-----------------------------------------------------------------------------
(* What has been emitted is in packets or in bl. *)

LEMMA BytesGrow ==
  ASSUME Typed, Extended, NEW m \in Messages
  PROVE  BytesOf(m) \subseteq BytesOf(m)'
  <1>1. /\ DOMAIN packets = 1..Len(packets) /\ DOMAIN packets' = 1..Len(packets')
        /\ Len(packets) \in Nat /\ Len(packets') \in Nat
    BY LenProperties DEF Extended, Typed
  <1>2. SUFFICES ASSUME NEW i \in BytesOf(m)
                 PROVE  i \in BytesOf(m)'
    OBVIOUS
  <1>3. PICK j \in DOMAIN packets :
           packets[j].message = m /\ \E d \in DOMAIN packets[j].data : packets[j].data[d] = i
    BY DEF BytesOf
  <1>4. j \in DOMAIN packets' /\ packets'[j] = packets[j] /\ i \in 1..MaxBytes
    BY <1>1, <1>3 DEF Extended, BytesOf
  <1>5. QED
    BY <1>3, <1>4 DEF BytesOf

\* A byte of a packet that is added
LEMMA NewByte ==
  ASSUME NEW m \in Messages, NEW j \in Nat, packets' \in Seq(Packets), j \in 1..Len(packets'),
         packets'[j].message = m, NEW d \in 1..Len(packets'[j].data)
  PROVE  packets'[j].data[d] \in BytesOf(m)'
  <1>1. j \in DOMAIN packets'
    OBVIOUS
  <1>2. packets'[j].data \in Seq(Byte)
    <2>1. packets'[j] \in Packets
      BY ElementOfSeq
    <2>2. QED
      BY <2>1 DEF Packets
  <1>3. d \in DOMAIN packets'[j].data /\ packets'[j].data[d] \in 1..MaxBytes
    <2> DEFINE data == packets'[j].data
    <2>1. data \in Seq(Byte) /\ d \in 1..Len(data)
      BY <1>2
    <2> HIDE DEF data
    <2>2. d \in DOMAIN data /\ data[d] \in Byte
      BY <2>1, ElementOfSeq
    <2>3. QED
      BY <2>2 DEF data, Byte
  <1>4. QED
    BY <1>1, <1>3 DEF BytesOf

LEMMA NextEmitted ==
  ASSUME Typed, TurnInv, CurrentInv, EmittedInv, [Next]_vars
  PROVE  EmittedInv'
  <1>1. CASE /\ UNCHANGED <<emitted, currentMessage, packetNumber, packets>>
             /\ ignore \subseteq ignore'
    BY <1>1 DEF EmittedInv, Base, UpTo, BytesOf
  <1>2. CASE \E m \in Messages : Write(m)
    <2>1. PICK m \in Messages : Write(m)
      BY <1>2
    <2>2. UNCHANGED <<emitted, packets, ignore>> /\ currentMessage = 0
      BY <2>1 DEF Write
    <2>3. 0 \notin Messages /\ emitted[m] = 0
      <3>1. m \notin Sent /\ 0 \notin Messages
        BY <2>1, WriteTurn DEF Messages
      <3>2. QED
        BY <2>2, <3>1 DEF TurnInv
    <2>4. \A i \in Messages : BytesOf(i)' = BytesOf(i)
      BY <2>2 DEF BytesOf
    <2>5. QED
      BY <2>2, <2>3, <2>4 DEF EmittedInv
  <1>3. CASE \E n \in 1..MaxBytes : MessageData(n)
    <2>1. PICK n \in 1..MaxBytes : MessageData(n)
      BY <1>3
    <2>2. PICK total \in Nat, full \in Nat : DataStepped(total, full)
      BY <2>1, DataStep
    <2>3. PICK m \in Messages : m = currentMessage /\ m # 0
      BY <2>1 DEF MessageData, Typed, TypeOK
    <2>4. /\ UNCHANGED <<ignore, currentMessage, length>> /\ Len(packets) \in Nat
          /\ length \in Nat /\ length > 0 /\ Base \in Nat /\ Len(bl) \in Nat
          /\ emitted[m] \in Nat /\ emitted' \in [Messages -> 0..MaxBytes] /\ MaxBytes \in Nat
      <3>1. UNCHANGED <<ignore, currentMessage, length>>
        BY <2>1 DEF MessageData
      <3>2. /\ Len(packets) \in Nat /\ length \in Nat /\ length > 0 /\ Len(bl) \in Nat
            /\ emitted[m] \in Nat /\ MaxBytes \in Nat
        BY <2>3, LenProperties, SizeAssumption DEF Typed, TypeOK, CurrentInv
      <3>3. Base \in Nat /\ emitted' \in [Messages -> 0..MaxBytes]
        BY <2>1, DataCounts
      <3>4. QED
        BY <3>1, <3>2, <3>3
    <2>5. \A i \in Messages \ {m} : emitted'[i] = emitted[i]
      BY <2>1, <2>3, DataCounts
    <2>6. \A i \in Messages : BytesOf(i) \subseteq BytesOf(i)'
      BY <2>2, BytesGrow DEF DataStepped
    <2>7. ASSUME m \notin ignore, NEW i \in 1..emitted'[m]
          PROVE  i \in BytesOf(m)' \/ i > Base'
      <3>1. CASE i <= Base
        <4>1. Base <= emitted[m]
          BY <2>3, <2>4 DEF CurrentInv
        <4>2. i \in 1..emitted[m] /\ ~(i > Base)
          BY <2>4, <3>1, <4>1
        <4>3. i \in BytesOf(m)
          BY <2>7, <4>2 DEF EmittedInv
        <4>4. QED
          BY <2>6, <4>3
      <3>2. CASE ~(i <= Base) /\ i <= Base'
        <4> DEFINE b == i - Base
                   h == (b - 1) \div length
                   low == h * length
                   end == full * length
        <4>1. Base' = Base + end /\ end \in Nat
          BY <2>2 DEF DataStepped
        <4> HIDE DEF end
        <4>2. b \in Nat /\ b > 0 /\ b <= end /\ i = Base + b
          BY <2>4, <3>2, <4>1
        <4> HIDE DEF b
        <4>3. h \in Nat /\ low <= b - 1 /\ b - 1 < low + length
          <5>1. length \in Nat \ {0}
            BY <2>4
          <5>2. QED
            BY <4>2, <5>1, Rest
        <4> HIDE DEF h
        <4>4. low \in Nat /\ (full <= h => end <= low)
          BY <2>4, <4>3, Multiples DEF end
        <4> HIDE DEF low
        <4>5. h < full
          BY <4>1, <4>2, <4>3, <4>4
        <4>6. PICK k \in 1..full : k = h + 1
          BY <4>3, <4>5
        <4>7. PICK j \in Nat : j = Len(packets) + k
          BY <2>4
        <4>8. /\ packets' \in Seq(Packets) /\ Len(packets') = Len(packets) + full
              /\ packets'[j].message = m /\ Len(packets'[j].data) = length
              /\ \A d \in 1..length : packets'[j].data[d] = Base + (k - 1) * length + d
          BY <2>2, <2>3, <4>7, Zenon DEF DataStepped, DataPushed
        <4>9. j \in 1..Len(packets')
          BY <2>4, <4>7, <4>8
        <4>10. PICK d \in 1..length : d = b - low
          BY <2>4, <4>2, <4>3, <4>4
        <4>11. packets'[j].data[d] = i
          <5>1. k - 1 = h
            BY <4>3, <4>6
          <5>2. packets'[j].data[d] = Base + (k - 1) * length + d
            BY <4>8
          <5>3. packets'[j].data[d] = Base + low + d
            BY <5>1, <5>2 DEF low
          <5>4. QED
            BY <2>4, <4>2, <4>4, <4>10, <5>3
        <4>12. packets'[j].data[d] \in BytesOf(m)'
          BY <4>8, <4>9, NewByte
        <4>13. QED
          BY <4>11, <4>12
      <3>3. CASE ~(i <= Base')
        <4>1. Base' \in Nat
          BY <2>2, <2>4 DEF DataStepped
        <4>2. QED
          BY <3>3, <4>1
      <3>4. QED
        BY <3>1, <3>2, <3>3
    <2>8. ASSUME NEW x \in Messages \ ignore, x # m, NEW i \in 1..emitted'[x]
          PROVE  i \in BytesOf(x)'
      <3>1. i \in 1..emitted[x]
        BY <2>5, <2>8
      <3>2. i \in BytesOf(x)
        BY <2>3, <2>8, <3>1 DEF EmittedInv
      <3>3. QED
        BY <2>6, <3>2
    <2>9. ASSUME NEW x \in Messages \ ignore, NEW i \in 1..emitted'[x]
          PROVE  i \in BytesOf(x)' \/ (x = currentMessage' /\ i > Base')
      <3>1. CASE x = m
        BY <2>3, <2>4, <2>7, <3>1
      <3>2. CASE x # m
        BY <2>8, <3>2
      <3>3. QED
        BY <3>1, <3>2
    <2>10. QED
      BY <2>4, <2>9, Zenon DEF EmittedInv
  <1>4. CASE MessageEnd
    <2>1. PICK j \in Nat : j = Len(packets) + 1
      BY LenProperties DEF Typed
    <2>2. PICK m \in Messages : m = currentMessage /\ m # 0
      BY <1>4 DEF MessageEnd, Typed, TypeOK
    <2>3. Extended /\ Len(packets') = j /\ packets'[j].message = m /\ packets'[j].data = bl
      BY <1>4, <2>1, <2>2, EndedPacket
    <2>4. /\ UNCHANGED <<emitted, ignore>> /\ bl \in Seq(Byte) /\ Len(bl) \in Nat
          /\ emitted[m] \in Nat
      BY <1>4, LenProperties, SizeAssumption DEF MessageEnd, Typed, TypeOK
    <2>5. \A i \in Messages : BytesOf(i) \subseteq BytesOf(i)'
      BY <2>3, BytesGrow
    <2>6. ASSUME m \notin ignore, NEW i \in 1..emitted[m], i > Base
          PROVE  i \in BytesOf(m)'
      <3>1. Base + Len(bl) = emitted[m] /\ Base \in Nat
        BY <2>2, <2>6, BaseTyped DEF CurrentInv
      <3>2. PICK d \in 1..Len(bl) : d = i - Base
        BY <2>4, <2>6, <3>1
      <3>3. bl[d] = i
        <4>1. bl[d] = Base + d
          BY <2>2 DEF CurrentInv
        <4>2. QED
          BY <3>1, <3>2, <4>1
      <3>4. packets' \in Seq(Packets) /\ j \in 1..Len(packets') /\ d \in 1..Len(packets'[j].data)
        BY <2>1, <2>3, LenProperties DEF Typed, Extended
      <3>5. packets'[j].data[d] \in BytesOf(m)'
        BY <2>3, <3>4, NewByte
      <3>6. QED
        BY <2>3, <3>3, <3>5
    <2>7. ASSUME NEW x \in Messages \ ignore, NEW i \in 1..emitted[x]
          PROVE  i \in BytesOf(x)'
      <3>1. i \in BytesOf(x) \/ (x = m /\ i > Base)
        BY <2>2 DEF EmittedInv
      <3>2. QED
        BY <2>5, <2>6, <3>1
    <2>8. QED
      BY <2>4, <2>7 DEF EmittedInv
  <1>5. CASE \E m \in Messages : WriteData(m) \/ EndMessage(m) \/ IgnoreMessage(m)
    BY <1>1, <1>5 DEF WriteData, EndMessage, IgnoreMessage
  <1>6. CASE (\E s \in PacketSizes : PacketSize(s)) \/ (\E broken \in BOOLEAN : Pipe(broken))
    BY <1>1, <1>6 DEF PacketSize, Pipe
  <1>7. CASE (\E n \in 1..Len(wire) : Transform(n)) \/ CallBack \/ ProcessPacket
                \/ (\E m \in Messages : ReadData(m) \/ IncomingEnd(m)) \/ UNCHANGED vars
    BY <1>1, <1>7 DEF Transform, CallBack, ProcessPacket, ReadData, IncomingEnd, vars, outVars
  <1>8. QED
    BY <1>2, <1>3, <1>4, <1>5, <1>6, <1>7 DEF Next, Outgoing

-----------------------------------------------------------------------------
(* The packet that arrives *)

LEMMA Concatenated ==
  ASSUME NEW S, NEW s \in Seq(S), NEW t \in Seq(S)
  PROVE  /\ s \o t \in Seq(S) /\ Len(s \o t) = Len(s) + Len(t)
         /\ Len(s) \in Nat /\ Len(t) \in Nat
         /\ \A i \in 1..Len(s) : (s \o t)[i] = s[i]
         /\ \A i \in 1..Len(t) : (s \o t)[Len(s) + i] = t[i]
  <1>1. Len(s) \in Nat /\ Len(t) \in Nat
    BY LenProperties
  <1>2. /\ s \o t \in Seq(S) /\ Len(s \o t) = Len(s) + Len(t)
        /\ \A i \in 1..(Len(s) + Len(t)) : (s \o t)[i] = IF i <= Len(s) THEN s[i] ELSE t[i - Len(s)]
    BY ConcatProperties
  <1>3. ASSUME NEW i \in 1..Len(s)
        PROVE  (s \o t)[i] = s[i]
    BY <1>1, <1>2
  <1>4. ASSUME NEW i \in 1..Len(t)
        PROVE  (s \o t)[Len(s) + i] = t[i]
    <2>1. Len(s) + i \in 1..(Len(s) + Len(t)) /\ ~(Len(s) + i <= Len(s)) /\ (Len(s) + i) - Len(s) = i
      BY <1>1
    <2>2. QED
      BY <1>2, <2>1
  <1>5. QED
    BY <1>1, <1>2, <1>3, <1>4

\* The packet that is processed is the next one, and belongs to the message it was
\* pushed for.
Due(q) ==
    /\ q + 1 \in 1..Len(packets) /\ q + 1 \in 1..piped
    /\ chunks[1].length = Size(q + 1) /\ chunks[1].last = packets[q + 1].last
    /\ Len(chunks) >= Size(q + 1) /\ Size(q + 1) \in Nat
    /\ SubSeq(chunks, HeaderLength + 1, Size(q + 1)) = packets[q + 1].data
    /\ Target = packets[q + 1].message
    /\ Target = IF incoming # 0 THEN incoming ELSE IF q = 0 THEN 1 ELSE packets[q].message + 1
    /\ incoming = 0 <=> q = 0 \/ packets[q].last

LEMMA PacketDue ==
  ASSUME Typed, PacketsInv, WellPacked, ProcessPacket, NEW q \in 0..piped,
         NEW off \in [q..piped -> Nat], Framed(chunks \o wire, q, off), Received(q)
  PROVE  Due(q)
  <1> DEFINE s == chunks \o wire
             size == Size(q + 1)
             data == packets[q + 1].data
  <1>1. /\ HeaderLength \in Nat /\ HeaderLength > 0 /\ Len(chunks) >= HeaderLength
        /\ Len(chunks) >= chunks[1].length /\ chunks[1].length >= HeaderLength
        /\ waiting = "busy"
    BY SizeAssumption DEF ProcessPacket, HavePacket, HaveHeader
  <1>2. /\ chunks \in Seq(Units) /\ Len(chunks) \in Nat /\ Len(wire) \in Nat
        /\ Len(s) = Len(chunks) + Len(wire)
        /\ \A i \in 1..Len(chunks) : s[i] = chunks[i]
    BY Concatenated DEF Typed
  <1>3. /\ q \in Nat /\ piped \in Nat /\ Len(packets) \in Nat /\ piped <= Len(packets)
        /\ packets \in Seq(Packets)
    BY LenProperties DEF Typed, TypeOK
  <1>4. q < piped
    <2>1. off[q] = 0 /\ off[piped] = Len(s)
      BY DEF Framed
    <2>2. q # piped
      BY <1>1, <1>2, <2>1
    <2>3. QED
      BY <1>3, <2>2
  <1>5. q + 1 \in 1..Len(packets) /\ q + 1 \in 1..piped /\ q + 1 \in (q + 1)..piped /\ (q + 1) - 1 = q
    BY <1>3, <1>4
  <1>6. data \in Seq(Byte) /\ Len(data) \in Nat /\ packets[q + 1].message \in Messages
    BY <1>5, PacketTyped
  <1>7. size = HeaderLength + Len(data) /\ size \in Nat
    BY <1>1, <1>6 DEF Size
  <1>8. FramedAt(s, 0, q + 1)
    BY <1>5 DEF Framed
  <1>9. chunks[1].length = size /\ chunks[1].last = packets[q + 1].last
    <2>1. 1 \in 1..HeaderLength /\ 1 \in 1..Len(chunks) /\ 0 + 1 = 1
      BY <1>1, <1>2
    <2>2. PICK len \in {HeaderLength - 1, size} :
             s[1] = [length |-> len, last |-> packets[q + 1].last, part |-> 1]
      BY <1>8, <2>1 DEF FramedAt
    <2>3. chunks[1].length = len /\ chunks[1].last = packets[q + 1].last
      BY <1>2, <2>1, <2>2
    <2>4. QED
      BY <1>1, <2>2, <2>3
  <1>10. SubSeq(chunks, HeaderLength + 1, size) = data
    <2>1. \A i \in 1..Len(data) : HeaderLength + i \in 1..Len(chunks) /\ 0 + HeaderLength + i = HeaderLength + i
      BY <1>1, <1>2, <1>6, <1>7, <1>9
    <2>2. \A i \in 1..Len(data) : chunks[HeaderLength + i] = data[i]
      <3>1. \A i \in 1..Len(data) : s[0 + HeaderLength + i] = data[i]
        BY <1>8 DEF FramedAt
      <3>2. QED
        BY <1>2, <2>1, <3>1
    <2>3. SubSeq(chunks, HeaderLength + 1, HeaderLength + Len(data)) = data
      BY <1>1, <1>6, <2>2, PartIs
    <2>4. QED
      BY <1>7, <2>3
  <1> HIDE DEF s, size, data
  <1> DEFINE m == IF q = 0 THEN 0 ELSE packets[q].message
             whole == q = 0 \/ packets[q].last
  <1>11. /\ complete = IF whole THEN 1..m ELSE 1..(m - 1)
         /\ incoming = m \/ (incoming = 0 /\ whole)
         /\ ~(whole /\ incoming # 0)
    BY <1>1 DEF Received
  <1>12. m \in Nat /\ (q # 0 => q \in 1..Len(packets) /\ m \in Messages /\ m # 0)
    <2>1. q # 0 => q \in 1..Len(packets)
      BY <1>3, <1>4
    <2>2. q # 0 => m \in Messages
      BY <2>1, PacketTyped
    <2>3. QED
      BY <2>1, <2>2 DEF Messages
  <1>13. incoming = 0 <=> whole
    BY <1>11, <1>12
  <1>14. whole => FirstOf(q + 1) /\ packets[q + 1].message = m + 1
    <2>1. q = 0 \/ (q # 0 /\ q + 1 # 1)
      BY <1>3
    <2>2. whole => FirstOf(q + 1)
      BY <1>5, <2>1 DEF FirstOf
    <2>3. FirstOf(q + 1) => packets[q + 1].message = IF q + 1 = 1 THEN 1 ELSE packets[q].message + 1
      <3>1. GoesOn(q + 1)
        BY <1>5 DEF PacketsInv
      <3>2. FirstOf(q + 1) => packets[q + 1].message =
                                 IF q + 1 = 1 THEN 1 ELSE packets[(q + 1) - 1].message + 1
        BY <3>1, Zenon DEF GoesOn
      <3>3. QED
        BY <1>5, <3>2
    <2>4. QED
      BY <2>1, <2>2, <2>3
  <1>15. ~whole => packets[q + 1].message = m
    <2>1. ~whole => ~FirstOf(q + 1)
      <3>1. q # 0 => q + 1 # 1
        BY <1>3
      <3>2. QED
        BY <1>5, <3>1 DEF FirstOf
    <2>2. Packed(q + 1)
      BY <1>3, <1>5, PackedByParts
    <2>3. ~FirstOf(q + 1) => packets[(q + 1) - 1].message = packets[q + 1].message
      BY <2>2, Zenon DEF Packed
    <2>4. QED
      BY <1>5, <2>1, <2>3
  <1>16. whole => Target = m + 1
    <2>1. whole => complete = 1..m
      BY <1>11
    <2>2. Cardinality(1..m) = m
      <3>1. PICK n \in Nat : n = m
        BY <1>12
      <3>2. Cardinality(1..n) = IF 1 > n THEN 0 ELSE n - 1 + 1
        BY FS_Interval
      <3>3. Cardinality(1..n) = n
        BY <3>2
      <3>4. QED
        BY <3>1, <3>3
    <2>3. QED
      BY <1>13, <2>1, <2>2 DEF Target
  <1>17. ~whole => Target = m /\ incoming = m
    BY <1>11, <1>13 DEF Target
  <1>18. Target = packets[q + 1].message
    BY <1>14, <1>15, <1>16, <1>17
  <1>19. Target = IF incoming # 0 THEN incoming ELSE IF q = 0 THEN 1 ELSE packets[q].message + 1
    <2>1. CASE whole
      <3>1. incoming = 0 /\ Target = m + 1
        BY <1>13, <1>16, <2>1
      <3>2. m + 1 = IF q = 0 THEN 1 ELSE packets[q].message + 1
        OBVIOUS
      <3>3. QED
        BY <3>1, <3>2
    <2>2. CASE ~whole
      <3>1. incoming # 0 /\ Target = incoming
        BY <1>13, <1>17, <2>2
      <3>2. QED
        BY <3>1
    <2>3. QED
      BY <2>1, <2>2
  <1>20. Len(chunks) >= size
    BY <1>1, <1>9
  <1>21. incoming = 0 <=> q = 0 \/ packets[q].last
    BY <1>13
  <1>22. QED
    BY <1>5, <1>7, <1>9, <1>10, <1>18, <1>19, <1>20, <1>21, Zenon DEF Due, size, data

-----------------------------------------------------------------------------
(* Types are kept *)

OutTyped ==
    /\ written \in [Messages -> 0..MaxBytes] /\ emitted \in [Messages -> 0..MaxBytes]
    /\ ended \subseteq Messages /\ ignore \subseteq Messages
    /\ packetSize \in PacketSizes /\ length \in Nat
    /\ currentMessage \in Messages \cup {0} /\ paused \in BOOLEAN /\ packetNumber \in Nat
    /\ bl \in Seq(Byte) /\ packets \in Seq(Packets) /\ piped \in 0..Len(packets)

InTyped ==
    /\ wire \in Seq(Units) /\ chunks \in Seq(Units)
    /\ waiting \in Waits /\ incoming \in Messages \cup {0}
    /\ inBuffer \in [Messages -> Seq(Byte)] /\ got \in [Messages -> Seq(Byte)]
    /\ complete \subseteq Messages /\ over \subseteq complete

LEMMA TypedByParts == Typed <=> OutTyped /\ InTyped
  <1>1. Typed => OutTyped /\ InTyped
    BY DEF Typed, TypeOK, OutTyped, InTyped, Byte
  <1>2. ASSUME OutTyped, InTyped
        PROVE  Typed
    <2>1. \A k \in DOMAIN bl : bl[k] \in 1..MaxBytes
      <3>1. bl \in Seq(1..MaxBytes)
        BY <1>2 DEF OutTyped, Byte
      <3>2. DOMAIN bl = 1..Len(bl)
        BY <3>1
      <3>3. QED
        BY <3>1, <3>2, ElementOfSeq
    <2>2. piped \in Nat
      BY <1>2 DEF OutTyped
    <2>3. QED
      BY <1>2, <2>1, <2>2 DEF Typed, TypeOK, OutTyped, InTyped, Byte
  <1>3. QED
    BY <1>1, <1>2

LEMMA NextOutTyped ==
  ASSUME Typed, TurnInv, CurrentInv, [Next]_vars
  PROVE  OutTyped'
  <1>1. OutTyped /\ MaxBytes \in Nat /\ Len(packets) \in Nat
    BY TypedByParts, SizeAssumption, LenProperties DEF OutTyped
  <1>2. CASE UNCHANGED outVars
    BY <1>1, <1>2 DEF outVars, OutTyped
  <1>3. CASE \E m \in Messages : WriteData(m)
    <2>1. PICK m \in Messages : WriteData(m)
      BY <1>3
    <2>2. PICK n \in written[m]..MaxBytes : written' = [written EXCEPT ![m] = n]
      BY <2>1 DEF WriteData
    <2>3. n \in 0..MaxBytes
      BY <1>1, <2>2 DEF OutTyped
    <2>4. written' \in [Messages -> 0..MaxBytes]
      BY <1>1, <2>2, <2>3 DEF OutTyped
    <2>5. QED
      BY <1>1, <2>1, <2>4 DEF WriteData, OutTyped
  <1>4. CASE \E m \in Messages : EndMessage(m) \/ IgnoreMessage(m)
    BY <1>1, <1>4 DEF EndMessage, IgnoreMessage, OutTyped
  <1>5. CASE \E s \in PacketSizes : PacketSize(s)
    BY <1>1, <1>5 DEF PacketSize, OutTyped
  <1>6. CASE \E m \in Messages : Write(m)
    <2>1. PICK m \in Messages : Write(m)
      BY <1>6
    <2>2. /\ UNCHANGED <<written, emitted, ended, ignore, packetSize, bl, packets, piped>>
          /\ length' = packetSize - HeaderLength /\ currentMessage' = m /\ paused' = FALSE
          /\ packetNumber' = 0
      BY <2>1 DEF Write
    <2>3. packetSize - HeaderLength \in Nat
      BY <1>1, SizeAssumption DEF OutTyped
    <2>4. QED
      BY <1>1, <2>2, <2>3 DEF OutTyped
  <1>7. CASE \E n \in 1..MaxBytes : MessageData(n)
    <2>1. PICK n \in 1..MaxBytes : MessageData(n)
      BY <1>7
    <2>2. PICK total \in Nat, full \in Nat : DataStepped(total, full)
      BY <2>1, DataStep
    <2>3. /\ packets' \in Seq(Packets) /\ bl' \in Seq(Byte)
          /\ Len(packets') = Len(packets) + full /\ packetNumber' = packetNumber + full
      BY <2>2, Zenon DEF DataStepped, DataPushed
    <2>4. emitted' \in [Messages -> 0..MaxBytes]
      BY <2>1, DataCounts
    <2>5. /\ UNCHANGED <<written, ended, ignore, packetSize, currentMessage, length, piped>>
          /\ paused' \in BOOLEAN
      BY <2>1 DEF MessageData
    <2>6. piped \in 0..Len(packets') /\ packetNumber' \in Nat
      BY <1>1, <2>3 DEF OutTyped
    <2>7. QED
      BY <1>1, <2>3, <2>4, <2>5, <2>6 DEF OutTyped
  <1>8. CASE MessageEnd
    <2>1. PICK j \in Nat : j = Len(packets) + 1
      BY <1>1
    <2>2. packets' \in Seq(Packets) /\ Len(packets') = Len(packets) + 1
      BY <1>8, <2>1, EndedPacket DEF Extended
    <2>3. /\ UNCHANGED <<written, emitted, ended, ignore, packetSize, paused, length, piped>>
          /\ bl' = <<>> /\ currentMessage' = 0 /\ packetNumber' = packetNumber + 1
      BY <1>8 DEF MessageEnd, BufferOnceSent
    <2>4. piped \in 0..Len(packets') /\ packetNumber' \in Nat /\ bl' \in Seq(Byte)
      BY <1>1, <2>2, <2>3 DEF OutTyped
    <2>5. QED
      BY <1>1, <2>2, <2>3, <2>4 DEF OutTyped
  <1>9. CASE \E broken \in BOOLEAN : Pipe(broken)
    <2>1. PICK broken \in BOOLEAN : Pipe(broken)
      BY <1>9
    <2>2. /\ UNCHANGED <<written, emitted, ended, ignore, packetSize, currentMessage, length,
                         packetNumber, bl, packets>>
          /\ piped < Len(packets) /\ piped' = piped + 1 /\ paused' = ReadResumes
      BY <2>1 DEF Pipe
    <2>3. piped' \in 0..Len(packets)
      BY <1>1, <2>2 DEF OutTyped
    <2>4. paused' \in BOOLEAN
      <3>1. paused' = paused \/ paused' = FALSE
        BY <2>2, Zenon DEF ReadResumes
      <3>2. QED
        BY <1>1, <3>1 DEF OutTyped
    <2>5. QED
      BY <1>1, <2>2, <2>3, <2>4 DEF OutTyped
  <1>10. CASE (\E n \in 1..Len(wire) : Transform(n)) \/ CallBack \/ ProcessPacket
                 \/ (\E m \in Messages : ReadData(m) \/ IncomingEnd(m)) \/ UNCHANGED vars
    BY <1>2, <1>10 DEF Transform, CallBack, ProcessPacket, ReadData, IncomingEnd, vars
  <1>11. QED
    BY <1>3, <1>4, <1>5, <1>6, <1>7, <1>8, <1>9, <1>10 DEF Next, Outgoing

\* What a packet puts on the wire
LEMMA PipedBytes ==
  ASSUME Typed, NEW broken \in BOOLEAN, Pipe(broken), NEW j \in Nat, j = piped + 1
  PROVE  /\ j \in 1..Len(packets) /\ piped' = j /\ UNCHANGED packets
         /\ Size(j) \in Nat
         /\ \E t \in Seq(Units) :
               wire' = wire \o t /\ Len(t) = Size(j) /\ FramedAt(t, 0, j)
  <1> DEFINE p == packets[j]
             len == IF broken THEN HeaderLength - 1 ELSE HeaderLength + Len(p.data)
             header == HeaderBytes(p, len)
             data == p.data
             t == header \o data
  <1>1. /\ j \in 1..Len(packets) /\ piped' = j /\ UNCHANGED packets
        /\ wire' = wire \o header \o p.data
    <2>1. piped < Len(packets) /\ piped \in Nat /\ Len(packets) \in Nat
      BY LenProperties DEF Pipe, Typed
    <2>2. QED
      BY <2>1 DEF Pipe
  <1>2. /\ HeaderLength \in Nat /\ HeaderLength > 0
        /\ p.data \in Seq(Byte) /\ Len(p.data) \in Nat /\ p.last \in BOOLEAN
    <2>1. p \in Packets /\ p.data \in Seq(Byte) /\ Len(p.data) \in Nat
      BY <1>1, PacketTyped
    <2>2. p.last \in BOOLEAN
      BY <2>1 DEF Packets
    <2>3. QED
      BY <2>1, <2>2, SizeAssumption
  <1>3. len \in Nat /\ len \in {HeaderLength - 1, Size(j)} /\ Size(j) = HeaderLength + Len(p.data)
    BY <1>2 DEF Size
  <1> HIDE DEF len
  <1>4. /\ header \in Seq(Units) /\ Len(header) = HeaderLength
        /\ \A k \in 1..HeaderLength : header[k] = [length |-> len, last |-> p.last, part |-> k]
    <2>1. \A k \in 1..HeaderLength : [length |-> len, last |-> p.last, part |-> k] \in Units
      BY <1>2, <1>3 DEF Units
    <2>2. header = [k \in 1..HeaderLength |-> [length |-> len, last |-> p.last, part |-> k]]
      BY DEF HeaderBytes
    <2>3. QED
      BY <1>2, <2>1, <2>2
  <1> HIDE DEF header
  <1>5. data \in Seq(Units) /\ Len(data) \in Nat
    <2>1. \A k \in 1..Len(p.data) : p.data[k] \in Units
      BY <1>2, ElementOfSeq DEF Units
    <2>2. QED
      BY <1>2, <2>1
  <1> HIDE DEF data
  <1>6. /\ t \in Seq(Units) /\ Len(t) = HeaderLength + Len(data)
        /\ \A k \in 1..HeaderLength : t[k] = header[k]
        /\ \A k \in 1..Len(data) : t[HeaderLength + k] = data[k]
    <2>1. /\ header \o data \in Seq(Units) /\ Len(header \o data) = Len(header) + Len(data)
          /\ \A k \in 1..Len(header) : (header \o data)[k] = header[k]
          /\ \A k \in 1..Len(data) : (header \o data)[Len(header) + k] = data[k]
      <3>1. header \in Seq(Units) /\ data \in Seq(Units)
        BY <1>4, <1>5
      <3>2. \A a, b \in Seq(Units) :
               /\ a \o b \in Seq(Units) /\ Len(a \o b) = Len(a) + Len(b)
               /\ \A k \in 1..Len(a) : (a \o b)[k] = a[k]
               /\ \A k \in 1..Len(b) : (a \o b)[Len(a) + k] = b[k]
        BY Concatenated
      <3>3. QED
        BY <3>1, <3>2
    <2>2. QED
      BY <1>4, <2>1
  <1>7. wire' = wire \o t
    <2>1. wire \in Seq(Units) /\ wire' = (wire \o header) \o data
      BY <1>1 DEF Typed, data
    <2>2. (wire \o header) \o data = wire \o (header \o data)
      BY <1>4, <1>5, <2>1, ConcatAssociative, SMTT(30)
    <2>3. QED
      BY <2>1, <2>2
  <1> HIDE DEF t
  <1>8. FramedAt(t, 0, j)
    <2>1. \A k \in 1..HeaderLength : 0 + k = k
      BY <1>2
    <2>2. ASSUME NEW k \in 1..HeaderLength
          PROVE  \E l \in {HeaderLength - 1, Size(j)} :
                    t[0 + k] = [length |-> l, last |-> packets[j].last, part |-> k]
      BY <1>3, <1>4, <1>6, <2>1
    <2>3. \A k \in 1..Len(packets[j].data) : t[0 + HeaderLength + k] = packets[j].data[k]
      <3>1. 0 + HeaderLength = HeaderLength
        BY <1>2
      <3>2. QED
        BY <1>6, <3>1 DEF data
    <2>4. QED
      BY <2>2, <2>3 DEF FramedAt
  <1>9. Size(j) \in Nat /\ Len(t) = Size(j)
    BY <1>2, <1>3, <1>6 DEF data
  <1>10. QED
    BY <1>1, <1>6, <1>7, <1>8, <1>9

LEMMA Cut ==
  ASSUME NEW S, NEW s \in Seq(S), NEW n \in 0..Len(s)
  PROVE  /\ SubSeq(s, 1, n) \in Seq(S) /\ SubSeq(s, n + 1, Len(s)) \in Seq(S)
         /\ SubSeq(s, 1, n) \o SubSeq(s, n + 1, Len(s)) = s
         /\ Len(SubSeq(s, n + 1, Len(s))) = Len(s) - n
         /\ \A i \in 1..(Len(s) - n) : SubSeq(s, n + 1, Len(s))[i] = s[n + i]
  <1>1. Len(s) \in Nat /\ n \in Nat /\ n <= Len(s)
    BY LenProperties
  <1>2. \A i \in 1..Len(s) : s[i] \in S
    BY ElementOfSeq
  <1>3. SubSeq(s, 1, n) \in Seq(S)
    <2>1. \A i \in 1..n : s[i] \in S
      BY <1>1, <1>2
    <2>2. QED
      BY <1>1, <2>1, SubSeqProperties
  <1> DEFINE len == Len(s) - n
  <1>4. len \in Nat /\ n + len = Len(s)
    BY <1>1
  <1>5. \A i \in 1..len : s[n + i] \in S
    BY <1>1, <1>2
  <1> HIDE DEF len
  <1>6. /\ SubSeq(s, n + 1, n + len) \in Seq(S) /\ Len(SubSeq(s, n + 1, n + len)) = len
        /\ \A i \in 1..len : SubSeq(s, n + 1, n + len)[i] = s[n + i]
    <2>1. PICK x \in Nat : x = n
      BY <1>1
    <2>2. len \in Nat /\ \A i \in 1..len : s[x + i] \in S
      BY <1>4, <1>5, <2>1
    <2>3. SubSeq(s, x + 1, x + len) \in Seq(S) /\ IsPart(SubSeq(s, x + 1, x + len), s, x, len)
      BY <2>2, PartOf, Zenon
    <2>4. QED
      BY <2>1, <2>3 DEF IsPart
  <1>7. SubSeq(s, 1, n) \o SubSeq(s, n + 1, Len(s)) = s
    <2>1. 1 \in 1..(Len(s) + 1) /\ n \in (1 - 1)..Len(s) /\ Len(s) \in n..Len(s)
      BY <1>1
    <2>2. SubSeq(s, 1, n) \o SubSeq(s, n + 1, Len(s)) = SubSeq(s, 1, Len(s))
      BY <2>1, ConcatAdjacentSubSeq
    <2>3. QED
      BY <2>2, SubSeqFull
  <1>8. QED
    BY <1>3, <1>4, <1>6, <1>7 DEF len

\* A chunk that arrives leaves the bytes under way as they are.
LEMMA Arrived ==
  ASSUME Typed, NEW n \in 1..Len(wire), Transform(n)
  PROVE  /\ chunks' \in Seq(Units) /\ wire' \in Seq(Units)
         /\ chunks' \o wire' = chunks \o wire
  <1> DEFINE front == SubSeq(wire, 1, n)
             rest == SubSeq(wire, n + 1, Len(wire))
  <1>1. chunks \in Seq(Units) /\ wire \in Seq(Units) /\ n \in 0..Len(wire)
    BY LenProperties DEF Typed
  <1>2. front \in Seq(Units) /\ rest \in Seq(Units) /\ front \o rest = wire
    BY <1>1, Cut
  <1>3. chunks' = chunks \o front /\ wire' = rest
    BY DEF Transform
  <1> HIDE DEF front, rest
  <1>4. (chunks \o front) \o rest = chunks \o (front \o rest)
    <2>1. \A a, b, c \in Seq(Units) : (a \o b) \o c = a \o (b \o c)
      BY ConcatAssociative
    <2>2. QED
      BY <1>1, <1>2, <2>1, ZenonT(30)
  <1>5. chunks \o front \in Seq(Units)
    BY <1>1, <1>2, ConcatProperties
  <1>6. QED
    BY <1>2, <1>3, <1>4, <1>5

\* A packet that is processed is taken off the bytes under way.
LEMMA Taken ==
  ASSUME Typed, ProcessPacket, NEW size \in Nat, chunks[1].length = size
  PROVE  /\ chunks' \in Seq(Units)
         /\ Len(chunks' \o wire') = Len(chunks \o wire) - size
         /\ \A i \in 1..(Len(chunks \o wire) - size) :
               (chunks' \o wire')[i] = (chunks \o wire)[size + i]
  <1> DEFINE rest == SubSeq(chunks, size + 1, Len(chunks))
  <1>1. chunks' = rest /\ wire' = wire /\ size <= Len(chunks)
    BY DEF ProcessPacket, HavePacket
  <1>2. chunks \in Seq(Units) /\ wire \in Seq(Units) /\ Len(chunks) \in Nat /\ Len(wire) \in Nat
    BY LenProperties DEF Typed
  <1>3. /\ rest \in Seq(Units) /\ Len(rest) = Len(chunks) - size
        /\ \A i \in 1..(Len(chunks) - size) : rest[i] = chunks[size + i]
    <2>1. size \in 0..Len(chunks)
      BY <1>1, <1>2
    <2>2. QED
      BY <1>2, <2>1, Cut
  <1> HIDE DEF rest
  <1> DEFINE old == chunks \o wire
             new == rest \o wire
  <1>4. \A a, b \in Seq(Units) :
           /\ a \o b \in Seq(Units) /\ Len(a \o b) = Len(a) + Len(b)
           /\ \A k \in 1..Len(a) : (a \o b)[k] = a[k]
           /\ \A k \in 1..Len(b) : (a \o b)[Len(a) + k] = b[k]
    BY Concatenated
  <1>5. /\ Len(old) = Len(chunks) + Len(wire)
        /\ \A k \in 1..Len(chunks) : old[k] = chunks[k]
        /\ \A k \in 1..Len(wire) : old[Len(chunks) + k] = wire[k]
    BY <1>2, <1>4
  <1>6. /\ Len(new) = Len(rest) + Len(wire)
        /\ \A k \in 1..Len(rest) : new[k] = rest[k]
        /\ \A k \in 1..Len(wire) : new[Len(rest) + k] = wire[k]
    BY <1>2, <1>3, <1>4
  <1> HIDE DEF old, new
  <1>7. Len(new) = Len(old) - size
    BY <1>2, <1>3, <1>5, <1>6
  <1>8. ASSUME NEW i \in 1..(Len(old) - size)
        PROVE  new[i] = old[size + i]
    <2>1. CASE i <= Len(rest)
      <3>1. i \in 1..Len(rest) /\ i \in 1..(Len(chunks) - size) /\ size + i \in 1..Len(chunks)
        BY <1>1, <1>2, <1>3, <2>1
      <3>2. QED
        BY <1>3, <1>5, <1>6, <3>1
    <2>2. CASE ~(i <= Len(rest))
      <3>1. PICK k \in 1..Len(wire) : k = i - Len(rest)
        <4>1. Len(old) = Len(chunks) + Len(wire) /\ Len(rest) = Len(chunks) - size
          BY <1>3, <1>5
        <4>2. i - Len(rest) \in 1..Len(wire)
          BY <1>1, <1>2, <2>2, <4>1
        <4>3. QED
          BY <4>2
      <3>2. i = Len(rest) + k /\ size + i = Len(chunks) + k
        BY <1>1, <1>2, <1>3, <2>2, <3>1
      <3>3. QED
        BY <1>5, <1>6, <3>2
    <2>3. QED
      BY <2>1, <2>2
  <1>9. QED
    BY <1>1, <1>3, <1>7, <1>8 DEF old, new

LEMMA NextInTyped ==
  ASSUME Typed, PacketsInv, WellPacked, InInv, [Next]_vars
  PROVE  InTyped'
  <1>1. InTyped
    BY TypedByParts
  <1>2. CASE UNCHANGED <<wire, inVars>>
    BY <1>1, <1>2 DEF InTyped, inVars
  <1>3. CASE \E broken \in BOOLEAN : Pipe(broken)
    <2>1. PICK broken \in BOOLEAN : Pipe(broken)
      BY <1>3
    <2>2. PICK j \in Nat : j = piped + 1
      BY DEF Typed
    <2>3. PICK t \in Seq(Units) : wire' = wire \o t
      BY <2>1, <2>2, PipedBytes
    <2>4. wire' \in Seq(Units)
      BY <1>1, <2>3, ConcatProperties DEF InTyped
    <2>5. QED
      BY <1>1, <2>1, <2>4 DEF InTyped, Pipe, inVars
  <1>4. CASE \E n \in 1..Len(wire) : Transform(n)
    <2>1. PICK n \in 1..Len(wire) : Transform(n)
      BY <1>4
    <2>2. chunks' \in Seq(Units) /\ wire' \in Seq(Units)
      BY <2>1, Arrived
    <2>3. waiting' = "busy" /\ UNCHANGED <<incoming, inBuffer, got, complete, over>>
      BY <2>1 DEF Transform
    <2>4. QED
      BY <1>1, <2>2, <2>3 DEF InTyped, Waits
  <1>5. CASE CallBack
    BY <1>1, <1>5 DEF CallBack, InTyped, Waits
  <1>6. CASE ProcessPacket
    <2>1. PICK q \in 0..piped : \E off \in [q..piped -> Nat] : Framed(chunks \o wire, q, off) /\ Received(q)
      BY DEF InInv
    <2>2. Due(q)
      BY <1>6, <2>1, PacketDue
    <2> DEFINE data == SubSeq(chunks, HeaderLength + 1, chunks[1].length)
    <2>3. q + 1 \in 1..Len(packets) /\ chunks[1].length = Size(q + 1) /\ Size(q + 1) \in Nat
          /\ data = packets[q + 1].data /\ Target = packets[q + 1].message
      BY <2>2 DEF Due
    <2>4. data \in Seq(Byte) /\ Target \in Messages
      BY <2>3, PacketTyped
    <2>5. chunks' \in Seq(Units)
      BY <1>6, <2>3, Taken
    <2>6. /\ incoming' = Target /\ inBuffer' = [inBuffer EXCEPT ![Target] = @ \o data]
          /\ complete' \subseteq complete \cup {Target} /\ complete \subseteq complete'
          /\ UNCHANGED <<wire, got, over>>
      BY <1>6 DEF ProcessPacket
    <2>7. waiting' \in Waits
      <3>1. waiting' = AfterPacket(chunks[1], Len(inBuffer[Target]) + Len(data))
        BY <1>6 DEF ProcessPacket
      <3> HIDE DEF data
      <3>2. QED
        BY <3>1 DEF AfterPacket, Waits
    <2> HIDE DEF data
    <2>8. inBuffer' \in [Messages -> Seq(Byte)]
      <3>1. inBuffer[Target] \in Seq(Byte) /\ inBuffer \in [Messages -> Seq(Byte)]
        BY <1>1, <2>4 DEF InTyped
      <3>2. inBuffer[Target] \o data \in Seq(Byte)
        BY <2>4, <3>1, ConcatProperties
      <3>3. QED
        BY <2>4, <2>6, <3>1, <3>2
    <2>9. QED
      BY <1>1, <2>4, <2>5, <2>6, <2>7, <2>8 DEF InTyped
  <1>7. CASE \E m \in Messages : ReadData(m)
    <2>1. PICK m \in Messages : ReadData(m)
      BY <1>7
    <2>2. /\ got' = [got EXCEPT ![m] = @ \o inBuffer[m]] /\ inBuffer' = [inBuffer EXCEPT ![m] = <<>>]
          /\ waiting' = AfterDrain /\ UNCHANGED <<wire, chunks, incoming, complete, over>>
      BY <2>1 DEF ReadData
    <2>3. got[m] \o inBuffer[m] \in Seq(Byte) /\ <<>> \in Seq(Byte)
      <3>1. got[m] \in Seq(Byte) /\ inBuffer[m] \in Seq(Byte)
        BY <1>1 DEF InTyped
      <3>2. QED
        BY <3>1, ConcatProperties
    <2>4. waiting' \in Waits
      BY <1>1, <2>2 DEF InTyped, AfterDrain, Waits
    <2>5. got' \in [Messages -> Seq(Byte)] /\ inBuffer' \in [Messages -> Seq(Byte)]
      BY <1>1, <2>2, <2>3 DEF InTyped
    <2>6. QED
      BY <1>1, <2>2, <2>4, <2>5 DEF InTyped
  <1>8. CASE \E m \in Messages : IncomingEnd(m)
    BY <1>1, <1>8 DEF IncomingEnd, InTyped, Waits
  <1>9. CASE \/ \E m \in Messages : WriteData(m) \/ EndMessage(m) \/ IgnoreMessage(m)
             \/ \E s \in PacketSizes : PacketSize(s)
             \/ Outgoing \/ UNCHANGED vars
    BY <1>2, <1>9 DEF WriteData, EndMessage, IgnoreMessage, PacketSize, Outgoing, Write, MessageData,
                      MessageEnd, vars
  <1>10. QED
    BY <1>3, <1>4, <1>5, <1>6, <1>7, <1>8, <1>9 DEF Next

-----------------------------------------------------------------------------
(* What is under way and what was handed over *)

LEMMA SamePacket ==
  ASSUME Typed, Extended, NEW s, NEW n, NEW j \in 1..Len(packets), FramedAt(s, n, j)
  PROVE  FramedAt(s, n, j)' /\ Size(j)' = Size(j)
  <1>1. packets'[j] = packets[j]
    BY DEF Extended
  <1>2. Size(j)' = Size(j)
    BY <1>1 DEF Size
  <1>3. FramedAt(s, n, j)'
    BY <1>1, <1>2, Zenon DEF FramedAt
  <1>4. QED
    BY <1>2, <1>3

\* Framed of the next state, of a rigid sequence
LEMMA FramedNext ==
  ASSUME NEW s, s = chunks' \o wire', NEW q, NEW off,
         off[q] = 0, off[piped'] = Len(s),
         \A i, j \in q..piped' : i <= j => off[i] <= off[j],
         \A j \in (q + 1)..piped' : off[j] = off[j - 1] + Size(j)',
         \A j \in (q + 1)..piped' : FramedAt(s, off[j - 1], j)'
  PROVE  Framed(chunks \o wire, q, off)'
  <1>1. \A j \in (q + 1)..piped' : FramedAt(chunks \o wire, off[j - 1], j)'
    BY ZenonT(30) DEF FramedAt
  <1>2. QED
    BY <1>1, Zenon DEF Framed

LEMMA SameReceived ==
  ASSUME Typed, Extended, NEW q \in 0..piped, Received(q),
         UNCHANGED <<incoming, inBuffer, got, complete, over>>, waiting' = "end" <=> waiting = "end"
  PROVE  Received(q)'
  <1>1. q # 0 => q \in 1..Len(packets)
    BY LenProperties DEF Typed, TypeOK
  <1>2. q # 0 => packets'[q] = packets[q] /\ UpTo(q)' = UpTo(q)
    BY <1>1, OldPacket
  <1> DEFINE m == IF q = 0 THEN 0 ELSE packets[q].message
             whole == q = 0 \/ packets[q].last
             bytes == IF q = 0 THEN 0 ELSE UpTo(q)
  <1>3. m' = m /\ (whole' <=> whole) /\ bytes' = bytes
    BY <1>2
  <1>4. /\ complete = IF whole THEN 1..m ELSE 1..(m - 1)
        /\ incoming = m \/ (incoming = 0 /\ whole)
        /\ over = IF incoming = 0 THEN 1..m ELSE 1..(m - 1)
        /\ waiting = "end" <=> whole /\ incoming # 0
        /\ m # 0 => got[m] \o inBuffer[m] = [k \in 1..bytes |-> k]
        /\ \A i \in Messages : i # incoming => inBuffer[i] = <<>>
        /\ \A i \in Messages : i > m => got[i] = <<>>
    BY Zenon DEF Received
  <1> HIDE DEF m, whole, bytes
  <1>5. /\ complete' = IF whole' THEN 1..m' ELSE 1..(m' - 1)
        /\ incoming' = m' \/ (incoming' = 0 /\ whole')
        /\ over' = IF incoming' = 0 THEN 1..m' ELSE 1..(m' - 1)
        /\ waiting' = "end" <=> whole' /\ incoming' # 0
        /\ m' # 0 => got'[m'] \o inBuffer'[m'] = [k \in 1..bytes' |-> k]
        /\ \A i \in Messages : i # incoming' => inBuffer'[i] = <<>>
        /\ \A i \in Messages : i > m' => got'[i] = <<>>
    BY <1>3, <1>4
  <1>6. QED
    BY <1>5, Zenon DEF Received, m, whole, bytes

LEMMA SameFramed ==
  ASSUME Typed, Extended, chunks' \o wire' = chunks \o wire, piped' = piped,
         NEW q \in 0..piped, NEW off \in [q..piped -> Nat], Framed(chunks \o wire, q, off)
  PROVE  Framed(chunks \o wire, q, off)'
  <1>1. PICK s \in Seq(Units) : s = chunks \o wire
    BY ConcatProperties DEF Typed
  <1>2. /\ off[q] = 0 /\ off[piped] = Len(s)
        /\ \A i, j \in q..piped : i <= j => off[i] <= off[j]
        /\ \A j \in (q + 1)..piped : off[j] = off[j - 1] + Size(j) /\ FramedAt(s, off[j - 1], j)
    BY <1>1 DEF Framed
  <1>3. \A j \in (q + 1)..piped : j \in 1..Len(packets)
    BY LenProperties DEF Typed, TypeOK
  <1>4. ASSUME NEW j \in (q + 1)..piped
        PROVE  off[j] = off[j - 1] + Size(j)' /\ FramedAt(s, off[j - 1], j)'
    BY <1>2, <1>3, SamePacket
  <1>5. s = chunks' \o wire'
    BY <1>1
  <1>6. QED
    BY <1>2, <1>4, <1>5, FramedNext

\* Steps that only move bytes towards the incoming stream, or push packets
LEMMA InKept ==
  ASSUME Typed, Extended, InInv, chunks' \o wire' = chunks \o wire,
         UNCHANGED <<piped, incoming, inBuffer, got, complete, over>>,
         waiting' = "end" <=> waiting = "end"
  PROVE  InInv'
  <1>1. PICK q \in 0..piped : \E off \in [q..piped -> Nat] : Framed(chunks \o wire, q, off) /\ Received(q)
    BY DEF InInv
  <1>2. PICK off \in [q..piped -> Nat] : Framed(chunks \o wire, q, off) /\ Received(q)
    BY <1>1
  <1>3. Framed(chunks \o wire, q, off)' /\ piped' = piped
    BY <1>2, SameFramed
  <1>4. Received(q)'
    BY <1>2, SameReceived
  <1>5. QED
    BY <1>3, <1>4, Zenon DEF InInv

LEMMA FramedMoved ==
  ASSUME Typed, NEW j \in 1..Len(packets), NEW s, NEW t, NEW n \in Nat, NEW k \in Nat,
         FramedAt(s, n, j), \A i \in 1..Size(j) : t[k + i] = s[n + i]
  PROVE  FramedAt(t, k, j)
  <1>1. HeaderLength \in Nat /\ Len(packets[j].data) \in Nat
    BY PacketTyped, SizeAssumption
  <1>2. Size(j) = HeaderLength + Len(packets[j].data)
    BY DEF Size
  <1>3. ASSUME NEW i \in 1..HeaderLength
        PROVE  \E len \in {HeaderLength - 1, Size(j)} :
                  t[k + i] = [length |-> len, last |-> packets[j].last, part |-> i]
    <2>1. i \in 1..Size(j)
      BY <1>1, <1>2
    <2>2. \E len \in {HeaderLength - 1, Size(j)} :
             s[n + i] = [length |-> len, last |-> packets[j].last, part |-> i]
      BY Zenon DEF FramedAt
    <2>3. t[k + i] = s[n + i]
      BY <2>1
    <2>4. QED
      BY <2>2, <2>3, Zenon
  <1>4. ASSUME NEW i \in 1..Len(packets[j].data)
        PROVE  t[k + HeaderLength + i] = packets[j].data[i]
    <2>1. /\ HeaderLength + i \in 1..Size(j) /\ k + HeaderLength + i = k + (HeaderLength + i)
          /\ n + HeaderLength + i = n + (HeaderLength + i)
      BY <1>1, <1>2
    <2>2. s[n + HeaderLength + i] = packets[j].data[i]
      BY Zenon DEF FramedAt
    <2>3. t[k + (HeaderLength + i)] = s[n + (HeaderLength + i)]
      BY <2>1
    <2>4. QED
      BY <2>1, <2>2, <2>3
  <1>5. QED
    BY <1>3, <1>4, Zenon DEF FramedAt

\* A packet goes on the wire.
LEMMA PipeIn ==
  ASSUME Typed, InInv, NEW broken \in BOOLEAN, Pipe(broken)
  PROVE  InInv'
  <1>1. PICK q \in 0..piped : \E off \in [q..piped -> Nat] : Framed(chunks \o wire, q, off) /\ Received(q)
    BY DEF InInv
  <1>2. PICK off \in [q..piped -> Nat] : Framed(chunks \o wire, q, off) /\ Received(q)
    BY <1>1
  <1>3. PICK j \in Nat : j = piped + 1
    BY DEF Typed
  <1>4. /\ j \in 1..Len(packets) /\ piped' = j /\ UNCHANGED packets /\ Size(j) \in Nat
        /\ \E t \in Seq(Units) : wire' = wire \o t /\ Len(t) = Size(j) /\ FramedAt(t, 0, j)
    BY <1>3, PipedBytes
  <1>5. PICK t \in Seq(Units) : wire' = wire \o t /\ Len(t) = Size(j) /\ FramedAt(t, 0, j)
    BY <1>4
  <1>6. chunks \in Seq(Units) /\ wire \in Seq(Units) /\ piped \in Nat /\ q \in Nat /\ q <= piped
        /\ Extended /\ chunks' = chunks /\ piped <= Len(packets) /\ Len(packets) \in Nat
    BY <1>4, LenProperties DEF Typed, TypeOK, Extended, Pipe, inVars
  <1>7. PICK s \in Seq(Units) : s = chunks \o wire
    BY <1>6, ConcatProperties
  <1>8. /\ off[q] = 0 /\ off[piped] = Len(s)
        /\ \A a, b \in q..piped : a <= b => off[a] <= off[b]
        /\ \A i \in (q + 1)..piped : off[i] = off[i - 1] + Size(i) /\ FramedAt(s, off[i - 1], i)
    BY <1>2, <1>7 DEF Framed
  <1>9. PICK u \in Seq(Units) : u = s \o t
    BY ConcatProperties
  <1>10. u = chunks' \o wire'
    <2>1. \A a, b, c \in Seq(Units) : (a \o b) \o c = a \o (b \o c)
      BY ConcatAssociative, SMTT(30)
    <2>2. chunks \in Seq(Units) /\ wire \in Seq(Units)
      BY <1>6
    <2>3. (chunks \o wire) \o t = chunks \o (wire \o t)
      BY <2>1, <2>2, SMTT(30)
    <2>4. QED
      BY <1>5, <1>6, <1>7, <1>9, <2>3, Zenon
  <1>11. /\ Len(u) = Len(s) + Size(j) /\ Len(s) \in Nat
         /\ \A i \in 1..Len(s) : u[i] = s[i]
         /\ \A i \in 1..Size(j) : u[Len(s) + i] = t[i]
    <2>1. \A a, b \in Seq(Units) :
             /\ Len(a \o b) = Len(a) + Len(b) /\ Len(a) \in Nat
             /\ \A k \in 1..Len(a) : (a \o b)[k] = a[k]
             /\ \A k \in 1..Len(b) : (a \o b)[Len(a) + k] = b[k]
      BY Concatenated
    <2>2. QED
      BY <1>5, <1>9, <2>1, ZenonT(30)
  <1>12. PICK ends \in [q..j -> Nat] :
            /\ ends[j] = Len(s) + Size(j)
            /\ \A i \in q..piped : ends[i] = off[i] /\ off[i] \in Nat /\ off[i] <= Len(s)
    <2> DEFINE new == [i \in q..j |-> IF i = j THEN Len(s) + Size(j) ELSE off[i]]
    <2>1. /\ new \in [q..j -> Nat] /\ new[j] = Len(s) + Size(j)
          /\ \A i \in q..piped : new[i] = off[i] /\ off[i] \in Nat /\ off[i] <= Len(s)
      BY <1>3, <1>4, <1>6, <1>8, <1>11
    <2> HIDE DEF new
    <2>2. QED
      BY <2>1
  <1>13. \A a, b \in q..j : a <= b => ends[a] <= ends[b]
    <2>1. ASSUME NEW a \in q..j, NEW b \in q..j, a <= b
          PROVE  ends[a] <= ends[b]
      <3>1. CASE b = j
        <4>1. Size(j) \in Nat /\ Len(s) \in Nat /\ Len(s) <= Len(s) + Size(j)
          BY <1>4, <1>11
        <4>2. CASE a = j
          BY <1>12, <3>1, <4>1, <4>2
        <4>3. CASE a # j
          <5>1. a \in q..piped
            BY <1>3, <1>6, <4>3
          <5>2. ends[a] \in Nat /\ ends[a] <= Len(s) /\ ends[b] = Len(s) + Size(j)
            BY <1>12, <3>1, <5>1
          <5>3. QED
            BY <4>1, <5>2
        <4>4. QED
          BY <4>2, <4>3
      <3>2. CASE b # j
        <4>1. a \in q..piped /\ b \in q..piped
          BY <1>3, <1>6, <2>1, <3>2
        <4>2. QED
          BY <1>8, <1>12, <2>1, <4>1
      <3>3. QED
        BY <3>1, <3>2
    <2>2. QED
      BY <2>1
  <1>14. ASSUME NEW i \in (q + 1)..j
         PROVE  ends[i] = ends[i - 1] + Size(i)' /\ FramedAt(u, ends[i - 1], i)'
    <2>1. i \in 1..Len(packets) /\ i - 1 \in q..piped
      BY <1>3, <1>4, <1>6
    <2>2. PICK n \in Nat : n = ends[i - 1]
      BY <1>12, <2>1
    <2>3. ends[i] = n + Size(i) /\ FramedAt(u, n, i)
      <3>1. CASE i = j
        <4>1. n = Len(s)
          BY <1>3, <1>6, <1>8, <1>12, <2>1, <2>2, <3>1
        <4>2. \A k \in 1..Size(j) : u[n + k] = t[0 + k]
          <5>1. \A k \in 1..Size(j) : 0 + k = k /\ u[Len(s) + k] = t[k]
            BY <1>4, <1>11
          <5>2. QED
            BY <4>1, <5>1
        <4>3. FramedAt(u, n, i)
          BY <1>5, <2>1, <3>1, <4>2, FramedMoved
        <4>4. QED
          BY <1>12, <3>1, <4>1, <4>3
      <3>2. CASE i # j
        <4>1. i \in (q + 1)..piped /\ i \in q..piped
          BY <1>3, <1>6, <3>2
        <4>2. ends[i] = n + Size(i) /\ FramedAt(s, n, i) /\ ends[i] <= Len(s)
          BY <1>8, <1>12, <2>1, <2>2, <4>1
        <4>3. Size(i) \in Nat
          BY <2>1, PacketTyped, SizeAssumption DEF Size
        <4>4. \A k \in 1..Size(i) : u[n + k] = s[n + k]
          <5>1. \A k \in 1..Size(i) : n + k \in 1..Len(s)
            BY <1>11, <4>2, <4>3
          <5>2. QED
            BY <1>11, <5>1
        <4>5. FramedAt(u, n, i)
          BY <2>1, <4>2, <4>4, FramedMoved
        <4>6. QED
          BY <4>2, <4>5
      <3>3. QED
        BY <3>1, <3>2
    <2>4. FramedAt(u, n, i)' /\ Size(i)' = Size(i)
      BY <1>6, <2>1, <2>3, SamePacket
    <2>5. FramedAt(u, ends[i - 1], i)'
      BY <2>2, <2>4, Zenon DEF FramedAt
    <2>6. QED
      BY <2>2, <2>3, <2>4, <2>5
  <1>15. ends[q] = 0 /\ ends[j] = Len(u)
    BY <1>6, <1>8, <1>11, <1>12
  <1>16. Framed(chunks \o wire, q, ends)'
    <2>1. /\ ends[piped'] = Len(u) /\ \A a, b \in q..piped' : a <= b => ends[a] <= ends[b]
          /\ \A i \in (q + 1)..piped' : ends[i] = ends[i - 1] + Size(i)'
          /\ \A i \in (q + 1)..piped' : FramedAt(u, ends[i - 1], i)'
      BY <1>4, <1>13, <1>14, <1>15
    <2>2. QED
      BY <1>10, <1>15, <2>1, FramedNext
  <1>17. Received(q)'
    BY <1>2, <1>6, SameReceived DEF Pipe, inVars
  <1>18. q \in 0..piped' /\ ends \in [q..piped' -> Nat]
    BY <1>3, <1>4, <1>6
  <1>19. QED
    BY <1>16, <1>17, <1>18, Zenon DEF InInv

\* A packet is taken off the bytes under way.
LEMMA ProcessFramed ==
  ASSUME Typed, ProcessPacket, NEW q \in 0..piped, NEW off \in [q..piped -> Nat],
         Framed(chunks \o wire, q, off), Due(q), NEW r \in Nat, r = q + 1
  PROVE  \E ends \in [r..piped -> Nat] : Framed(chunks \o wire, r, ends)'
  <1>1. /\ r \in 1..Len(packets) /\ r \in 1..piped /\ chunks[1].length = Size(r) /\ Size(r) \in Nat
        /\ UNCHANGED <<packets, piped, wire>>
    BY DEF Due, ProcessPacket, outVars
  <1>2. PICK size \in Nat : size = Size(r)
    BY <1>1
  <1>3. /\ chunks \in Seq(Units) /\ wire \in Seq(Units) /\ chunks' \in Seq(Units) /\ Extended
        /\ piped \in Nat /\ q \in Nat /\ piped <= Len(packets) /\ Len(packets) \in Nat
    BY <1>1, <1>2, Taken, LenProperties, SMTT(30) DEF Typed, TypeOK, Extended
  <1>4. PICK s \in Seq(Units) : s = chunks \o wire
    BY <1>3, ConcatProperties
  <1>5. PICK u \in Seq(Units) : u = chunks' \o wire'
    BY <1>1, <1>3, ConcatProperties
  <1>6. /\ Len(u) = Len(s) - size /\ \A i \in 1..(Len(s) - size) : u[i] = s[size + i]
        /\ Len(s) \in Nat /\ Len(u) \in Nat
    BY <1>1, <1>2, <1>4, <1>5, Taken, LenProperties
  <1>7. /\ off[q] = 0 /\ off[piped] = Len(s)
        /\ \A a, b \in q..piped : a <= b => off[a] <= off[b]
        /\ \A i \in (q + 1)..piped : off[i] = off[i - 1] + Size(i) /\ FramedAt(s, off[i - 1], i)
    BY <1>4 DEF Framed
  <1>8. off[r] = size
    <2>1. r \in (q + 1)..piped /\ r - 1 = q
      BY <1>1, <1>3
    <2>2. QED
      BY <1>2, <1>7, <2>1
  <1>9. \A i \in r..piped : i \in q..piped /\ off[i] \in Nat /\ size <= off[i] /\ off[i] <= Len(s)
    <2>1. ASSUME NEW i \in r..piped
          PROVE  i \in q..piped /\ off[i] \in Nat /\ size <= off[i] /\ off[i] <= Len(s)
      <3>1. i \in q..piped /\ r \in q..piped /\ piped \in q..piped /\ r <= i /\ i <= piped
        BY <1>1, <1>3
      <3>2. QED
        BY <1>7, <1>8, <3>1
    <2>2. QED
      BY <2>1
  <1>10. PICK ends \in [r..piped -> Nat] : \A i \in r..piped : ends[i] = off[i] - size
    <2> DEFINE new == [i \in r..piped |-> off[i] - size]
    <2>1. new \in [r..piped -> Nat] /\ \A i \in r..piped : new[i] = off[i] - size
      BY <1>9
    <2> HIDE DEF new
    <2>2. QED
      BY <2>1
  <1>11. ends[r] = 0 /\ ends[piped] = Len(u)
    <2>1. r \in r..piped /\ piped \in r..piped
      BY <1>1, <1>3
    <2>2. ends[r] = off[r] - size /\ ends[piped] = off[piped] - size
      BY <1>10, <2>1
    <2>3. QED
      BY <1>6, <1>7, <1>8, <2>2
  <1>12. \A a, b \in r..piped : a <= b => ends[a] <= ends[b]
    BY <1>7, <1>9, <1>10
  <1>13. ASSUME NEW i \in (r + 1)..piped
         PROVE  ends[i] = ends[i - 1] + Size(i)' /\ FramedAt(u, ends[i - 1], i)'
    <2>1. /\ i \in 1..Len(packets) /\ i - 1 \in r..piped /\ i \in r..piped /\ i \in (q + 1)..piped
      BY <1>1, <1>3
    <2>2. PICK n \in Nat : n = off[i - 1]
      BY <1>9, <2>1
    <2>3. PICK k \in Nat : k = ends[i - 1]
      BY <1>10, <2>1
    <2>4. Size(i) \in Nat
      BY <2>1, PacketTyped, SizeAssumption DEF Size
    <2>5. off[i] = n + Size(i) /\ FramedAt(s, n, i) /\ off[i] <= Len(s) /\ off[i] \in Nat
      BY <1>7, <1>9, <2>1, <2>2
    <2>6. n = size + k /\ ends[i] = off[i] - size
      BY <1>9, <1>10, <2>1, <2>2, <2>3
    <2>7. \A x \in 1..Size(i) : u[k + x] = s[n + x]
      <3>1. \A x \in 1..Size(i) : k + x \in 1..(Len(s) - size) /\ size + (k + x) = n + x
        BY <1>6, <2>4, <2>5, <2>6
      <3>2. QED
        BY <1>6, <3>1
    <2>8. FramedAt(u, k, i)
      BY <2>1, <2>5, <2>7, FramedMoved
    <2>9. FramedAt(u, k, i)' /\ Size(i)' = Size(i)
      BY <1>3, <2>1, <2>8, SamePacket
    <2>10. FramedAt(u, ends[i - 1], i)'
      BY <2>3, <2>9, Zenon DEF FramedAt
    <2>11. ends[i] = ends[i - 1] + Size(i)'
      BY <2>3, <2>4, <2>5, <2>6, <2>9, SMTT(30)
    <2>12. QED
      BY <2>10, <2>11
  <1>14. Framed(chunks \o wire, r, ends)'
    <2>1. /\ ends[piped'] = Len(u) /\ \A a, b \in r..piped' : a <= b => ends[a] <= ends[b]
          /\ \A i \in (r + 1)..piped' : ends[i] = ends[i - 1] + Size(i)'
          /\ \A i \in (r + 1)..piped' : FramedAt(u, ends[i - 1], i)'
      BY <1>1, <1>11, <1>12, <1>13
    <2>2. QED
      BY <1>5, <1>11, <2>1, FramedNext
  <1>15. QED
    BY <1>14

LEMMA AppendRun ==
  ASSUME NEW s \in Seq(Byte), NEW t \in Seq(Byte), NEW n \in Nat, s = [k \in 1..n |-> k],
         \A k \in 1..Len(t) : t[k] = n + k
  PROVE  s \o t = [k \in 1..(n + Len(t)) |-> k]
  <1>1. Len(s) = n
    OBVIOUS
  <1>2. Len(t) \in Nat /\ Len(s) \in Nat
    BY LenProperties
  <1>3. /\ s \o t \in Seq(Byte) /\ Len(s \o t) = Len(s) + Len(t)
        /\ \A i \in 1..(Len(s) + Len(t)) : (s \o t)[i] = IF i <= Len(s) THEN s[i] ELSE t[i - Len(s)]
    BY ConcatProperties
  <1> DEFINE all == s \o t
             len == n + Len(t)
  <1>4. \A i \in 1..len : all[i] = i
    <2>1. ASSUME NEW i \in 1..len
          PROVE  all[i] = i
      <3>1. CASE i <= n
        BY <1>1, <1>2, <1>3, <3>1
      <3>2. CASE ~(i <= n)
        <4>1. i - n \in 1..Len(t) /\ i \in 1..(Len(s) + Len(t)) /\ n + (i - n) = i
          BY <1>1, <1>2, <3>2
        <4>2. all[i] = t[i - n]
          BY <1>1, <1>3, <3>2, <4>1
        <4>3. QED
          BY <4>1, <4>2
      <3>3. QED
        BY <3>1, <3>2
    <2>2. QED
      BY <2>1
  <1>5. all \in Seq(Byte) /\ Len(all) = len /\ len \in Nat
    BY <1>1, <1>2, <1>3
  <1> HIDE DEF all, len
  <1>6. [k \in 1..len |-> k] = all
    <2>1. DOMAIN all = 1..len /\ all = [k \in DOMAIN all |-> all[k]]
      BY <1>5
    <2>2. QED
      BY <1>4, <2>1
  <1>7. QED
    BY <1>6 DEF all, len

\* The packet is handed to its message.
LEMMA ProcessReceived ==
  ASSUME Typed, PacketsInv, WellPacked, ProcessPacket, NEW q \in 0..piped, Received(q), Due(q),
         NEW r \in Nat, r = q + 1
  PROVE  Received(r)'
  <1>1. PICK t \in Messages : t = Target /\ t = packets[r].message
    <2>1. r \in 1..Len(packets) /\ Target = packets[r].message
      BY DEF Due
    <2>2. QED
      BY <2>1, PacketTyped
  <1>2. /\ r \in 1..Len(packets) /\ r - 1 = q /\ r # 0 /\ q \in Nat
        /\ chunks[1].last = packets[r].last
        /\ SubSeq(chunks, HeaderLength + 1, chunks[1].length) = packets[r].data
        /\ t = IF incoming # 0 THEN incoming ELSE IF q = 0 THEN 1 ELSE packets[q].message + 1
        /\ incoming = 0 <=> q = 0 \/ packets[q].last
    BY <1>1 DEF Due
  <1> DEFINE m == IF q = 0 THEN 0 ELSE packets[q].message
             whole == q = 0 \/ packets[q].last
             bytes == IF q = 0 THEN 0 ELSE UpTo(q)
             data == packets[r].data
             last == packets[r].last
  <1>3. /\ complete = IF whole THEN 1..m ELSE 1..(m - 1)
        /\ incoming = m \/ (incoming = 0 /\ whole)
        /\ over = IF incoming = 0 THEN 1..m ELSE 1..(m - 1)
        /\ m # 0 => got[m] \o inBuffer[m] = [k \in 1..bytes |-> k]
        /\ \A i \in Messages : i # incoming => inBuffer[i] = <<>>
        /\ \A i \in Messages : i > m => got[i] = <<>>
    BY Zenon DEF Received
  <1>4. m \in Nat /\ (q # 0 => m \in Messages) /\ bytes \in Nat
    <2>1. q # 0 => q \in 1..Len(packets)
      BY <1>2
    <2>2. QED
      BY <2>1, PacketTyped, SizeAssumption DEF Messages
  <1>5. /\ data \in Seq(Byte) /\ Len(data) \in Nat /\ last \in BOOLEAN /\ UpTo(r) \in Nat
        /\ UpTo(r) = IF data = <<>> THEN 0 ELSE data[Len(data)]
    <2>1. packets[r] \in Packets /\ data \in Seq(Byte) /\ Len(data) \in Nat /\ UpTo(r) \in 0..MaxBytes
      BY <1>2, PacketTyped
    <2>2. last \in BOOLEAN
      BY <2>1 DEF Packets
    <2>3. QED
      BY <2>1, <2>2, SizeAssumption DEF UpTo
  <1>6. whole \in BOOLEAN /\ (FirstOf(r) <=> whole)
    BY <1>2 DEF FirstOf
  <1>7. Before(r) = IF whole THEN 0 ELSE bytes
    BY <1>2, <1>6 DEF Before
  <1>8. \A k \in 1..Len(data) : data[k] = Before(r) + k
    <2>1. GoesOn(r)
      BY <1>2 DEF PacketsInv
    <2>2. QED
      BY <2>1, Zenon DEF GoesOn
  <1>9. /\ incoming' = t /\ inBuffer' = [inBuffer EXCEPT ![t] = @ \o data]
        /\ complete' = IF last THEN complete \cup {t} ELSE complete
        /\ (waiting' = "end" <=> last) /\ UNCHANGED <<got, over, packets>>
    BY <1>1, <1>2, <1>5 DEF ProcessPacket, AfterPacket, outVars
  <1>10. /\ got[t] \in Seq(Byte) /\ inBuffer[t] \in Seq(Byte)
         /\ inBuffer \in [Messages -> Seq(Byte)]
    BY TypedByParts DEF InTyped
  <1> HIDE DEF m, whole, data, last, bytes
  <1>11. t = (IF whole THEN m + 1 ELSE m) /\ t \in Nat /\ t # 0
    <2>1. whole => t = m + 1
      BY <1>2 DEF whole, m
    <2>2. ~whole => t = m
      BY <1>2, <1>3 DEF whole
    <2>3. QED
      BY <1>6, <2>1, <2>2, SizeAssumption DEF Messages
  <1>12. complete' = IF last THEN 1..t ELSE 1..(t - 1)
    <2>1. complete = 1..(t - 1)
      BY <1>3, <1>4, <1>6, <1>11
    <2>2. 1..t = 1..(t - 1) \cup {t}
      BY <1>11
    <2>3. QED
      BY <1>9, <2>1, <2>2
  <1>13. over' = 1..(t - 1)
    <2>1. whole => incoming = 0
      BY <1>2 DEF whole
    <2>2. ~whole => incoming # 0
      BY <1>2 DEF whole
    <2>3. QED
      BY <1>3, <1>4, <1>6, <1>9, <1>11, <2>1, <2>2
  <1>14. got[t] \o inBuffer[t] = [k \in 1..Before(r) |-> k]
    <2>1. CASE whole
      <3>1. got[t] = <<>> /\ inBuffer[t] = <<>>
        <4>1. incoming # t
          BY <1>2, <1>11, <2>1 DEF whole
        <4>2. t > m
          BY <1>4, <1>11, <2>1
        <4>3. QED
          BY <1>3, <4>1, <4>2
      <3>2. [k \in 1..0 |-> k] = <<>>
        OBVIOUS
      <3>3. QED
        BY <1>7, <2>1, <3>1, <3>2
    <2>2. CASE ~whole
      BY <1>3, <1>7, <1>11, <2>2
    <2>3. QED
      BY <2>1, <2>2
  <1>15. got'[t] \o inBuffer'[t] = [k \in 1..UpTo(r) |-> k]
    <2> DEFINE held == got[t] \o inBuffer[t]
    <2>1. held \in Seq(Byte)
      BY <1>10, ConcatProperties
    <2>2. Before(r) \in Nat
      BY <1>4, <1>7
    <2>3. held \o data = [k \in 1..(Before(r) + Len(data)) |-> k]
      <3>1. \A a, b \in Seq(Byte) : \A n \in Nat :
               a = [k \in 1..n |-> k] /\ (\A k \in 1..Len(b) : b[k] = n + k)
               => a \o b = [k \in 1..(n + Len(b)) |-> k]
        BY AppendRun
      <3>2. held = [k \in 1..Before(r) |-> k]
        BY <1>14
      <3> HIDE DEF held
      <3>3. QED
        BY <1>5, <1>8, <2>1, <2>2, <3>1, <3>2
    <2>4. UpTo(r) = Before(r) + Len(data)
      <3>1. CASE data = <<>>
        <4>1. Len(data) = 0 /\ UpTo(r) = 0
          BY <1>5, <3>1
        <4>2. whole
          <5>1. Packed(r) /\ GoesOn(r)
            BY <1>2, PackedByParts DEF PacketsInv, Typed
          <5>2. /\ ~packets[r].last => Len(packets[r].data) = packets[r].limit
                /\ packets[r].last /\ ~FirstOf(r) => packets[r].data # <<>>
                /\ packets[r].limit > 0
            BY <5>1, Zenon DEF Packed, GoesOn
          <5>3. FirstOf(r)
            BY <3>1, <4>1, <5>2 DEF data
          <5>4. QED
            BY <1>6, <5>3
        <4>3. QED
          BY <1>7, <4>1, <4>2
      <3>2. CASE data # <<>>
        <4>1. Len(data) \in 1..Len(data)
          BY <1>5, <3>2, EmptySeq
        <4>2. QED
          BY <1>5, <1>8, <3>2, <4>1
      <3>3. QED
        BY <3>1, <3>2
    <2>5. got'[t] \o inBuffer'[t] = got[t] \o (inBuffer[t] \o data)
      BY <1>9, <1>10
    <2>6. got[t] \o (inBuffer[t] \o data) = held \o data
      <3>1. \A a, b, c \in Seq(Byte) : (a \o b) \o c = a \o (b \o c)
        BY ConcatAssociative
      <3>2. QED
        BY <1>5, <1>10, <3>1
    <2>7. QED
      BY <2>3, <2>4, <2>5, <2>6
  <1>16. \A i \in Messages : i # t => inBuffer'[i] = <<>>
    <2>1. incoming = 0 \/ incoming = t
      BY <1>2
    <2>2. 0 \notin Messages
      BY DEF Messages
    <2>3. QED
      BY <1>3, <1>9, <1>10, <2>1, <2>2
  <1>17. \A i \in Messages : i > t => got'[i] = <<>>
    BY <1>3, <1>4, <1>9, <1>11 DEF Messages
  <1>18. packets'[r].message = t /\ (packets'[r].last <=> last) /\ UpTo(r)' = UpTo(r)
    BY <1>1, <1>9 DEF UpTo, last
  <1>19. QED
    BY <1>2, <1>9, <1>11, <1>12, <1>13, <1>15, <1>16, <1>17, <1>18 DEF Received

\* The packet that was processed last
LEMMA ReceivedTyped ==
  ASSUME Typed, NEW q \in 0..piped
  PROVE  q # 0 => /\ q \in 1..Len(packets) /\ packets[q].message \in Messages
                  /\ packets[q].message \in Nat /\ packets[q].message # 0 /\ UpTo(q) \in Nat
  <1>1. q # 0 => q \in 1..Len(packets)
    BY LenProperties DEF Typed, TypeOK
  <1>2. QED
    BY <1>1, PacketTyped, SizeAssumption DEF Messages

\* The consumer reads the message that is received.
LEMMA ReadReceived ==
  ASSUME Typed, NEW q \in 0..piped, Received(q), NEW m \in Messages, ReadData(m)
  PROVE  /\ m = incoming /\ q # 0 /\ m = packets[q].message /\ over = 1..(m - 1)
         /\ got'[m] = [k \in 1..UpTo(q) |-> k] /\ got' = [got EXCEPT ![m] = got'[m]]
         /\ Received(q)'
  <1>1. /\ inBuffer[m] # <<>> /\ got' = [got EXCEPT ![m] = @ \o inBuffer[m]]
        /\ inBuffer' = [inBuffer EXCEPT ![m] = <<>>] /\ UNCHANGED <<packets, incoming, complete, over>>
        /\ waiting' = AfterDrain
    BY DEF ReadData, outVars
  <1>2. /\ inBuffer \in [Messages -> Seq(Byte)] /\ got \in [Messages -> Seq(Byte)] /\ 0 \notin Messages
    BY TypedByParts DEF InTyped, Messages
  <1> DEFINE x == IF q = 0 THEN 0 ELSE packets[q].message
             whole == q = 0 \/ packets[q].last
             bytes == IF q = 0 THEN 0 ELSE UpTo(q)
  <1>3. /\ complete = IF whole THEN 1..x ELSE 1..(x - 1)
        /\ incoming = x \/ (incoming = 0 /\ whole)
        /\ over = IF incoming = 0 THEN 1..x ELSE 1..(x - 1)
        /\ waiting = "end" <=> whole /\ incoming # 0
        /\ x # 0 => got[x] \o inBuffer[x] = [k \in 1..bytes |-> k]
        /\ \A i \in Messages : i # incoming => inBuffer[i] = <<>>
        /\ \A i \in Messages : i > x => got[i] = <<>>
    BY Zenon DEF Received
  <1>4. m = incoming /\ m = x /\ m # 0
    BY <1>1, <1>2, <1>3
  <1>5. q # 0 /\ m = packets[q].message /\ bytes = UpTo(q)
    BY <1>4
  <1>6. got'[m] = [k \in 1..bytes |-> k] /\ inBuffer'[m] = <<>>
    BY <1>1, <1>2, <1>3, <1>4
  <1>7. got'[m] \o inBuffer'[m] = [k \in 1..bytes |-> k]
    <2>1. got[m] \o inBuffer[m] \in Seq(Byte)
      <3>1. got[m] \in Seq(Byte) /\ inBuffer[m] \in Seq(Byte)
        BY <1>2
      <3>2. QED
        BY <3>1, ConcatProperties
    <2>2. got'[m] \in Seq(Byte)
      BY <1>1, <1>2, <2>1
    <2>3. got'[m] \o <<>> = got'[m]
      BY <2>2, ConcatEmptySeq
    <2>4. QED
      BY <1>6, <2>3
  <1>8. waiting' = "end" <=> waiting = "end"
    BY <1>1 DEF AfterDrain
  <1>9. \A i \in Messages : i # m => got'[i] = got[i] /\ inBuffer'[i] = inBuffer[i]
    BY <1>1, <1>2
  <1>10. m \in Nat
    BY DEF Messages
  <1>11. over = 1..(m - 1)
    BY <1>3, <1>4
  <1>12. Received(q)'
    <2>1. x' = x /\ (whole' <=> whole) /\ bytes' = bytes
      BY <1>1 DEF UpTo
    <2> HIDE DEF x, whole, bytes
    <2>2. /\ complete' = IF whole' THEN 1..x' ELSE 1..(x' - 1)
          /\ incoming' = x' \/ (incoming' = 0 /\ whole')
          /\ over' = IF incoming' = 0 THEN 1..x' ELSE 1..(x' - 1)
          /\ waiting' = "end" <=> whole' /\ incoming' # 0
          /\ x' # 0 => got'[x'] \o inBuffer'[x'] = [k \in 1..bytes' |-> k]
      BY <1>1, <1>3, <1>4, <1>7, <1>8, <2>1
    <2>3. \A i \in Messages : i # incoming' => inBuffer'[i] = <<>>
      BY <1>1, <1>3, <1>4, <1>9
    <2>4. \A i \in Messages : i > x' => got'[i] = <<>>
      <3>1. \A i \in Messages : i > x => i # m
        BY <1>4, <1>10 DEF Messages
      <3>2. QED
        BY <1>3, <1>9, <2>1, <3>1
    <2>5. QED
      BY <2>2, <2>3, <2>4, Zenon DEF Received, x, whole, bytes
  <1>13. got' = [got EXCEPT ![m] = got'[m]]
    BY <1>1, <1>2
  <1>14. QED
    BY <1>4, <1>5, <1>6, <1>11, <1>12, <1>13

\* The message that is received ends.
LEMMA EndReceived ==
  ASSUME Typed, NEW q \in 0..piped, Received(q), NEW m \in Messages, IncomingEnd(m)
  PROVE  /\ q # 0 /\ m = packets[q].message /\ packets[q].last /\ over = 1..(m - 1)
         /\ got[m] = [k \in 1..UpTo(q) |-> k]
         /\ Received(q)'
  <1>1. /\ m \in complete \ over /\ inBuffer[m] = <<>> /\ over' = over \cup {m} /\ incoming' = 0
        /\ UNCHANGED <<packets, inBuffer, got, complete>>
        /\ waiting' = IF waiting = "end" THEN "busy" ELSE waiting
    BY DEF IncomingEnd, outVars
  <1>2. /\ inBuffer \in [Messages -> Seq(Byte)] /\ got \in [Messages -> Seq(Byte)] /\ 0 \notin Messages
        /\ m \in Nat
    BY TypedByParts DEF InTyped, Messages
  <1> DEFINE x == IF q = 0 THEN 0 ELSE packets[q].message
             whole == q = 0 \/ packets[q].last
             bytes == IF q = 0 THEN 0 ELSE UpTo(q)
  <1>3. /\ complete = IF whole THEN 1..x ELSE 1..(x - 1)
        /\ incoming = x \/ (incoming = 0 /\ whole)
        /\ over = IF incoming = 0 THEN 1..x ELSE 1..(x - 1)
        /\ waiting = "end" <=> whole /\ incoming # 0
        /\ x # 0 => got[x] \o inBuffer[x] = [k \in 1..bytes |-> k]
        /\ \A i \in Messages : i # incoming => inBuffer[i] = <<>>
        /\ \A i \in Messages : i > x => got[i] = <<>>
    BY Zenon DEF Received
  <1>4. x \in Nat
    BY ReceivedTyped
  <1>5. q # 0 => packets[q].last = whole
    <2>1. q # 0 => packets[q] \in Packets
      BY ReceivedTyped, PacketTyped
    <2>2. q # 0 => packets[q].last \in BOOLEAN
      BY <2>1 DEF Packets
    <2>3. QED
      BY <2>2
  <1> DEFINE same == x' = x /\ (whole' <=> whole) /\ bytes' = bytes
  <1>6. same
    BY <1>1 DEF UpTo
  <1>7. x # 0 => q # 0 /\ x = packets[q].message /\ bytes = UpTo(q)
    OBVIOUS
  <1> HIDE DEF x, whole, bytes
  <1>8. m = x /\ whole /\ incoming # 0
    <2>1. incoming # 0
      BY <1>1, <1>3
    <2>2. over = 1..(x - 1) /\ incoming = x
      BY <1>3, <2>1
    <2>3. ~whole => complete = over
      BY <1>3, <2>2
    <2>4. whole
      BY <1>1, <2>3
    <2>5. m \in 1..x /\ m \notin 1..(x - 1)
      BY <1>1, <1>3, <2>2, <2>4
    <2>6. QED
      BY <1>4, <2>1, <2>4, <2>5
  <1>9. q # 0 /\ m = packets[q].message /\ packets[q].last /\ bytes = UpTo(q)
    BY <1>2, <1>5, <1>7, <1>8
  <1>10. over = 1..(m - 1) /\ over' = 1..m
    <2>1. over = 1..(m - 1)
      BY <1>3, <1>8
    <2>2. 1..m = 1..(m - 1) \cup {m}
      BY <1>2, <1>8, <1>4
    <2>3. QED
      BY <1>1, <2>1, <2>2
  <1>11. got[m] = [k \in 1..bytes |-> k]
    <2>1. got[m] \o <<>> = got[m]
      BY <1>2, ConcatEmptySeq
    <2>2. QED
      BY <1>1, <1>2, <1>3, <1>8, <2>1
  <1>12. waiting' # "end"
    BY <1>1
  <1>13. Received(q)'
    <2>1. /\ complete' = IF whole' THEN 1..x' ELSE 1..(x' - 1)
          /\ incoming' = x' \/ (incoming' = 0 /\ whole')
          /\ over' = IF incoming' = 0 THEN 1..x' ELSE 1..(x' - 1)
          /\ waiting' = "end" <=> whole' /\ incoming' # 0
          /\ x' # 0 => got'[x'] \o inBuffer'[x'] = [k \in 1..bytes' |-> k]
      BY <1>1, <1>3, <1>6, <1>8, <1>10, <1>12
    <2>2. \A i \in Messages : i # incoming' => inBuffer'[i] = <<>>
      BY <1>1, <1>3, <1>8
    <2>3. \A i \in Messages : i > x' => got'[i] = <<>>
      BY <1>1, <1>3, <1>6
    <2>4. QED
      BY <2>1, <2>2, <2>3, Zenon DEF Received, x, whole, bytes
  <1>14. QED
    BY <1>9, <1>10, <1>11, <1>13

LEMMA NextIn ==
  ASSUME Typed, TurnInv, CurrentInv, PacketsInv, WellPacked, InInv, [Next]_vars
  PROVE  InInv'
  <1>1. packets \in Seq(Packets) /\ (packets' = packets => Extended)
    BY LenProperties DEF Typed, Extended
  <1>2. CASE UNCHANGED <<packets, piped, wire, inVars>>
    BY <1>1, <1>2, InKept DEF inVars
  <1>3. CASE \/ \E m \in Messages : WriteData(m) \/ EndMessage(m) \/ IgnoreMessage(m) \/ Write(m)
             \/ \E s \in PacketSizes : PacketSize(s)
             \/ UNCHANGED vars
    BY <1>2, <1>3 DEF WriteData, EndMessage, IgnoreMessage, Write, PacketSize, vars, outVars
  <1>4. CASE \E n \in 1..MaxBytes : MessageData(n)
    <2>1. PICK n \in 1..MaxBytes : MessageData(n)
      BY <1>4
    <2>2. PICK total \in Nat, full \in Nat : DataStepped(total, full)
      BY <2>1, DataStep
    <2>3. UNCHANGED <<piped, wire, inVars>>
      BY <2>1 DEF MessageData
    <2>4. QED
      BY <2>2, <2>3, InKept DEF DataStepped, inVars
  <1>5. CASE MessageEnd
    <2>1. PICK j \in Nat : j = Len(packets) + 1
      BY <1>1, LenProperties
    <2>2. Extended
      BY <1>5, <2>1, EndedPacket
    <2>3. UNCHANGED <<piped, wire, inVars>>
      BY <1>5 DEF MessageEnd
    <2>4. QED
      BY <2>2, <2>3, InKept DEF inVars
  <1>6. CASE \E broken \in BOOLEAN : Pipe(broken)
    BY <1>6, PipeIn
  <1>7. CASE \E n \in 1..Len(wire) : Transform(n)
    <2>1. PICK n \in 1..Len(wire) : Transform(n)
      BY <1>7
    <2>2. chunks' \o wire' = chunks \o wire
      BY <2>1, Arrived
    <2>3. /\ UNCHANGED <<packets, piped, incoming, inBuffer, got, complete, over>>
          /\ waiting = "chunk" /\ waiting' = "busy"
      BY <2>1 DEF Transform, outVars
    <2>4. QED
      BY <1>1, <2>2, <2>3, InKept
  <1>8. CASE CallBack
    <2>1. /\ UNCHANGED <<packets, piped, wire, chunks, incoming, inBuffer, got, complete, over>>
          /\ waiting = "busy" /\ waiting' # "end"
      BY <1>8 DEF CallBack, outVars
    <2>2. QED
      BY <1>1, <2>1, InKept
  <1>9. CASE ProcessPacket \/ \E m \in Messages : ReadData(m) \/ IncomingEnd(m)
    <2>1. PICK q \in 0..piped :
             \E off \in [q..piped -> Nat] : Framed(chunks \o wire, q, off) /\ Received(q)
      BY DEF InInv
    <2>2. PICK off \in [q..piped -> Nat] : Framed(chunks \o wire, q, off) /\ Received(q)
      BY <2>1
    <2>3. CASE ProcessPacket
      <3>1. PICK r \in Nat : r = q + 1
        BY DEF Typed
      <3>2. Due(q)
        BY <2>2, <2>3, PacketDue
      <3>3. \E ends \in [r..piped -> Nat] : Framed(chunks \o wire, r, ends)'
        BY <2>2, <2>3, <3>1, <3>2, ProcessFramed
      <3>4. Received(r)'
        BY <2>2, <2>3, <3>1, <3>2, ProcessReceived
      <3>5. piped' = piped /\ r \in 0..piped
        BY <2>3, <3>1, <3>2 DEF ProcessPacket, outVars, Due
      <3>6. QED
        BY <3>3, <3>4, <3>5, Zenon DEF InInv
    <2>4. CASE \E m \in Messages : ReadData(m) \/ IncomingEnd(m)
      <3>1. PICK m \in Messages : ReadData(m) \/ IncomingEnd(m)
        BY <2>4
      <3>2. UNCHANGED <<packets, piped, chunks, wire>>
        BY <3>1 DEF ReadData, IncomingEnd, outVars
      <3>3. Framed(chunks \o wire, q, off)'
        BY <1>1, <2>2, <3>2, SameFramed
      <3>4. Received(q)'
        BY <2>2, <3>1, ReadReceived, EndReceived
      <3>5. QED
        BY <3>2, <3>3, <3>4, Zenon DEF InInv
    <2>5. QED
      BY <1>9, <2>3, <2>4
  <1>10. QED
    BY <1>3, <1>4, <1>5, <1>6, <1>7, <1>8, <1>9 DEF Next, Outgoing

-----------------------------------------------------------------------------
(* The invariant *)

FramingInv == Typed /\ OutInv /\ InInv

LEMMA FramingInit == Init => FramingInv
  <1> SUFFICES ASSUME Init
               PROVE  FramingInv
    OBVIOUS
  <1>1. /\ packets = <<>> /\ piped = 0 /\ bl = <<>> /\ wire = <<>> /\ chunks = <<>>
        /\ currentMessage = 0 /\ incoming = 0 /\ complete = {} /\ over = {} /\ ended = {} /\ ignore = {}
        /\ length = 0 /\ packetNumber = 0 /\ paused = FALSE /\ waiting = "chunk"
        /\ written = [m \in Messages |-> 0] /\ emitted = [m \in Messages |-> 0]
        /\ inBuffer = [m \in Messages |-> <<>>] /\ got = [m \in Messages |-> <<>>]
        /\ packetSize \in PacketSizes
    BY DEF Init
  <1>2. packets \in Seq(Packets) /\ Len(packets) = 0 /\ MaxBytes \in Nat /\ 0 \notin Messages
    BY <1>1, SizeAssumption DEF Messages
  <1>3. Typed
    <2>1. OutTyped
      <3>1. [m \in Messages |-> 0] \in [Messages -> 0..MaxBytes] /\ 0 \in 0..Len(packets)
        BY <1>2
      <3>2. bl \in Seq(Byte)
        BY <1>1
      <3>3. QED
        BY <1>1, <1>2, <3>1, <3>2 DEF OutTyped
    <2>2. InTyped
      BY <1>1 DEF InTyped, Waits
    <2>3. QED
      BY <2>1, <2>2, TypedByParts
  <1>4. Sent = {} /\ Latest = 0
    <2>1. \A k : k \notin DOMAIN packets
      BY <1>1
    <2>2. QED
      BY <1>1, <2>1 DEF Sent, Latest
  <1>5. TurnInv
    BY <1>1, <1>2, <1>4 DEF TurnInv
  <1>6. CurrentInv
    BY <1>1 DEF CurrentInv
  <1>7. PacketsInv /\ WellPacked
    <2>1. \A j : j \notin 1..Len(packets)
      BY <1>2
    <2>2. QED
      BY <1>2, <2>1, PackedByParts DEF PacketsInv
  <1>8. EmittedInv
    BY <1>1 DEF EmittedInv
  <1>9. InInv
    <2>1. Received(0)
      BY <1>1, <1>2 DEF Received
    <2>2. PICK off \in [0..0 -> Nat] : off[0] = 0
      <3> DEFINE new == [i \in 0..0 |-> 0]
      <3>1. new \in [0..0 -> Nat] /\ new[0] = 0
        OBVIOUS
      <3>2. QED
        BY <3>1
    <2>3. Len(chunks \o wire) = 0
      BY <1>1
    <2>4. Framed(chunks \o wire, 0, off)
      BY <1>1, <2>2, <2>3 DEF Framed
    <2>5. QED
      BY <1>1, <2>1, <2>4 DEF InInv
  <1>10. QED
    BY <1>3, <1>5, <1>6, <1>7, <1>8, <1>9 DEF FramingInv, OutInv

LEMMA FramingNext == FramingInv /\ [Next]_vars => FramingInv'
  <1> SUFFICES ASSUME FramingInv, [Next]_vars
               PROVE  FramingInv'
    OBVIOUS
  <1>1. Typed /\ TurnInv /\ CurrentInv /\ PacketsInv /\ WellPacked /\ EmittedInv /\ InInv
    BY DEF FramingInv, OutInv
  <1>2. Typed'
    <2>1. OutTyped' /\ InTyped'
      BY <1>1, NextOutTyped, NextInTyped
    <2>2. OutTyped' /\ InTyped' => Typed'
      BY TypedByParts, PTL
    <2>3. QED
      BY <2>1, <2>2
  <1>3. TurnInv' /\ CurrentInv'
    BY <1>1, NextTurn, NextCurrent
  <1>4. PacketsInv' /\ WellPacked' /\ EmittedInv'
    BY <1>1, NextPackets, NextEmitted
  <1>5. InInv'
    BY <1>1, NextIn
  <1>6. QED
    BY <1>2, <1>3, <1>4, <1>5 DEF FramingInv, OutInv

LEMMA FramingInvariant == Spec => []FramingInv
  BY FramingInit, FramingNext, PTL DEF Spec

-----------------------------------------------------------------------------
(* Theorems *)

\* Bytes are numbers of bytes of the message, and messages those submitted, however the
\* streams pause, split and put together.
THEOREM TypeCorrect == Spec => []TypeOK
  <1>1. FramingInv => TypeOK
    BY DEF FramingInv, Typed
  <1>2. QED
    BY <1>1, FramingInvariant, PTL

\* The packets that OutgoingMessageStream pushes are well formed: consecutive, numbered,
\* full but the last, and of one size for the whole message.
THEOREM PacketsWellFormed == Spec => []WellPacked
  <1>1. FramingInv => WellPacked
    BY DEF FramingInv, OutInv
  <1>2. QED
    BY <1>1, FramingInvariant, PTL

\* The bytes in the packets of a message, from the first on
LEMMA BytesInPackets ==
  ASSUME Typed, PacketsInv, NEW m \in Messages
  PROVE  BytesOf(m) \subseteq 1..emitted[m]
  <1>1. SUFFICES ASSUME NEW i \in BytesOf(m)
                 PROVE  i \in 1..emitted[m]
    OBVIOUS
  <1>2. PICK j \in DOMAIN packets :
           packets[j].message = m /\ \E d \in DOMAIN packets[j].data : packets[j].data[d] = i
    BY DEF BytesOf
  <1>3. j \in 1..Len(packets)
    BY DEF Typed
  <1>4. /\ packets[j].data \in Seq(Byte) /\ Len(packets[j].data) \in Nat
        /\ DOMAIN packets[j].data = 1..Len(packets[j].data)
    BY <1>3, PacketTyped
  <1>5. PICK d \in 1..Len(packets[j].data) : packets[j].data[d] = i
    BY <1>2, <1>4
  <1>6. UpTo(j) = packets[j].data[Len(packets[j].data)] /\ Len(packets[j].data) \in 1..Len(packets[j].data)
    BY <1>4, <1>5 DEF UpTo
  <1>7. /\ \A k \in 1..Len(packets[j].data) : packets[j].data[k] = Before(j) + k
        /\ UpTo(j) <= emitted[packets[j].message]
    <2>1. GoesOn(j)
      BY <1>3 DEF PacketsInv
    <2>2. QED
      BY <2>1, Zenon DEF GoesOn
  <1>8. Before(j) \in Nat
    <2>1. CASE FirstOf(j)
      BY <2>1 DEF Before
    <2>2. CASE ~FirstOf(j)
      <3>1. j - 1 \in 1..Len(packets)
        BY <1>3, <2>2 DEF FirstOf
      <3>2. QED
        BY <2>2, <3>1, PacketTyped, SizeAssumption DEF Before
    <2>3. QED
      BY <2>1, <2>2
  <1>9. i = Before(j) + d
    BY <1>5, <1>7
  <1>10. UpTo(j) = Before(j) + Len(packets[j].data)
    BY <1>6, <1>7
  <1>11. emitted[m] \in Nat /\ UpTo(j) <= emitted[m]
    <2>1. emitted[m] \in Nat
      BY SizeAssumption DEF Typed, TypeOK
    <2>2. QED
      BY <1>2, <1>7, <2>1
  <1>12. Before(j) + d <= Before(j) + Len(packets[j].data) /\ 1 <= Before(j) + d
    BY <1>4, <1>8
  <1>13. QED
    BY <1>4, <1>8, <1>9, <1>10, <1>11, <1>12

\* A message of which not all bytes are in packets bears the ignore bit in its last one:
\* a server never takes a message that was cut short for a complete one.
THEOREM CutShortIsMarked == Spec => []TruncatedIsMarked
  <1>1. FramingInv => TruncatedIsMarked
    <2> SUFFICES ASSUME FramingInv, NEW j \in DOMAIN packets, packets[j].last, ~packets[j].ignore
                 PROVE  BytesOf(packets[j].message) = 1..written[packets[j].message]
      BY DEF TruncatedIsMarked
    <2>1. Typed /\ TurnInv /\ PacketsInv /\ EmittedInv
      BY DEF FramingInv, OutInv
    <2>2. j \in 1..Len(packets)
      BY <2>1 DEF Typed
    <2>3. PICK m \in Messages : m = packets[j].message
      BY <2>1, <2>2, PacketTyped
    <2>4. m \in Sent /\ m \notin ignore
      <3>1. GoesOn(j)
        BY <2>1, <2>2 DEF PacketsInv
      <3>2. QED
        BY <2>3, <3>1, Zenon DEF GoesOn
    <2>5. m # currentMessage /\ emitted[m] = written[m]
      <3>1. currentMessage \in Nat /\ m \in Nat /\ m # 0
        BY <2>1, SizeAssumption DEF Typed, TypeOK, Messages
      <3>2. QED
        BY <2>1, <2>4, <3>1 DEF TurnInv
    <2>6. 1..emitted[m] \subseteq BytesOf(m)
      BY <2>1, <2>4, <2>5 DEF EmittedInv
    <2>7. QED
      BY <2>1, <2>3, <2>5, <2>6, BytesInPackets
  <1>2. QED
    BY <1>1, FramingInvariant, PTL

-----------------------------------------------------------------------------
(* The streams implement the channel *)

\* What the consumer is given are bytes written to the message whose turn it is.
LEMMA ReadDelivers ==
  ASSUME FramingInv, NEW m \in Messages, ReadData(m)
  PROVE  Channel!Deliver(m)
  <1>1. Typed /\ TurnInv /\ PacketsInv /\ InInv
    BY DEF FramingInv, OutInv
  <1>2. PICK q \in 0..piped :
           \E off \in [q..piped -> Nat] : Framed(chunks \o wire, q, off) /\ Received(q)
    BY <1>1 DEF InInv
  <1>3. /\ q # 0 /\ m = packets[q].message /\ over = 1..(m - 1)
        /\ got'[m] = [k \in 1..UpTo(q) |-> k] /\ got' = [got EXCEPT ![m] = got'[m]]
    BY <1>1, <1>2, ReadReceived
  <1>4. UNCHANGED <<written, ended, ignore, over>>
    BY DEF ReadData, outVars
  <1>5. Channel!Before(m) \subseteq over /\ m \notin over
    BY <1>3 DEF Channel!Before, Messages
  <1>6. UpTo(q) \in Nat /\ UpTo(q) <= written[m] /\ written[m] \in Nat
    <2>1. q \in 1..Len(packets) /\ UpTo(q) \in Nat
      BY <1>1, <1>3, ReceivedTyped
    <2>2. UpTo(q) <= emitted[m]
      <3>1. GoesOn(q)
        BY <1>1, <2>1 DEF PacketsInv
      <3>2. QED
        BY <1>3, <3>1, Zenon DEF GoesOn
    <2>3. emitted[m] <= written[m] /\ emitted[m] \in Nat /\ written[m] \in Nat
      BY <1>1, SizeAssumption DEF TurnInv, Typed, TypeOK
    <2>4. QED
      BY <2>1, <2>2, <2>3
  <1>7. Len(got[m]) <= UpTo(q) /\ Len(got[m]) \in Nat
    <2>1. got \in [Messages -> Seq(Byte)] /\ inBuffer \in [Messages -> Seq(Byte)]
      BY <1>1, TypedByParts DEF InTyped
    <2>2. got[m] \in Seq(Byte) /\ inBuffer[m] \in Seq(Byte)
      BY <2>1
    <2>3. got'[m] = got[m] \o inBuffer[m]
      BY <2>1 DEF ReadData
    <2>4. Len(got'[m]) = Len(got[m]) + Len(inBuffer[m]) /\ Len(got[m]) \in Nat /\ Len(inBuffer[m]) \in Nat
      BY <2>2, <2>3, ConcatProperties, LenProperties
    <2>5. Len(got'[m]) = UpTo(q)
      <3>1. PICK n \in Nat : n = UpTo(q)
        BY <1>6
      <3>2. Len([k \in 1..n |-> k]) = n
        OBVIOUS
      <3>3. QED
        BY <1>3, <3>1, <3>2
    <2>6. UpTo(q) = Len(got[m]) + Len(inBuffer[m])
      BY <2>4, <2>5
    <2>7. PICK a, b \in Nat : a = Len(got[m]) /\ b = Len(inBuffer[m])
      BY <2>4
    <2>8. UpTo(q) = a + b
      BY <2>6, <2>7, Zenon
    <2>9. a <= UpTo(q)
      <3>1. a <= a + b
        OBVIOUS
      <3>2. QED
        BY <2>8, <3>1, Zenon
    <2>10. Len(got[m]) <= UpTo(q)
      BY <2>7, <2>9, Zenon
    <2>11. QED
      BY <2>4, <2>10, Zenon
  <1>8. UpTo(q) \in Len(got[m])..written[m]
    BY <1>6, <1>7
  <1>9. got' = [got EXCEPT ![m] = [k \in 1..UpTo(q) |-> k]]
    BY <1>3
  <1>10. QED
    BY <1>4, <1>5, <1>8, <1>9 DEF Channel!Deliver

\* A message is over when all its bytes were read, or those sent before it was ignored.
LEMMA EndFinishes ==
  ASSUME FramingInv, NEW m \in Messages, IncomingEnd(m)
  PROVE  Channel!Finish(m)
  <1>1. Typed /\ TurnInv /\ PacketsInv /\ InInv
    BY DEF FramingInv, OutInv
  <1>2. PICK q \in 0..piped :
           \E off \in [q..piped -> Nat] : Framed(chunks \o wire, q, off) /\ Received(q)
    BY <1>1 DEF InInv
  <1>3. /\ q # 0 /\ m = packets[q].message /\ packets[q].last /\ over = 1..(m - 1)
        /\ got[m] = [k \in 1..UpTo(q) |-> k]
    BY <1>1, <1>2, EndReceived
  <1>4. UNCHANGED <<written, ended, ignore, got>> /\ over' = over \cup {m}
    BY DEF IncomingEnd, outVars
  <1>5. q \in 1..Len(packets) /\ UpTo(q) \in Nat
    BY <1>1, <1>3, ReceivedTyped
  <1>6. m \in Sent /\ (m \notin ignore => UpTo(q) = written[m])
    <2>1. GoesOn(q)
      BY <1>1, <1>5 DEF PacketsInv
    <2>2. QED
      BY <1>3, <2>1, Zenon DEF GoesOn
  <1>7. Len(got[m]) = UpTo(q)
    <2>1. PICK n \in Nat : n = UpTo(q)
      BY <1>5
    <2>2. Len([k \in 1..n |-> k]) = n
      OBVIOUS
    <2>3. QED
      BY <1>3, <2>1, <2>2
  <1>8. m \in ended
    <2>1. Sent \subseteq ended
      BY <1>1 DEF TurnInv
    <2>2. QED
      BY <1>6, <2>1
  <1>9. Channel!Before(m) \subseteq over
    <2>1. over = 1..(m - 1)
      BY <1>3
    <2>2. QED
      BY <2>1 DEF Channel!Before, Messages
  <1>10. QED
    BY <1>4, <1>6, <1>7, <1>8, <1>9 DEF Channel!Finish

\* A message can no longer be ignored when it was handed over.
LEMMA IgnoreInTime ==
  ASSUME FramingInv, NEW m \in Messages, IgnoreMessage(m)
  PROVE  Channel!Ignore(m)
  <1>1. Typed /\ PacketsInv /\ InInv
    BY DEF FramingInv, OutInv
  <1>2. PICK q \in 0..piped :
           \E off \in [q..piped -> Nat] : Framed(chunks \o wire, q, off) /\ Received(q)
    BY <1>1 DEF InInv
  <1>3. m \notin Sent /\ ignore' = ignore \cup {m} /\ ended' = ended \cup {m}
        /\ UNCHANGED <<written, got, over>>
    BY DEF IgnoreMessage, inVars
  <1>4. over \subseteq Sent
    <2>1. CASE q = 0
      <3>1. over = 1..0 \/ over = 1..(0 - 1)
        BY <1>2, <2>1 DEF Received
      <3>2. QED
        BY <3>1
    <2>2. CASE q # 0
      <3>1. q \in 1..Len(packets) /\ packets[q].message \in Nat
        BY <1>1, <2>2, ReceivedTyped
      <3>2. 1..(packets[q].message - 1) \subseteq Sent /\ (packets[q].last => packets[q].message \in Sent)
        <4>1. GoesOn(q)
          BY <1>1, <3>1 DEF PacketsInv
        <4>2. QED
          BY <4>1, Zenon DEF GoesOn
      <3>3. /\ over = IF incoming = 0 THEN 1..packets[q].message ELSE 1..(packets[q].message - 1)
            /\ incoming = 0 => packets[q].message = 0 \/ packets[q].last
        BY <1>2, <2>2 DEF Received
      <3>4. QED
        BY <3>1, <3>2, <3>3
    <2>3. QED
      BY <2>1, <2>2
  <1>5. QED
    BY <1>3, <1>4 DEF Channel!Ignore

LEMMA StepImplements ==
  ASSUME FramingInv, [Next]_vars
  PROVE  [Channel!Next]_(Channel!vars)
  <1>1. CASE UNCHANGED <<written, ended, ignore, got, over>>
    BY <1>1 DEF Channel!vars
  <1>2. CASE \E m \in Messages : WriteData(m)
    <2>1. PICK m \in Messages : WriteData(m)
      BY <1>2
    <2>2. Channel!Write(m)
      BY <2>1 DEF WriteData, Channel!Write, inVars
    <2>3. QED
      BY <2>2 DEF Channel!Next
  <1>3. CASE \E m \in Messages : EndMessage(m)
    <2>1. PICK m \in Messages : EndMessage(m)
      BY <1>3
    <2>2. Channel!End(m)
      BY <2>1 DEF EndMessage, Channel!End, inVars
    <2>3. QED
      BY <2>2 DEF Channel!Next
  <1>4. CASE \E m \in Messages : IgnoreMessage(m)
    BY <1>4, IgnoreInTime DEF Channel!Next
  <1>5. CASE \E m \in Messages : ReadData(m) \/ IncomingEnd(m)
    BY <1>5, ReadDelivers, EndFinishes DEF Channel!Next
  <1>6. CASE (\E s \in PacketSizes : PacketSize(s)) \/ Outgoing \/ (\E broken \in BOOLEAN : Pipe(broken))
    BY <1>1, <1>6 DEF PacketSize, Outgoing, Write, MessageData, MessageEnd, Pipe, inVars
  <1>7. CASE (\E n \in 1..Len(wire) : Transform(n)) \/ CallBack \/ ProcessPacket \/ UNCHANGED vars
    BY <1>1, <1>7 DEF Transform, CallBack, ProcessPacket, vars, outVars, inVars
  <1>8. QED
    BY <1>2, <1>3, <1>4, <1>5, <1>6, <1>7 DEF Next

\* However messages are written, split into packets, delayed on the wire, cut into chunks
\* and read, the consumer gets them one at a time, in order, each with the bytes that were
\* written to it: the outgoing and the incoming stream implement MessageChannel.
THEOREM Implementation == Spec => ImplementsChannel
  <1>1. Init => Channel!Init
    BY DEF Init, Channel!Init
  <1>2. FramingInv /\ [Next]_vars => [Channel!Next]_(Channel!vars)
    BY StepImplements
  <1>3. QED
    BY <1>1, <1>2, FramingInvariant, PTL DEF Spec, ImplementsChannel, Channel!Spec

=============================================================================
