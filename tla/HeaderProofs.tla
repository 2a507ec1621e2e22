---------------------------- MODULE HeaderProofs -----------------------------
(* Theorems about the headers of the stack, for messages of any content: a  *)
(* message that carries its checksum is accepted exactly if adding the      *)
(* carry brings no second one; the ARP layer yields the sender of a reply   *)
(* to this device and of nothing else; the IP layer hands up what the       *)
(* sender put behind its header, whatever the options and the padding.      *)
EXTENDS ProtocolHeaders, FormatProofs

-----------------------------------------------------------------------------
(* The checksum in its place in the message.                                *)

LEMMA ByteRange == \A v \in Byte : v \in Nat /\ v <= 255
BY DEF Byte

LEMMA FieldWritten ==
    ASSUME NEW b \in Seq(Byte), NEW n \in Nat, n + 2 <= Len(b),
           NEW x \in Byte, NEW y \in Byte, NEW a,
           a = [b EXCEPT ![n + 1] = x, ![n + 2] = y]
    PROVE  /\ a \in Seq(Byte) /\ Len(a) = Len(b)
           /\ a[n + 1] = x /\ a[n + 2] = y
           /\ \A i \in 1..Len(b) : i # n + 1 /\ i # n + 2 => a[i] = b[i]
<1>1. n + 1 \in 1..Len(b) /\ n + 2 \in 1..Len(b)
  OBVIOUS
<1> QED BY <1>1

(* Two bytes that were zero add their word to the sum.                      *)
LEMMA SumWithField ==
    ASSUME NEW a \in Seq(Byte), NEW b \in Seq(Byte), Len(a) = Len(b),
           NEW n \in Nat, n % 2 = 0, n + 2 <= Len(b), b[n + 1] = 0, b[n + 2] = 0,
           \A i \in 1..Len(b) : i # n + 1 /\ i # n + 2 => a[i] = b[i]
    PROVE  Sum16(a) = Sum16(b) + (256 * a[n + 1] + a[n + 2])
<1> DEFINE m == Len(b) + 1
           s == SumFrom(a)
           t == SumFrom(b)
           high(k) == IF k <= n + 1 THEN 256 * a[n + 1] ELSE 0
           low(k) == IF k <= n + 2 THEN a[n + 2] ELSE 0
           S == {k \in 1..m : s[k] = t[k] + (high(k) + low(k))}
<1>1. m \in Nat /\ 1..m = Positions(b) /\ 1..m = Positions(a) /\ Len(b) \in Nat
  BY DEF Positions
<1>2. /\ \A k \in 1..m : s[k] = SumStep(a, s, k) /\ t[k] = SumStep(b, t, k)
      /\ Sum16(a) = s[1] /\ Sum16(b) = t[1]
  BY <1>1, SumEquation
<1>3. \A k \in 1..m : t[k] \in Nat
  BY <1>1, SumRange
<1>4. a[n + 1] \in Nat /\ a[n + 2] \in Nat
  <2>1. n + 1 \in 1..Len(a) /\ n + 2 \in 1..Len(a)
    OBVIOUS
  <2>2. a[n + 1] \in Byte /\ a[n + 2] \in Byte
    BY <2>1
  <2> QED BY <2>2, ByteRange
<1>5. /\ Term(a, n + 1) = 256 * a[n + 1] /\ Term(b, n + 1) = 0
      /\ Term(a, n + 2) = a[n + 2] /\ Term(b, n + 2) = 0
  <2>1. (n + 1) % 2 = 1 /\ (n + 2) % 2 = 0
    OBVIOUS
  <2> QED BY <1>4, <2>1 DEF Term
<1>6. ASSUME NEW k \in 1..Len(b), k # n + 1, k # n + 2 PROVE Term(a, k) = Term(b, k)
  BY <1>6 DEF Term
<1>7. \A k \in 1..Len(b) : Term(b, k) \in Nat
  BY TermRange
<1> HIDE DEF s, t, m
<1>8. ASSUME NEW k \in 1..m, \A q \in 1..m : q > k => q \in S PROVE k \in S
  <2>1. s[k] = SumStep(a, s, k) /\ t[k] = SumStep(b, t, k)
    BY <1>2
  <2>2. CASE k > Len(b)
    <3>1. s[k] = 0 /\ t[k] = 0
      BY <2>1, <2>2 DEF SumStep
    <3> QED BY <1>1, <2>2, <3>1
  <2>3. CASE ~(k > Len(b))
    <3>1. k \in 1..Len(b) /\ k + 1 \in 1..m /\ k + 1 > k
      BY <1>1, <2>3 DEF m
    <3>2. s[k] = Term(a, k) + s[k + 1] /\ t[k] = Term(b, k) + t[k + 1]
      BY <2>1, <2>3 DEF SumStep
    <3>3. s[k + 1] = t[k + 1] + (high(k + 1) + low(k + 1))
      BY <1>8, <3>1
    <3>4. Term(b, k) \in Nat /\ t[k + 1] \in Nat
      BY <1>3, <1>7, <3>1
    <3>5. CASE k = n + 1
      BY <1>4, <1>5, <3>2, <3>3, <3>4, <3>5
    <3>6. CASE k = n + 2
      BY <1>4, <1>5, <3>2, <3>3, <3>4, <3>6
    <3>7. CASE k # n + 1 /\ k # n + 2
      <4>1. Term(a, k) = Term(b, k)
        BY <1>6, <3>1, <3>7
      <4>2. high(k + 1) = high(k) /\ low(k + 1) = low(k)
        BY <3>1, <3>7
      <4>3. high(k) \in Nat /\ low(k) \in Nat
        BY <1>4
      <4> HIDE DEF high, low
      <4>4. s[k] = t[k] + (high(k) + low(k))
        BY <3>2, <3>3, <3>4, <4>1, <4>2, <4>3
      <4> QED BY <4>4
    <3> QED BY <3>5, <3>6, <3>7
  <2> QED BY <2>2, <2>3
<1>9. \A k \in 1..m : k \in S
  <2> HIDE DEF S
  <2> QED BY <1>1, <1>8, InductionFromEnd
<1>10. 1 \in 1..m /\ high(1) = 256 * a[n + 1] /\ low(1) = a[n + 2]
  BY <1>1 DEF m
<1>11. s[1] = t[1] + (high(1) + low(1))
  BY <1>9, <1>10
<1> QED BY <1>2, <1>10, <1>11

LEMMA ChecksumRange ==
    ASSUME NEW b \in Seq(Byte)
    PROVE  /\ checksum(b) \in Nat /\ checksum(b) < 65536
           /\ checksum(b) \div 256 \in Byte /\ checksum(b) % 256 \in Byte
           /\ 256 * (checksum(b) \div 256) + (checksum(b) % 256) = checksum(b)
<1>1. Carry(Sum16(b)) \in Nat
  <2>1. Sum16(b) \in Nat
    BY SumRange
  <2>2. Sum16(b) % 65536 \in Nat /\ Sum16(b) \div 65536 \in Nat
    BY <2>1
  <2> QED BY <2>2 DEF Carry
<1> DEFINE v == Carry(Sum16(b))
<1> HIDE DEF v
<1>2. v % 65536 \in Nat /\ v % 65536 < 65536
  <2>1. v \in Nat
    BY <1>1 DEF v
  <2> QED BY <2>1
<1>3. checksum(b) \in Nat /\ checksum(b) < 65536
  <2>1. checksum(b) = 65535 - (v % 65536)
    BY DEF checksum, v
  <2> QED BY <1>2, <2>1
<1> DEFINE c == checksum(b)
<1> HIDE DEF c
<1>4. c \in Nat /\ c < 65536
  BY <1>3 DEF c
<1>5. c \div 256 \in 0..255 /\ c % 256 \in 0..255 /\ 256 * (c \div 256) + (c % 256) = c
  BY <1>4
<1> QED BY <1>3, <1>5 DEF c, Byte

(* The receiver of an IP header or an ICMP message adds up its words, the   *)
(* checksum among them.  It accepts what the stack sends exactly if one     *)
(* carry was enough for the words without it.                               *)
THEOREM MessageIsAccepted ==
    ASSUME NEW b \in Seq(Byte), Len(b) < 65536,
           NEW n \in Nat, n % 2 = 0, n + 2 <= Len(b), b[n + 1] = 0, b[n + 2] = 0
    PROVE  Carry(Carry(Sum16(with_checksum(b, n)))) = 65535 <=> Carry(Sum16(b)) < 65536
<1> DEFINE x == checksum(b) \div 256
           y == checksum(b) % 256
           a == with_checksum(b, n)
<1>1. x \in Byte /\ y \in Byte /\ 256 * x + y = checksum(b)
  BY ChecksumRange
<1>2. a = [b EXCEPT ![n + 1] = x, ![n + 2] = y]
  BY DEF with_checksum
<1> HIDE DEF a, x, y
<1>3. /\ a \in Seq(Byte) /\ Len(a) = Len(b) /\ a[n + 1] = x /\ a[n + 2] = y
      /\ \A i \in 1..Len(b) : i # n + 1 /\ i # n + 2 => a[i] = b[i]
  BY <1>1, <1>2, FieldWritten
<1>4. Sum16(a) = Sum16(b) + checksum(b)
  BY <1>1, <1>3, SumWithField
<1> QED BY <1>4, ChecksumIsAccepted DEF a

-----------------------------------------------------------------------------
(* The ARP layer.                                                           *)

(* analyseARPMsg takes addresses from a captured message exactly if it is   *)
(* complete, a reply, and meant for this device; they are its sender's.     *)
(* What is cut short before its end yields no address.                      *)
THEOREM OnlyRepliesToUs ==
    ASSUME NEW data \in Seq(Byte), NEW device_ip \in Seq(Byte), Len(device_ip) = 4
    PROVE  IF /\ Len(data) >= 42
              /\ ntohs(data, ARP_OPCODE_START) = ARP_REPLY
              /\ Bytes(data, ARP_TARGET_IP_START, 4) = device_ip
           THEN analyseARPMsg(data, device_ip) =
                  [sender_mac |-> Bytes(data, ARP_SENDER_MAC_START, 6),
                   sender_ip  |-> Bytes(data, ARP_SENDER_IP_START, 4)]
           ELSE analyseARPMsg(data, device_ip) \in {null, raised}
<1> DEFINE differs == \E i \in 0..3 : /\ ARP_TARGET_IP_START + i < Len(data)
                                      /\ At(data, ARP_TARGET_IP_START + i) # device_ip[i + 1]
           addresses == [sender_mac |-> Bytes(data, ARP_SENDER_MAC_START, 6),
                         sender_ip  |-> Bytes(data, ARP_SENDER_IP_START, 4)]
<1>1. analyseARPMsg(data, device_ip) =
        IF Len(data) < ARP_SENDER_MAC_START THEN raised
        ELSE IF ntohs(data, ARP_OPCODE_START) # ARP_REPLY \/ differs THEN null
        ELSE IF Len(data) < ARP_TARGET_IP_START + 4 THEN raised
        ELSE addresses
  BY Zenon DEF analyseARPMsg
<1>2. ARP_SENDER_MAC_START = 22 /\ ARP_TARGET_IP_START = 38 /\ Len(data) \in Nat
  BY DEF ARP_SENDER_MAC_START, ARP_TARGET_IP_START
<1>3. ASSUME Len(data) >= 42
      PROVE  differs <=> Bytes(data, ARP_TARGET_IP_START, 4) # device_ip
  <2> DEFINE target == SubSeq(data, 39, 42)
  <2>1. Bytes(data, ARP_TARGET_IP_START, 4) = target
    BY <1>2 DEF Bytes
  <2>2. target \in Seq(Byte) /\ Len(target) = 4 /\ \A j \in 1..4 : target[j] = data[38 + j]
    BY <1>2, <1>3
  <2> HIDE DEF target
  <2>3. target = device_ip <=> \A j \in 1..4 : target[j] = device_ip[j]
    BY <2>2
  <2>4. differs <=> \E i \in 0..3 : data[39 + i] # device_ip[i + 1]
    BY <1>2, <1>3 DEF At
  <2>5. (\E i \in 0..3 : data[39 + i] # device_ip[i + 1])
          <=> \E j \in 1..4 : data[38 + j] # device_ip[j]
    OBVIOUS
  <2> QED BY <2>1, <2>2, <2>3, <2>4, <2>5
<1> HIDE DEF differs, addresses
<1>4. CASE Len(data) >= 42
  <2>1. ~(Len(data) < 22) /\ ~(Len(data) < 38 + 4)
    BY <1>2, <1>4
  <2> QED BY <1>1, <1>2, <1>3, <1>4, <2>1 DEF addresses
<1>5. CASE ~(Len(data) >= 42)
  <2>1. Len(data) < 38 + 4
    BY <1>2, <1>5
  <2> QED BY <1>1, <1>2, <1>5, <2>1
<1> QED BY <1>4, <1>5

-----------------------------------------------------------------------------
(* The IP layer.                                                            *)

(* A sequence that lies in b from offset m on.                              *)
LEMMA FoundAt ==
    ASSUME NEW b \in Seq(Byte), NEW x \in Seq(Byte), NEW m \in Nat, m + Len(x) <= Len(b),
           \A i \in 1..Len(x) : b[m + i] = x[i]
    PROVE  SubSeq(b, m + 1, m + Len(x)) = x
<1> DEFINE y == SubSeq(b, m + 1, m + Len(x))
<1>1. Len(x) \in Nat /\ Len(b) \in Nat
  OBVIOUS
<1>2. y \in Seq(Byte) /\ Len(y) = Len(x) /\ \A i \in 1..Len(x) : y[i] = b[m + i]
  BY <1>1
<1> HIDE DEF y
<1>3. y = x
  BY <1>2
<1> QED BY <1>3 DEF y

Concatenation(x, y, z) ==
    /\ z \in Seq(Byte) /\ Len(z) = Len(x) + Len(y)
    /\ \A i \in 1..Len(x) : z[i] = x[i]
    /\ \A i \in 1..Len(y) : z[Len(x) + i] = y[i]

LEMMA Joining ==
    ASSUME NEW x \in Seq(Byte), NEW y \in Seq(Byte)
    PROVE  Concatenation(x, y, x \o y)
<1>1. Len(x) \in Nat /\ Len(y) \in Nat
  OBVIOUS
<1>2. x \o y \in Seq(Byte) /\ Len(x \o y) = Len(x) + Len(y)
  OBVIOUS
<1>3. \A i \in 1..Len(x) : (x \o y)[i] = x[i]
  OBVIOUS
<1>4. \A i \in 1..Len(y) : (x \o y)[Len(x) + i] = y[i]
  BY <1>1
<1> QED BY <1>2, <1>3, <1>4, Zenon DEF Concatenation

(* A frame for the stack: an Ethernet header, an IP header, and what is     *)
(* behind them.                                                             *)
Carries(b, h, payload) ==
    /\ b \in Seq(Byte) /\ h \in Seq(Byte) /\ payload \in Seq(Byte)
    /\ 14 + Len(h) + Len(payload) <= Len(b)
    /\ \A i \in 1..Len(h) : b[14 + i] = h[i]
    /\ \A i \in 1..Len(payload) : b[14 + Len(h) + i] = payload[i]

LEMMA FrameOf ==
    ASSUME NEW e \in Seq(Byte), NEW h \in Seq(Byte), NEW payload \in Seq(Byte),
           NEW padding \in Seq(Byte), Len(e) = 14
    PROVE  Carries((e \o h) \o (payload \o padding), h, payload)
<1> DEFINE front == e \o h
           back == payload \o padding
           b == front \o back
<1>0. front = e \o h /\ back = payload \o padding /\ b = front \o back
  OBVIOUS
<1> HIDE DEF front, back, b
<1>1. /\ front \in Seq(Byte) /\ Len(front) = 14 + Len(h)
      /\ \A i \in 1..Len(h) : front[14 + i] = h[i]
  <2>1. Concatenation(e, h, front)
    BY <1>0, Joining
  <2> QED BY <2>1 DEF Concatenation
<1>2. /\ back \in Seq(Byte) /\ Len(back) = Len(payload) + Len(padding)
      /\ \A i \in 1..Len(payload) : back[i] = payload[i]
  <2>1. Concatenation(payload, padding, back)
    BY <1>0, Joining
  <2> QED BY <2>1 DEF Concatenation
<1>3. Len(h) \in Nat /\ Len(payload) \in Nat /\ Len(padding) \in Nat
  OBVIOUS
<1>4. /\ b \in Seq(Byte) /\ Len(b) = Len(front) + Len(back)
      /\ \A i \in 1..Len(front) : b[i] = front[i]
      /\ \A i \in 1..Len(back) : b[Len(front) + i] = back[i]
  <2>1. Concatenation(front, back, b)
    BY <1>0, <1>1, <1>2, Joining
  <2> QED BY <2>1, Zenon DEF Concatenation
<1>5. \A i \in 1..Len(h) : b[14 + i] = h[i]
  <2> SUFFICES ASSUME NEW i \in 1..Len(h) PROVE b[14 + i] = h[i]
    OBVIOUS
  <2>1. 14 + i \in 1..Len(front)
    BY <1>1, <1>3
  <2> QED BY <1>1, <1>4, <2>1
<1>6. \A i \in 1..Len(payload) : b[14 + Len(h) + i] = payload[i]
  <2> SUFFICES ASSUME NEW i \in 1..Len(payload) PROVE b[14 + Len(h) + i] = payload[i]
    OBVIOUS
  <2>1. i \in 1..Len(back)
    BY <1>2, <1>3
  <2> QED BY <1>1, <1>2, <1>4, <2>1
<1>7. 14 + Len(h) + Len(payload) <= Len(b)
  BY <1>1, <1>2, <1>3, <1>4
<1>8. Carries(b, h, payload)
  <2>1. b \in Seq(Byte)
    BY <1>4
  <2> QED BY <1>5, <1>6, <1>7, <2>1, Zenon DEF Carries
<1> QED BY <1>8 DEF b, front, back

LEMMA HeaderByte ==
    ASSUME NEW b, NEW h, NEW payload, Carries(b, h, payload),
           NEW k \in Nat, k < Len(h)
    PROVE  At(b, 14 + k) = h[k + 1]
<1>1. k + 1 \in 1..Len(h) /\ 14 + (k + 1) = 14 + k + 1
  BY DEF Carries
<1>2. b[14 + (k + 1)] = h[k + 1]
  BY <1>1 DEF Carries
<1> QED BY <1>1, <1>2 DEF At

LEMMA HeaderBytes ==
    ASSUME NEW b, NEW h, NEW payload, Carries(b, h, payload),
           NEW k \in Nat, k + 4 <= Len(h)
    PROVE  Bytes(b, 14 + k, 4) = SubSeq(h, k + 1, k + 4)
<1> DEFINE x == SubSeq(h, k + 1, k + 4)
<1>1. /\ b \in Seq(Byte) /\ h \in Seq(Byte) /\ Len(h) \in Nat /\ Len(payload) \in Nat
      /\ 14 + Len(h) + Len(payload) <= Len(b) /\ Len(b) \in Nat
  BY DEF Carries
<1>2. x \in Seq(Byte) /\ Len(x) = 4 /\ \A i \in 1..4 : x[i] = h[k + i]
  BY <1>1
<1> HIDE DEF x
<1>3. ASSUME NEW i \in 1..4 PROVE b[14 + k + i] = x[i]
  <2>1. k + i \in 1..Len(h) /\ 14 + (k + i) = 14 + k + i
    BY <1>1
  <2>2. b[14 + (k + i)] = h[k + i]
    BY <2>1 DEF Carries
  <2> QED BY <1>2, <2>1, <2>2
<1>4. 14 + k \in Nat /\ 14 + k + Len(x) <= Len(b) /\ \A i \in 1..Len(x) : b[14 + k + i] = x[i]
  BY <1>1, <1>2, <1>3
<1>5. SubSeq(b, 14 + k + 1, 14 + k + Len(x)) = x
  BY <1>1, <1>2, <1>4, FoundAt, Zenon
<1> QED BY <1>2, <1>5 DEF Bytes, x

LEMMA PayloadBytes ==
    ASSUME NEW b, NEW h, NEW payload, Carries(b, h, payload)
    PROVE  Bytes(b, 14 + Len(h), Len(payload)) = payload
<1> DEFINE m == 14 + Len(h)
<1>1. b \in Seq(Byte) /\ payload \in Seq(Byte) /\ m \in Nat /\ m + Len(payload) <= Len(b)
  BY DEF Carries
<1>2. \A i \in 1..Len(payload) : b[m + i] = payload[i]
  BY DEF Carries
<1> HIDE DEF m
<1>3. SubSeq(b, m + 1, m + Len(payload)) = payload
  BY <1>1, <1>2, FoundAt
<1> QED BY <1>3 DEF Bytes, m

LEMMA ShortOf ==
    ASSUME NEW v \in Nat, v < 65536
    PROVE  jshort(v) = IF v >= 32768 THEN v - 65536 ELSE v
<1>1. v % 65536 = v
  OBVIOUS
<1> QED BY <1>1 DEF jshort

(* Of a packet whose header has the length it announces, and whatever       *)
(* options, handleIPPacket hands up exactly the bytes behind the header,    *)
(* without the padding of the frame.  A packet for another device is        *)
(* dropped.  One of 32768 bytes or more raises an exception: its length is  *)
(* read as a negative number.                                               *)
THEOREM PayloadHandedUp ==
    ASSUME NEW e \in Seq(Byte), NEW h \in Seq(Byte), NEW payload \in Seq(Byte),
           NEW padding \in Seq(Byte), NEW device_ip, NEW packet,
           packet.header \o packet.data = (e \o h) \o (payload \o padding),
           Len(e) = 14, Len(h) >= 20, Len(h) = 4 * (h[1] % 16),
           256 * h[3] + h[4] = Len(h) + Len(payload)
    PROVE  handleIPPacket(packet, device_ip) =
             IF SubSeq(h, 17, 20) # device_ip THEN null
             ELSE IF Len(h) + Len(payload) >= 32768 THEN raised
             ELSE [source_ip |-> SubSeq(h, 13, 16), dest_ip |-> device_ip,
                   protocol |-> jbyte(h[10]), header |-> payload]
<1> DEFINE b == packet.header \o packet.data
           dest_ip == Bytes(b, 14 + ip.ip_dst, 4)
           headerLength == 4 * (At(b, 14 + ip.ip_hl) % 16)
           dataLength == jshort(ntohs(b, 14 + ip.ip_len)) - headerLength
<1>1. handleIPPacket(packet, device_ip) =
        IF Len(b) < 14 + IPv4HDRLEN THEN raised
        ELSE IF dest_ip # device_ip THEN null
        ELSE IF dataLength < 0 \/ 14 + headerLength + dataLength > Len(b) THEN raised
        ELSE [source_ip |-> Bytes(b, 14 + ip.ip_src, 4),
              dest_ip   |-> dest_ip,
              protocol  |-> jbyte(At(b, 14 + ip.ip_p)),
              header    |-> Bytes(b, 14 + headerLength, dataLength)]
  BY DEF handleIPPacket, ETHERNET_FRAME_HEADER_LENGTH
<1>2. Carries(b, h, payload)
  BY FrameOf
<1> HIDE DEF b
<1>3. /\ Len(h) \in Nat /\ Len(payload) \in Nat /\ Len(b) \in Nat
      /\ 14 + Len(h) + Len(payload) <= Len(b)
  BY <1>2 DEF Carries
<1>4. /\ ip.ip_hl = 0 /\ ip.ip_len = 2 /\ ip.ip_p = 9 /\ ip.ip_src = 12 /\ ip.ip_dst = 16
      /\ IPv4HDRLEN = 20
  BY DEF ip, IPv4HDRLEN
<1>5. /\ At(b, 14 + 0) = h[0 + 1] /\ At(b, 14 + 2) = h[2 + 1]
      /\ At(b, 14 + 3) = h[3 + 1] /\ At(b, 14 + 9) = h[9 + 1]
  <2>1. /\ 0 \in Nat /\ 0 < Len(h) /\ 2 \in Nat /\ 2 < Len(h)
        /\ 3 \in Nat /\ 3 < Len(h) /\ 9 \in Nat /\ 9 < Len(h)
    BY <1>3
  <2> QED BY <1>2, <2>1, HeaderByte, Zenon
<1>6. headerLength = Len(h)
  BY <1>4, <1>5
<1>7. At(b, 14 + ip.ip_p) = h[10]
  BY <1>4, <1>5
<1>8. ntohs(b, 14 + ip.ip_len) = Len(h) + Len(payload)
  <2>1. ntohs(b, 14 + 2) = 256 * At(b, 14 + 2) + At(b, 14 + 3)
    BY DEF ntohs
  <2> QED BY <1>4, <1>5, <2>1
<1>9. dest_ip = SubSeq(h, 17, 20) /\ Bytes(b, 14 + ip.ip_src, 4) = SubSeq(h, 13, 16)
  <2>1. /\ Bytes(b, 14 + 16, 4) = SubSeq(h, 16 + 1, 16 + 4)
        /\ Bytes(b, 14 + 12, 4) = SubSeq(h, 12 + 1, 12 + 4)
    <3>1. 12 \in Nat /\ 12 + 4 <= Len(h) /\ 16 \in Nat /\ 16 + 4 <= Len(h)
      BY <1>3
    <3> QED BY <1>2, <3>1, HeaderBytes, Zenon
  <2> QED BY <1>4, <2>1
<1>10. ~(Len(b) < 14 + IPv4HDRLEN)
  BY <1>3, <1>4
<1> DEFINE total == Len(h) + Len(payload)
<1>11. total \in Nat /\ total < 65536
  <2>1. h[3] \in Byte /\ h[4] \in Byte
    BY <1>3
  <2>2. h[3] \in Nat /\ h[4] \in Nat /\ h[3] <= 255 /\ h[4] <= 255
    BY <2>1, ByteRange, Zenon
  <2>3. 256 * h[3] + h[4] < 65536
    BY <2>2
  <2> QED BY <1>3, <2>3
<1>12. dataLength = (IF total >= 32768 THEN total - 65536 ELSE total) - Len(h)
  <2> HIDE DEF total
  <2>1. jshort(total) = IF total >= 32768 THEN total - 65536 ELSE total
    BY <1>11, ShortOf
  <2> QED BY <1>6, <1>8, <2>1 DEF total
<1> HIDE DEF dest_ip, headerLength, dataLength
<1>13. CASE total >= 32768
  <2>1. dataLength < 0
    <3> HIDE DEF total
    <3>1. dataLength = (total - 65536) - Len(h)
      BY <1>12, <1>13
    <3> QED BY <1>3, <1>11, <3>1
  <2> QED BY <1>1, <1>9, <1>10, <1>13, <2>1
<1>14. CASE ~(total >= 32768)
  <2>1. dataLength = Len(payload)
    BY <1>3, <1>12, <1>14
  <2>2. Bytes(b, 14 + headerLength, dataLength) = payload
    BY <1>2, <1>6, <2>1, PayloadBytes
  <2>3. ~(dataLength < 0 \/ 14 + headerLength + dataLength > Len(b))
    BY <1>3, <1>6, <2>1
  <2>4. CASE SubSeq(h, 17, 20) # device_ip
    BY <1>1, <1>9, <1>10, <2>4
  <2>5. CASE SubSeq(h, 17, 20) = device_ip
    <3>1. handleIPPacket(packet, device_ip) =
            [source_ip |-> SubSeq(h, 13, 16), dest_ip |-> device_ip,
             protocol |-> jbyte(h[10]), header |-> payload]
      BY <1>1, <1>7, <1>9, <1>10, <2>2, <2>3, <2>5, Zenon
    <3> QED BY <1>14, <2>5, <3>1
  <2> QED BY <2>4, <2>5
<1> QED BY <1>13, <1>14
=============================================================================
