----------------------------- MODULE MCPackets ------------------------------
(* Frames, packets and exchanges for the code that takes frames apart and puts *)
(* them together.  Frames are built by a writer of this module's own, by the   *)
(* formats of the protocols; each state is one input.                          *)
EXTENDS JpcapReceive, JpcapSend, ProtocolHeaders, DNSReply, DeviceList

VARIABLES
    subject,    \* what the input is: "frame", "packet", "exchange", ...
    content,    \* its description
    cut         \* how many bytes are missing at the end

Junk == 170
SrcMac == <<2, 0, 0, 0, 0, 1>>
DstMac == <<2, 0, 0, 0, 0, 254>>
Ethernet(type) == [frametype |-> type, src_mac |-> SrcMac, dst_mac |-> DstMac]
OnWire(type) == DstMac \o SrcMac \o htons(type)
Some(n) == [k \in 1..n |-> (73 * k) % 256]

-----------------------------------------------------------------------------
\* Frames.  The transport part by its protocol; TCP with or without options.
TransportPart(c) ==
    CASE c.proto = IPPROTO_TCP -> Some(12) \o <<80 + 4 * c.options>> \o Some(7 + c.options) \o Some(c.size)
      [] c.proto = IPPROTO_UDP -> Some(4) \o htons(8 + c.size) \o <<0, 0>> \o Some(c.size)
      [] c.proto = IPPROTO_ICMP -> <<ICMP_TIMXCEED, 0>> \o Some(6) \o Some(c.size)
      [] OTHER -> Some(c.size)

TransportHeader(c) ==
    CASE c.fragment > 0 \/ c.extension # "none" -> 0
      [] c.proto = IPPROTO_TCP -> 20 + c.options
      [] c.proto \in {IPPROTO_UDP, IPPROTO_ICMP} -> 8
      [] OTHER -> 0

\* Hop-by-hop options, a fragment header, a route of one address.
ExtensionPart(c) ==
    CASE c.extension = "none"     -> <<>>
      [] c.extension = "hop"      -> <<c.proto, 0>> \o zeros(6)
      [] c.extension = "fragment" -> <<c.proto, 0, 0, 9, 0, 0, 1, 2>>
      [] c.extension = "route"    -> <<c.proto, 2, 0, 1>> \o zeros(4) \o Some(16)

FirstHeader(c) ==
    CASE c.extension = "none"     -> c.proto
      [] c.extension = "hop"      -> IPPROTO_HOPOPTS
      [] c.extension = "fragment" -> IPPROTO_FRAGMENT
      [] c.extension = "route"    -> IPPROTO_ROUTING

IPPart(c) ==
    LET rest == TransportPart(c)
    IN  CASE c.net = "IPv4" ->
               <<69 + c.options \div 4, 0>> \o htons(20 + c.options + Len(rest)) \o <<1, 2>>
               \o htons(8192 + c.fragment) \o <<64, c.proto, 0, 0, 10, 0, 0, 1, 10, 0, 0, 2>>
               \o Some(c.options) \o rest
          [] c.net = "IPv6" ->
               <<96, 0, 0, 0>> \o htons(Len(ExtensionPart(c)) + Len(rest)) \o <<FirstHeader(c), 64>>
               \o Some(32) \o ExtensionPart(c) \o rest
          [] c.net = "ARP" -> <<0, 1, 8, 0, 6, 4, 0, 2>> \o Some(20)

TypeOf(c) ==
    CASE c.net = "IPv4" -> ETHERTYPE_IP [] c.net = "IPv6" -> ETHERTYPE_IPV6 [] c.net = "ARP" -> ETHERTYPE_ARP

Frame(c) == OnWire(TypeOf(c)) \o IPPart(c) \o zeros(c.padding)

Frames ==
    [net : {"IPv4"}, options : {0, 4}, extension : {"none"}, fragment : {0, 1},
     proto : {IPPROTO_TCP, IPPROTO_UDP, IPPROTO_ICMP, 89}, size : {0, 1, 30}, padding : {0, 5}]
    \cup [net : {"IPv6"}, options : {0}, extension : {"none", "hop", "fragment", "route"}, fragment : {0},
          proto : {IPPROTO_TCP, IPPROTO_UDP, 89}, size : {0, 1, 30}, padding : {0, 5}]
    \cup [net : {"ARP"}, options : {0}, extension : {"none"}, fragment : {0},
          proto : {0}, size : {0}, padding : {0, 1, 18}]

\* Where the network header ends, and where the part that belongs to it does.
NetworkEnd(c) ==
    CASE c.net = "IPv4" -> 34 + c.options
      [] c.net = "IPv6" -> 54 + Len(ExtensionPart(c))
      [] c.net = "ARP"  -> 42
PacketEnd(c) == 14 + Len(IPPart(c))

\* The class of object the frame should become.
ClassOf(c) ==
    CASE c.net = "ARP" -> "ARPPacket"
      [] c.fragment > 0 \/ c.extension # "none" -> "IPPacket"
      [] c.proto = IPPROTO_TCP  -> "TCPPacket"
      [] c.proto = IPPROTO_UDP  -> "UDPPacket"
      [] c.proto = IPPROTO_ICMP -> "ICMPPacket"
      [] OTHER -> "IPPacket"

\* What reaches the program of a frame of which cut bytes were not captured.
Captured(c) == SubSeq(Frame(c), 1, Len(Frame(c)) - cut) \o junk_bytes(80, Junk)
GotOf(c, stale) == getPacket(1, Captured(c), Len(Frame(c)) - cut, DLT_EN10MB, stale)

\* The network header was captured, and so was the fixed part of a transport header, or
\* one byte behind an IPv6 header: without it tproto, which is then not set, decides
\* whether bytes are counted that were not captured.
HeadersCaptured(c) ==
    LET caplen == Len(Frame(c)) - cut
        fixed == IF TransportHeader(c) > 8 THEN 20 ELSE TransportHeader(c)
    IN  /\ caplen >= NetworkEnd(c) + fixed
        /\ c.net = "IPv6" => caplen > 54 \/ PacketEnd(c) = 54

smaller(a, b) == IF a < b THEN a ELSE b

\* What is read again of a dumped packet.
ReadAgain(dumped, stale) ==
    getPacket(1, dumped \o junk_bytes(80, Junk), Len(dumped), DLT_EN10MB, stale)

SamePacket(a, b) == a.class = b.class /\ a.header = b.header /\ a.data = b.data

DividesRight(c, got, stale) ==
    LET end == smaller(Len(Frame(c)) - cut, PacketEnd(c))
    IN  /\ got.header \o got.data = SubSeq(Frame(c), 1, end)
        /\ Len(got.header) = smaller(end, NetworkEnd(c) + TransportHeader(c))
        /\ got.class = ClassOf(c)
        /\ SamePacket(ReadAgain(writePacket(got, Junk), stale), got)

\* get_packet divides a frame in two without losing, repeating or adding a byte: its
\* header and its data are together what was captured of the packet, without the
\* padding; the division is behind the last header; the object is of the class of what
\* is in the frame, whatever tproto held before; and from a dump file, which has junk for
\* the padding, the same is read again.
HeaderThenData ==
    subject = "frame" /\ HeadersCaptured(content) =>
      \A stale \in {IPPROTO_ICMP, IPPROTO_UDP, ETHERTYPE_IP, UNKNOWN_PROTO} :
        DividesRight(content, GotOf(content, stale), stale)

-----------------------------------------------------------------------------
\* Packets a program may send.  Boundary values of the numbers; an identifier or
\* sequence number of ICMP of which one byte is enough.  A packet that is no fragment, and
\* some with the offset of one, as a captured fragment has when it is sent again.
WholeHeaders ==
    { [version |-> 4, priority |-> IF low THEN 7 ELSE 0, d_flag |-> low, t_flag |-> ~low, r_flag |-> FALSE,
       rsv_tos |-> IF low THEN 3 ELSE 0, rsv_frag |-> FALSE, dont_frag |-> df, more_frag |-> FALSE,
       offset |-> 0, ident |-> ident, hop_limit |-> ttl,
       src_ip |-> <<10, 0, 0, 1>>, dst_ip |-> <<255, 255, 0, 2>>] :
      low \in BOOLEAN, df \in BOOLEAN, ident \in {-1, 0, 300, 32767}, ttl \in {1, 128, 255} }

IPv4Header == CHOOSE h \in WholeHeaders : h.ident = 300 /\ h.hop_limit = 128
IPv4Headers == WholeHeaders \cup { [IPv4Header EXCEPT !.offset = n] : n \in {1, 32, 185, 256} }
IPv6Header ==
    [version |-> 6, priority |-> 0, flow_label |-> zeros(4), hop_limit |-> 200,
     src_ip |-> Some(16), dst_ip |-> Reverse(Some(16))]

TCPHeaders ==
    { [src_port |-> 33434, dst_port |-> 65535, sequence |-> seq, ack_num |-> <<0, 255, 128, 1>>,
       urg |-> f[1], ack |-> f[2], psh |-> f[3], rst |-> ~f[1], syn |-> ~f[2], fin |-> ~f[3],
       rsv1 |-> FALSE, rsv2 |-> f[1], window |-> window, urgent_pointer |-> -2] :
      seq \in {zeros(4), <<255, 0, 1, 128>>}, f \in [1..3 -> BOOLEAN], window \in {0, 65535} }
UDPHeaders == [src_port : {0, 65535}, dst_port : {53, 60706}]
Echoes == [type : {ICMP_ECHO, ICMP_ECHOREPLY}, code : {0}, id : {-128, -1, 0, 127}, seq : {0, 1, 127}]
OtherICMP ==
    { [type |-> ICMP_REDIRECT, code |-> 1, redir_ip |-> <<10, 0, 0, 9>>, ippacket |-> IPv4Header],
      [type |-> ICMP_UNREACH, code |-> 3, ippacket |-> <<>>],
      [type |-> ICMP_TIMXCEED, code |-> 0, ippacket |-> IPv4Header],
      [type |-> ICMP_TSTAMPREPLY, code |-> 0, id |-> 5, seq |-> 6, orig_timestamp |-> <<0, 1, 2, 3>>,
       recv_timestamp |-> <<4, 5, 6, 7>>, trans_timestamp |-> <<255, 128, 1, 0>>],
      [type |-> ICMP_MASKREPLY, code |-> 0, id |-> 5, seq |-> 6, subnetmask |-> <<255, 255, 255, 0>>],
      [type |-> 9, code |-> 2] }
ARPHeaders ==
    [hardtype : {1}, prototype : {2048}, hlen : {6}, plen : {4}, operation : {1, 2},
     sender_hardaddr : {SrcMac}, sender_protoaddr : {<<192, 168, 1, 1>>},
     target_hardaddr : {zeros(6), DstMac}, target_protoaddr : {<<192, 168, 1, 255>>}]

Payloads == {<<>>, <<7>>, <<255, 255>>, <<1, 2, 3>>, Some(64)}
packet(class, type, network, transport, data) ==
    [class |-> class, datalink |-> Ethernet(type), network |-> network, transport |-> transport,
     data |-> data]

SegmentsOver(type, header) ==
    { packet("TCPPacket", type, header, t, d) : t \in TCPHeaders, d \in Payloads }
DatagramsOver(type, headers) ==
    { packet("UDPPacket", type, h, t, d) : h \in headers, t \in UDPHeaders, d \in Payloads }
EchoPackets == { packet("ICMPPacket", ETHERTYPE_IP, IPv4Header, t, d) : t \in Echoes, d \in Payloads }
OtherICMPPackets == { packet("ICMPPacket", ETHERTYPE_IP, IPv4Header, t, Some(12)) : t \in OtherICMP }
OtherIPPackets ==
    { packet("IPPacket", ETHERTYPE_IP, completed(h, [protocol |-> 89]), <<>>, d) : h \in IPv4Headers, d \in Payloads }
ARPPackets == { packet("ARPPacket", ETHERTYPE_ARP, h, <<>>, <<>>) : h \in ARPHeaders }
PlainPackets == { packet("Packet", -30516, <<>>, <<>>, d) : d \in Payloads }

IPv4Packets ==
    SegmentsOver(ETHERTYPE_IP, IPv4Header) \cup DatagramsOver(ETHERTYPE_IP, IPv4Headers)
    \cup EchoPackets \cup OtherICMPPackets \cup OtherIPPackets
IPv6Packets ==
    SegmentsOver(jshort(ETHERTYPE_IPV6), IPv6Header) \cup DatagramsOver(jshort(ETHERTYPE_IPV6), {IPv6Header})
Packets == IPv4Packets \cup IPv6Packets \cup ARPPackets \cup PlainPackets

SentOf(p) == nativeSendPacket(p, Junk)
Received(frame, linktype) ==
    get_packet(frame \o junk_bytes(80, Junk), Len(frame), linktype, UNKNOWN_PROTO)

\* What does not survive the way: the fragment flags, which are written in one byte
\* order and read in the other; the fragment offset, whose bytes set_ip and its caller
\* both exchange, so that 1 is sent as 256 and 32 as the flag of more fragments; class
\* and flow label of IPv6; the header an ICMP error is about, and the numbers of time
\* stamps and masks.
Lost == {"rsv_frag", "dont_frag", "more_frag", "offset", "ippacket", "subnetmask",
         "orig_timestamp", "recv_timestamp", "trans_timestamp"}
LostInIPv6 == {"priority", "flow_label"}

Agree(sent, got, lost) == \A f \in DOMAIN sent \ lost : f \in DOMAIN got /\ got[f] = sent[f]

\* The data of an ICMP message that is not an echo is not sent; a frame shorter than
\* 60 bytes arrives with padding, which only the length in an IPv4 header tells apart.
DataArrives(sent, got) ==
    CASE sent.class = "ICMPPacket" /\ sent.transport.type \notin {ICMP_ECHO, ICMP_ECHOREPLY} -> TRUE
      [] sent.datalink.frametype = ETHERTYPE_IP /\ ~(sent.class = "ICMPPacket") -> got.data = sent.data
      [] OTHER -> IsPrefix(sent.data, got.data)

\* A packet given an offset is read as a fragment behind the first, in which no header of
\* a protocol is looked for - unless the offset on the wire is 0.
IsFragment(sent, got) ==
    /\ sent.datalink.frametype = ETHERTYPE_IP /\ sent.network.offset # 0
    /\ sent.class # "IPPacket" /\ got.class = "IPPacket"

ArrivesAs(sent, got) ==
    /\ got.datalink = sent.datalink
    /\ Agree(sent.network, got.network,
             Lost \cup (IF sent.datalink.frametype = jshort(ETHERTYPE_IPV6) THEN LostInIPv6 ELSE {}))
    /\ IF IsFragment(sent, got) THEN IsSuffix(sent.data, got.data)
       ELSE /\ got.class = sent.class
            /\ Agree(sent.transport, got.transport, Lost)
            /\ DataArrives(sent, got)

\* A device without link headers makes the same of an IPv4 packet on the raw socket.
SameRaw(sent, got, raw) ==
    sent.datalink.frametype = ETHERTYPE_IP =>
      /\ raw.class = got.class /\ raw.data = got.data
      /\ raw.network = got.network /\ raw.transport = got.transport

\* Jpcap reads back what it sends: a packet object of every kind becomes one of the same
\* class with the same fields and data, apart from those in Lost - or, given a fragment
\* offset, a fragment, whose offset is another and whose transport header counts as data;
\* and an IPv4 packet is the same on the raw socket, without padding.
SentIsReceived ==
    subject = "packet" =>
      LET raw == Received(nativeSendPacketViaRawSocket(content, Junk), DLT_RAW)
          both(got) == ArrivesAs(content, got) /\ SameRaw(content, got, raw)
      IN  both(Received(SentOf(content), DLT_EN10MB))

\* A receiver's test: the words of a message, its checksum among them, add up to 0 in
\* one's complement.
AddsUp(bytes) == Sum16(bytes) % 65535 = 0

\* The pseudo header of TCP and UDP over IPv4.
Pseudo(frame, len) == Bytes(frame, 26, 8) \o <<0, At(frame, 23)>> \o htons(len)

\* The checksums of an IPv4 frame without options: those of the IP header and of what
\* is behind it.
IPv4Verifies(frame) == AddsUp(Bytes(frame, 14, 20))
TransportVerifies(frame) ==
    LET part == SubSeq(frame, 35, 14 + ntohs(frame, 16))
    IN  IF At(frame, 23) \in {IPPROTO_TCP, IPPROTO_UDP} THEN AddsUp(Pseudo(frame, Len(part)) \o part)
        ELSE IF At(frame, 23) = IPPROTO_ICMP THEN AddsUp(part) ELSE TRUE

ChecksumsRight(frame, exempt) == IPv4Verifies(frame) /\ (exempt \/ TransportVerifies(frame))

-----------------------------------------------------------------------------
\* Exchanges: an application sends a packet, its peer answers it.
device_ip == <<192, 168, 1, 7>>
peer_ip == <<192, 168, 1, 1>>

\* The applications that are listed besides: a trace with port 0 and a DHCP client.
Others == << [name |-> "trace", port |-> 0], [name |-> "dhcp", port |-> 68] >>

Pings ==
    [app : {"ping", "hping"}, identifier : {-32768, -1, 0, 1, 32767}, sequence : {0, 1, 300},
     time : {zeros(8), Some(8)}, options : {0, 4}]
Resolutions ==
    [app : {"arp"}, answer : {"reply", "request", "to another", "to one like us"}, options : {0}]
Queries ==
    [app : {"dns"}, port : {-32768, -1, 1, 32767}, identifier : {0, 258, 65535},
     domain : {<< <<97>> >>, << Some(3), <<98>>, Some(20) >>}, options : {0, 4}]
Exchanges == Pings \cup Resolutions \cup Queries

\* What the application hands over, with the first four bytes of the time for hping.
Request(x) ==
    LET app(time) == [destIp |-> peer_ip, identifier |-> x.identifier, sequence |-> x.sequence,
                      time |-> time]
        package(a, message) == createPackage(a, message, device_ip)
    IN  CASE x.app = "ping" -> package(app(x.time), createPing(app(x.time)))
          [] x.app = "hping" ->
               LET a == app(SubSeq(x.time, 1, 4)) IN package(a, createHPing(a))
          [] x.app = "dns" ->
               LET udp == createUDPHeader([source_port |-> x.port, dest_port |-> 53,
                                           data |-> queryDomain(x.domain, x.identifier)])
               IN  createIPHeader([data_length |-> Len(udp), destination_ip |-> peer_ip,
                                   protocol |-> PROTOCOL_UDP, identification |-> x.identifier], device_ip)
                   \o udp

RequestFrame(x) ==
    SentOf(IF x.app = "arp"
           THEN sendData(makeARPRequestMsg(peer_ip, SrcMac, device_ip), SrcMac, BROADCAST, ETHERTYPE_ARP)
           ELSE sendData(Request(x), SrcMac, DstMac, ETHERTYPE_IP))

\* What the peer answers to the part of a frame behind the IP header: the same message as a
\* reply, or the query with an address.
AnswerPart(x, part) ==
    CASE x.app = "ping"  -> [part EXCEPT ![1] = ICMP_ECHOREPLY]
      [] x.app = "hping" -> [part EXCEPT ![1] = ICMP_TSTAMPREPLY, ![20] = 9]
      [] x.app = "dns" ->
           LET message == [SubSeq(part, 9, Len(part)) EXCEPT ![3] = 129, ![8] = 1]
                          \o <<192, 12, 0, 1, 0, 1, 0, 0, 0, 60, 0, 4>> \o <<10, 200, 0, 255>>
           IN  SubSeq(part, 3, 4) \o SubSeq(part, 1, 2) \o htons(8 + Len(message)) \o <<0, 0>> \o message

\* The packet that brings it back to the sender of the frame f, with options of the IP header if
\* the routers on the way add them.
AnswerPacket(x, f, part) ==
    <<69 + x.options \div 4, 0>> \o htons(20 + x.options + Len(part)) \o zeros(4)
    \o <<64, At(f, 23), 0, 0>> \o Bytes(f, 30, 4) \o Bytes(f, 26, 4) \o zeros(x.options) \o part

\* An ARP message from the peer: to the sender of the frame f, a request instead, or to another
\* device, whose address differs in its last byte only.
AnswerARP(x, f) ==
    LET to == CASE x.answer = "to another"     -> <<10, 0, 0, 1>>
                [] x.answer = "to one like us" -> [Bytes(f, 28, 4) EXCEPT ![4] = 8]
                [] OTHER                       -> Bytes(f, 28, 4)
    IN  Bytes(f, 14, 6) \o htons(IF x.answer = "request" THEN ARP_REQUEST ELSE ARP_REPLY)
        \o DstMac \o Bytes(f, 38, 4) \o Bytes(f, 22, 6) \o to

AnswerFrame(x, f) ==
    SrcMac \o DstMac \o SubSeq(f, 13, 14)
    \o (IF x.app = "arp" THEN AnswerARP(x, f)
        ELSE AnswerPacket(x, f, AnswerPart(x, SubSeq(f, 35, 14 + ntohs(f, 16)))))

\* The way up: Jpcap, then the ARP layer, or the IP layer and behind it the ICMP chain or the
\* UDP layer.
ReadIP(x, got, info) ==
    IF x.app = "dns" THEN handleUDPPacket(info.header, got.data)
    ELSE handleICMPPacket(info.header, got.data)

ReadFrame(x, got) ==
    IF x.app = "arp" THEN analyseARPMsg(got.header, device_ip)
    ELSE ReadIP(x, got, handleIPPacket(got, device_ip))

AnswerRead(x) == ReadFrame(x, Received(padded(AnswerFrame(x, RequestFrame(x))), DLT_EN10MB))

\* What the application should have of the answer to the request of x.
IsAnswer(x, read) ==
    LET apps == Others \o << [name |-> "mine", port |-> IF x.app = "dns" THEN x.port ELSE 0] >>
    IN  CASE x.app = "ping" ->
               read = [identifier |-> x.identifier, sequence |-> x.sequence, data |-> x.time]
          [] x.app = "hping" ->
               /\ read.identifier = x.identifier
               /\ read.original_time = SubSeq(x.time, 1, 4)
               /\ read.receive_time = zeros(4) /\ read.transmit_time = <<0, 0, 0, 9>>
          [] x.app = "arp" ->
               read = IF x.answer = "reply" THEN [sender_mac |-> DstMac, sender_ip |-> peer_ip] ELSE null
          [] x.app = "dns" ->
               /\ getApplicationByPort(apps, read.dest_port).name = "mine"
               /\ read.src_port = 53
               /\ HandleReply(read.data, x.identifier)
                    = [ok |-> TRUE, aliases |-> <<>>, ips |-> << <<10, 200, 0, 255>> >>]

\* The stack reads the answers to what it sends, through every layer down and up: a reply to
\* a ping has the identifier, sequence number and time of the request; one to an hping its
\* identifier and time (HPingApp's sequence number is never sent); the answer to a DNS query
\* comes to the port of its application and no other, and holds what the server wrote; an
\* ARP reply to this device, and no other ARP message, yields its sender's addresses.
StackReadsItself == subject = "exchange" => IsAnswer(content, AnswerRead(content))

\* A receiver accepts the checksums of every IPv4 packet that leaves.  Of those Jpcap fills
\* from a packet object this holds for data of an odd number of bytes too - but for an odd
\* echo, whose last byte in_cksum does not count, and for a type of ICMP message it does
\* not know.  Of those the stack builds itself the length is right as well; it sends UDP
\* without a checksum.
WireChecksums ==
    /\ subject = "packet" /\ content.datalink.frametype = ETHERTYPE_IP =>
         ChecksumsRight(SentOf(content),
            content.class = "ICMPPacket" /\ (content.transport.type = 9 \/ Len(content.data) % 2 = 1))
    /\ subject = "exchange" /\ content.app # "arp" =>
         LET right(f) == ChecksumsRight(f, content.app = "dns") /\ ntohs(f, 16) = Len(Request(content))
         IN  right(RequestFrame(content))

-----------------------------------------------------------------------------
\* The cards of a host: some without an IPv4 address, some with one among others, and one
\* the IP helper may not list; in any order.  The GUIDs of the first two differ in their
\* first digits only, as those a host generates from its clock and its own address do.
CardIds == 1..3
Guid(c) == [first |-> c, rest |-> IF c = 3 THEN 3 ELSE 1]
CardAddress(c, family) ==
    [addr |-> [family |-> family, bytes |-> IF family = AF_INET THEN <<192, 168, c, 1>> ELSE Some(16)],
     netmask |-> [family |-> family, bytes |-> IF family = AF_INET THEN <<255, 255, c, 0>> ELSE Some(16)]]
Families == {<<>>, <<AF_INET6>>, <<AF_INET>>, <<AF_INET6, AF_INET>>, <<6, AF_INET>>}
CardLists ==
    { [k \in DOMAIN order |->
         [guid |-> Guid(order[k]),
          addresses |-> [n \in DOMAIN families[k] |-> CardAddress(order[k], families[k][n])]]] :
      order \in SetToSeqs(CardIds), families \in [CardIds -> Families] }
AdapterLists ==
    { [k \in DOMAIN order |-> [guid |-> Guid(order[k]), mac |-> <<2, 0, 0, 0, 0, order[k]>>]] :
      order \in SetToSeqs(CardIds) \cup SetToSeqs({1, 3}) \cup SetToSeqs({1, 2}) }

\* main runs on a card with an IPv4 address whenever there is one, and the stack writes
\* into its packets an IPv4 address of that card and its link address, none if the IP
\* helper does not list it, whatever lists the cards come from - unless another adapter
\* has a name that differs in the first eight digits of the GUID only: the two are not
\* told apart, and the address may be that of the other.
StackIsOnItsCard ==
    subject = "cards" =>
      LET device == chosen(getDeviceList(content.alldevs, content.adapters))
          card(guid) == CHOOSE k \in DOMAIN content.alldevs : content.alldevs[k].guid = guid
          hasIPv4(d) == \E n \in DOMAIN d.addresses : d.addresses[n].addr.family = AF_INET
      IN  IF device = None THEN \A k \in DOMAIN content.alldevs : ~hasIPv4(content.alldevs[k])
          ELSE LET layer == initWithOpenDevice(device)
                   own == content.alldevs[card(layer.device)]
                   listed == {k \in DOMAIN content.adapters : content.adapters[k].guid = own.guid}
                   alike == {k \in DOMAIN content.adapters : content.adapters[k].guid.rest = own.guid.rest}
               IN  /\ \E n \in DOMAIN own.addresses :
                        own.addresses[n].addr = [family |-> AF_INET, bytes |-> layer.ipAddress]
                   /\ alike = listed =>
                        IF listed = {} THEN layer.macAddress = NoMac
                        ELSE \E k \in listed : layer.macAddress = content.adapters[k].mac
                   /\ \A n \in DOMAIN device.addresses :
                        Len(device.addresses[n].address) = Len(device.addresses[n].subnet)

PacketInit ==
    \/ subject = "frame" /\ content \in Frames /\ cut \in 0..smaller(20, Len(Frame(content)) - 14)
    \/ subject = "packet" /\ content \in Packets /\ cut = 0
    \/ subject = "exchange" /\ content \in Exchanges /\ cut = 0
    \/ subject = "cards" /\ content \in [alldevs : CardLists, adapters : AdapterLists] /\ cut = 0
=============================================================================
