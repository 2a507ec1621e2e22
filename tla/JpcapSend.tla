----------------------------- MODULE JpcapSend ------------------------------
(***************************************************************************)
(* set_packet of JpcapSender.c and the functions it calls: the bytes of a  *)
(* Java packet object on the wire.                                         *)
(*                                                                         *)
(* A packet is a record as get_packet makes it: its class, the headers it  *)
(* has, <<>> where it has none, and its data.  The buffer is not cleared:  *)
(* a byte that nothing sets is junk.                                       *)
(***************************************************************************)
EXTENDS FrameLayout

\* A 16-bit number as the host stores it, and with its bytes exchanged.
host_bytes(n) == <<n % 256, (n % 65536) \div 256>>
swap(n) == 256 * (n % 256) + (n % 65536) \div 256

flag_bit(flag, bit) == IF flag THEN bit ELSE 0

\* a | b, for bytes.
or(a, b) == FoldLeft(+, 0, [k \in 1..8 |-> flag_bit(Bit(a, k - 1) \/ Bit(b, k - 1), 2^(k - 1))])

-----------------------------------------------------------------------------
\* The words of the bytes as the host reads them, added up; an odd byte is left out.
word_sum(b) ==
    LET sum[k \in 1..(Len(b) + 1)] ==
          IF k >= Len(b) THEN 0 ELSE host16(b, k - 1) + sum[k + 2]
    IN  sum[1]

\* The carries are added twice and the sum is inverted.
fold_sum(sum) ==
    LET once == (sum % 65536) + (sum \div 65536)
    IN  65535 - (((once \div 65536) + (once % 65536)) % 65536)

\* in_cksum: of an odd number of bytes, the one behind the last counts for the last.
in_cksum(b, junk) ==
    fold_sum(word_sum(b) + (IF Len(b) % 2 = 1 THEN 256 * junk ELSE 0))

\* in_cksum2 without its pseudo header.
in_cksum2_NoPseudo(iph, len, b) ==
    fold_sum(word_sum(b) + (IF Len(b) % 2 = 1 THEN Last(b) ELSE 0))

\* in_cksum2: the same with a pseudo header, which is taken from where an IPv4
\* header has its addresses and its protocol, and with the last byte counted.
in_cksum2(iph, len, b) ==
    fold_sum(word_sum(Bytes(iph, ip.ip_src, 8)) + swap(At(iph, ip.ip_p)) + swap(len)
             + word_sum(b) + (IF Len(b) % 2 = 1 THEN Last(b) ELSE 0))

-----------------------------------------------------------------------------
set_ether(e) ==
    IF e = <<>> THEN <<>> ELSE e.dst_mac \o e.src_mac \o htons(e.frametype)

\* The fragment field as the host holds it.  Flags are constants of the host, the
\* offset has its bytes exchanged.
ip_off(h) ==
    (flag_bit(h.rsv_frag, 32768) + flag_bit(h.dont_frag, 16384) + flag_bit(h.more_frag, 8192) + swap(h.offset)) % 65536

ip_tos(h) ==
    (32 * h.priority + h.rsv_tos + flag_bit(h.d_flag, 16) + flag_bit(h.t_flag, 8) + flag_bit(h.r_flag, 4)) % 256

\* An IPv4 header, whose length, fragment field, protocol and checksum are bytes
\* that set_ip or its caller leaves there.
set_ip(h, len, off, proto, sum) ==
    <<69, ip_tos(h)>> \o len \o htons(h.ident) \o off \o <<h.hop_limit % 256, proto>> \o sum
    \o h.src_ip \o h.dst_ip

\* The header with its checksum.
finished_ip(h, length, proto) ==
    LET bytes(sum) == set_ip(h, htons(length), htons(ip_off(h)), proto, sum)
    IN  bytes(host_bytes(in_cksum(bytes(<<0, 0>>), 0)))

\* An IPv6 header.  Its length is not put in network order.
set_ipv6(h, length, proto) ==
    << 96 + (or(h.priority \div 16, h.flow_label[1]) % 16),
       or(16 * (h.priority % 16), h.flow_label[2]), h.flow_label[3], h.flow_label[4] >>
    \o host_bytes(length) \o <<proto, h.hop_limit % 256>> \o h.src_ip \o h.dst_ip

\* The first bytes of the data, as many as fit the buffer behind headers of n bytes.
fitting(data, n) ==
    IF Len(data) + n > MAX_PACKET_SIZE THEN SubSeq(data, 1, MAX_PACKET_SIZE - n) ELSE data

tcp_flags(h) ==
    flag_bit(h.rsv1, 128) + flag_bit(h.rsv2, 64) + flag_bit(h.urg, 32) + flag_bit(h.ack, 16)
      + flag_bit(h.psh, 8) + flag_bit(h.rst, 4) + flag_bit(h.syn, 2) + flag_bit(h.fin, 1)

\* A TCP segment; four bits of the header are not set.
set_tcp(h, data, iph, junk) ==
    LET sent == fitting(data, IPv4HDRLEN + TCPHDRLEN)
        bytes(sum) == htons(h.src_port) \o htons(h.dst_port) \o h.sequence \o h.ack_num
                      \o <<80 + (junk % 16), tcp_flags(h)>> \o htons(h.window) \o sum
                      \o htons(h.urgent_pointer) \o sent
    IN  bytes(host_bytes(in_cksum2(iph, Len(sent) + TCPHDRLEN, bytes(<<0, 0>>))))

\* A UDP datagram; a checksum of 0 would mean that there is none.
set_udp(h, data, iph) ==
    LET sent == fitting(data, IPv4HDRLEN + UDPHDRLEN)
        len  == Len(sent) + UDPHDRLEN
        bytes(sum) == htons(h.src_port) \o htons(h.dst_port) \o htons(len) \o sum \o sent
        sum  == in_cksum2(iph, len, bytes(<<0, 0>>))
    IN  bytes(IF sum = 0 THEN <<255, 255>> ELSE host_bytes(sum))

-----------------------------------------------------------------------------
junk_bytes(n, junk) == [k \in 1..n |-> junk]

ICMPErrors == {ICMP_REDIRECT, ICMP_UNREACH, ICMP_SOURCEQUENCH, ICMP_TIMXCEED, ICMP_PARAMPROB}
ICMPStamps == {ICMP_TSTAMP, ICMP_TSTAMPREPLY}
ICMPMasks  == {ICMP_MASKREQ, ICMP_MASKREPLY}

\* What follows the checksum of an ICMP message, as far as set_icmp counts it.  An
\* error ends with the IP header it is about, whose length, protocol and checksum
\* nobody sets, and with four bytes more; data goes with an echo only.
icmp_rest(h, data, junk) ==
    CASE h.type \in {ICMP_ECHOREPLY, ICMP_ECHO} -> htons(h.id) \o htons(h.seq) \o data
      [] h.type \in ICMPErrors ->
           (IF h.type = ICMP_REDIRECT THEN h.redir_ip ELSE junk_bytes(4, junk))
           \o (IF h.ippacket = <<>> THEN <<>>
               ELSE set_ip(h.ippacket, <<junk, junk>>, host_bytes(ip_off(h.ippacket)),
                           junk, <<junk, junk>>))
           \o junk_bytes(4, junk)
      [] h.type \in ICMPStamps ->
           htons(h.id) \o htons(h.seq) \o h.orig_timestamp \o h.recv_timestamp \o h.trans_timestamp
      [] h.type \in ICMPMasks -> htons(h.id) \o htons(h.seq) \o h.subnetmask

\* An ICMP message.  Of a type that is not known, type and code alone are set, and
\* as many bytes are sent as there is data.
set_icmp(h, data, junk) ==
    LET known == {ICMP_ECHOREPLY, ICMP_ECHO} \cup ICMPErrors \cup ICMPStamps \cup ICMPMasks
        bytes(sum) == <<h.type % 256, h.code % 256>> \o sum \o icmp_rest(h, data, junk)
    IN  IF h.type \in known THEN bytes(host_bytes(in_cksum(bytes(<<0, 0>>), junk)))
        ELSE SubSeq(<<h.type % 256, h.code % 256>> \o junk_bytes(Len(data), junk), 1, Len(data))

\* An ARP message for Ethernet and IPv4, whose addresses are at fixed places.
set_arp(h, junk) ==
    LET field(bytes, n, size) == SubSeq(bytes, 1, n) \o junk_bytes(size - n, junk)
    IN  htons(h.hardtype) \o htons(h.prototype) \o <<h.hlen % 256, h.plen % 256>>
        \o htons(h.operation)
        \o field(h.sender_hardaddr, h.hlen, 6) \o field(h.sender_protoaddr, h.plen, 4)
        \o field(h.target_hardaddr, h.hlen, 6) \o field(h.target_protoaddr, h.plen, 4)

-----------------------------------------------------------------------------
\* The protocol that goes into the IP header.
proto_of(packet) ==
    CASE packet.class = "TCPPacket"  -> IPPROTO_TCP
      [] packet.class = "UDPPacket"  -> IPPROTO_UDP
      [] packet.class = "ICMPPacket" -> IPPROTO_ICMP
      [] packet.class = "IPPacket"   -> packet.network.protocol % 256

\* The part behind the IP header iph.
set_transport(packet, iph, junk) ==
    CASE packet.class = "TCPPacket"  -> set_tcp(packet.transport, packet.data, iph, junk)
      [] packet.class = "UDPPacket"  -> set_udp(packet.transport, packet.data, iph)
      [] packet.class = "ICMPPacket" -> set_icmp(packet.transport, packet.data, junk)
      [] packet.class = "IPPacket"   -> packet.data

\* How many bytes set_packet counts behind the IP header: all the data, also
\* where set_tcp or set_udp has cut it.
transport_length(packet, junk) ==
    CASE packet.class = "TCPPacket"  -> Len(packet.data) + TCPHDRLEN
      [] packet.class = "UDPPacket"  -> Len(packet.data) + UDPHDRLEN
      [] packet.class = "ICMPPacket" -> Len(set_icmp(packet.transport, packet.data, junk))
      [] packet.class = "IPPacket"   -> Len(packet.data)

\* An IP packet.  The pseudo header of TCP and UDP is read before length, fragment
\* field and checksum are final, which it does not look at.
set_network(packet, junk) ==
    LET h   == packet.network
        v4  == h.version = 4
        len == transport_length(packet, junk) + (IF v4 THEN IPv4HDRLEN ELSE IPv6Len)
        iph == IF v4 THEN finished_ip(h, len, proto_of(packet)) ELSE set_ipv6(h, len, proto_of(packet))
        sent == iph \o set_transport(packet, iph, junk)
    IN  sent \o junk_bytes(len - Len(sent), junk)

\* A packet that is neither IP nor ARP is its data; the data of an ARP packet is
\* counted and not copied.
set_packet(packet, include_datalink, junk) ==
    (IF include_datalink THEN set_ether(packet.datalink) ELSE <<>>)
    \o CASE packet.class \in {"TCPPacket", "UDPPacket", "ICMPPacket", "IPPacket"} ->
              set_network(packet, junk)
         [] packet.class = "ARPPacket" ->
              set_arp(packet.network, junk) \o junk_bytes(Len(packet.data), junk)
         [] packet.class = "Packet" -> packet.data

\* A frame is sent with at least 60 bytes.
padded(frame) ==
    IF Len(frame) < 60 THEN frame \o [k \in 1..(60 - Len(frame)) |-> 0] ELSE frame

nativeSendPacket(packet, junk) == padded(set_packet(packet, TRUE, junk))

\* On the raw socket an IP packet is sent as it is, without a link header.
nativeSendPacketViaRawSocket(packet, junk) == set_packet(packet, FALSE, junk)
=============================================================================
