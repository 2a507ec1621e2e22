---------------------------- MODULE JpcapReceive -----------------------------
(***************************************************************************)
(* get_packet of JpcapCaptor.c and the analyze functions it calls: what a  *)
(* captured frame becomes as a Java packet object.                         *)
(*                                                                         *)
(* A frame is mem, whose first caplen bytes were captured; what follows is *)
(* whatever lies behind the capture buffer.  tproto is not initialised:    *)
(* where no branch sets it, it holds stale.  A packet object is a record   *)
(* of the fields the C code sets.                                          *)
(***************************************************************************)
EXTENDS FrameLayout

\* Where the network type and the network header lie, by type of device.
offset_type == <<0, 12, -1, -1, -1, -1, 20, -1, -1, 2, 19, 6, -1, -1, 5>>
offset_data == <<4, 14, -1, -1, -1, -1, 22, -1, 16, 4, 21, 8, 0, 24, 24>>

get_network_type(mem, linktype) == ntohs(mem, offset_type[linktype + 1])
datalink_hlen(linktype) == offset_data[linktype + 1]
skip_datalink_header(mem, linktype) == SubSeq(mem, datalink_hlen(linktype) + 1, Len(mem))

\* The types of device whose frames are looked into.
Known == {DLT_RAW, DLT_IEEE802, DLT_EN10MB}

-----------------------------------------------------------------------------
\* The Ethernet header, or an object that holds nothing.
analyze_datalink(mem, linktype) ==
    IF linktype = DLT_EN10MB
    THEN [frametype |-> jshort(ntohs(mem, ether_header.ether_type)),
          src_mac |-> Bytes(mem, ether_header.ether_src, 6),
          dst_mac |-> Bytes(mem, ether_header.ether_dest, 6)]
    ELSE <<>>

\* Length of an IP header in bytes.
ip_hl(p) == 4 * (At(p, ip.ip_hl) % 16)

\* The IPv4 header.  The flags are read from the fragment field as the host
\* sees it, the offset through ntohs.
analyze_ip(p) ==
    LET tos == At(p, ip.ip_tos)
        ip_off == host16(p, ip.ip_off)
    IN  [ version   |-> 4,
          priority  |-> tos \div 32,
          d_flag    |-> Bit(tos, 4),
          t_flag    |-> Bit(tos, 3),
          r_flag    |-> Bit(tos, 2),
          rsv_tos   |-> tos % 4,
          rsv_frag  |-> Bit(ip_off, 15),
          dont_frag |-> Bit(ip_off, 14),
          more_frag |-> Bit(ip_off, 13),
          offset    |-> ntohs(p, ip.ip_off) % 8192,
          length    |-> jshort(ntohs(p, ip.ip_len)),
          ident     |-> jshort(ntohs(p, ip.ip_id)),
          hop_limit |-> At(p, ip.ip_ttl),
          protocol  |-> At(p, ip.ip_p),
          src_ip    |-> Bytes(p, ip.ip_src, 4),
          dst_ip    |-> Bytes(p, ip.ip_dst, 4),
          option    |-> IF ip_hl(p) > IPv4HDRLEN
                        THEN Bytes(p, IPv4HDRLEN, ip_hl(p) - IPv4HDRLEN) ELSE <<>> ]

\* The TCP header.
tcp_hlen(p) == 4 * (At(p, tcphdr.th_off) \div 16)

analyze_tcp(p) ==
    LET flags == At(p, tcphdr.th_flags)
    IN  [ src_port |-> ntohs(p, tcphdr.th_sport),
          dst_port |-> ntohs(p, tcphdr.th_dport),
          sequence |-> Bytes(p, tcphdr.th_seq, 4),
          ack_num  |-> Bytes(p, tcphdr.th_ack, 4),
          urg |-> Bit(flags, 5), ack |-> Bit(flags, 4), psh |-> Bit(flags, 3),
          rst |-> Bit(flags, 2), syn |-> Bit(flags, 1), fin |-> Bit(flags, 0),
          rsv1 |-> Bit(flags, 7), rsv2 |-> Bit(flags, 6),
          window |-> ntohs(p, tcphdr.th_win),
          urgent_pointer |-> jshort(ntohs(p, tcphdr.th_urp)),
          option |-> IF tcp_hlen(p) > TCPHDRLEN
                     THEN Bytes(p, TCPHDRLEN, tcp_hlen(p) - TCPHDRLEN) ELSE <<>> ]

\* The UDP header with its ports as the host reads them.
analyze_udp_HostOrder(p) ==
    [src_port |-> host16(p, udphdr.uh_sport), dst_port |-> host16(p, udphdr.uh_dport),
     length |-> ntohs(p, udphdr.uh_ulen)]

\* The UDP header.
analyze_udp(p) ==
    [src_port |-> ntohs(p, udphdr.uh_sport), dst_port |-> ntohs(p, udphdr.uh_dport),
     length |-> ntohs(p, udphdr.uh_ulen)]

\* The ICMP header and what follows it, by type; clen is the length of the
\* message.  Numbers are taken as the host reads them, and of the identifier and
\* the sequence number the upper byte only, as a signed one.
HoldsIPHeader == {ICMP_REDIRECT, ICMP_UNREACH, ICMP_SOURCEQUENCH, ICMP_TIMXCEED, ICMP_PARAMPROB}
HoldsID(type) == type \in {ICMP_ECHOREPLY, ICMP_ECHO} \/ type > ICMP_PARAMPROB

analyze_icmp(p, clen) ==
    LET type == At(p, icmp.icmp_type)
        where(cond, field) == IF cond THEN field ELSE <<>>
    IN  [type |-> jbyte(type), code |-> jbyte(At(p, icmp.icmp_code)),
         checksum |-> jshort(host16(p, icmp.icmp_cksum))]
        @@ where(HoldsID(type),
                 [id |-> jbyte(host16(p, icmp.icmp_id) \div 256),
                  seq |-> jbyte(host16(p, icmp.icmp_seq) \div 256)])
        @@ where(type = ICMP_REDIRECT, [redir_ip |-> Bytes(p, icmp.icmp_gwaddr, 4)])
        @@ where(type \in {ICMP_REDIRECT, ICMP_UNREACH},
                 [mtu |-> jshort(host16(p, icmp.icmp_nextmtu))])
        @@ where(type \in HoldsIPHeader /\ clen % 65536 >= IPv4HDRLEN + 16,
                 [ippacket |-> analyze_ip(SubSeq(p, icmp.icmp_data + 1, Len(p)))])
        @@ where(type \in {ICMP_TSTAMP, ICMP_TSTAMPREPLY},
                 [orig_timestamp |-> host32(p, icmp.icmp_otime),
                  recv_timestamp |-> host32(p, icmp.icmp_rtime),
                  trans_timestamp |-> host32(p, icmp.icmp_ttime)])
        @@ where(type \in {ICMP_MASKREQ, ICMP_MASKREPLY},
                 [subnetmask |-> host32(p, icmp.icmp_mask)])

\* The ARP message, whose addresses follow one another by their lengths.
arp_hlen(p) == arphdr.fixed + 2 * At(p, arphdr.ar_hln) + 2 * At(p, arphdr.ar_pln)

analyze_arp(p) ==
    LET hl == At(p, arphdr.ar_hln)
        pl == At(p, arphdr.ar_pln)
        s  == arphdr.fixed
    IN  [ hardtype  |-> jshort(ntohs(p, arphdr.ar_hrd)),
          prototype |-> jshort(ntohs(p, arphdr.ar_pro)),
          hlen |-> hl, plen |-> pl,
          operation |-> jshort(ntohs(p, arphdr.ar_op)),
          sender_hardaddr  |-> Bytes(p, s, hl),
          sender_protoaddr |-> Bytes(p, s + hl, pl),
          target_hardaddr  |-> Bytes(p, s + hl + pl, hl),
          target_protoaddr |-> Bytes(p, s + hl + pl + hl, pl) ]

\* The IPv6 header.  The class is masked out of the wrong bytes and comes out 0;
\* of the flow label the bytes come out in the order of the wire.
ipv6_header(p) ==
    [ version    |-> 6,
      priority   |-> 0,
      flow_label |-> <<At(p, 0), At(p, 1), At(p, 2) % 16, 0>>,
      length     |-> jshort(ntohs(p, ip6_hdr.ip6_plen)),
      protocol   |-> jbyte(At(p, ip6_hdr.ip6_nxt)),
      hop_limit  |-> At(p, ip6_hdr.ip6_hlim),
      src_ip     |-> Bytes(p, ip6_hdr.ip6_src, 16),
      dst_ip     |-> Bytes(p, ip6_hdr.ip6_dst, 16) ]

Extensions == {IPPROTO_HOPOPTS, IPPROTO_DSTOPTS, IPPROTO_ROUTING, IPPROTO_AH, IPPROTO_FRAGMENT}

\* How long an extension header says it is.
extension_hlen(p, d, proto) ==
    CASE proto = IPPROTO_FRAGMENT -> 8
      [] proto = IPPROTO_AH       -> 4 * (At(p, d + newah.ah_len) + 2)
      [] OTHER                    -> 8 * (At(p, d + ip6_ext.ip6e_len) + 1)

\* The extension header at offset d.  Options are taken from behind two headers,
\* authentication data from behind eight, and every address of a route is the first.
ipv6_option(p, d, proto) ==
    LET len == At(p, d + ip6_ext.ip6e_len)
        offlg == ntohs(p, d + ip6_frag.ip6f_offlg)
    IN  [type |-> proto, next_header |-> jbyte(At(p, d + ip6_ext.ip6e_nxt)), hlen |-> jbyte(len)]
        @@ CASE proto \in {IPPROTO_HOPOPTS, IPPROTO_DSTOPTS} ->
                  [option |-> Bytes(p, d + 4, len)]
             [] proto = IPPROTO_ROUTING ->
                  [routing_type |-> jbyte(At(p, d + ip6_rthdr.ip6r_type)),
                   hop_left |-> jbyte(At(p, d + ip6_rthdr.ip6r_segleft)),
                   addrs |-> [k \in 1..(len \div 2) |-> Bytes(p, d + 8, 16)]]
             [] proto = IPPROTO_FRAGMENT ->
                  [offset |-> jshort(offlg - (offlg % 8)), m_flag |-> Bit(offlg, 0),
                   identification |-> Bytes(p, d + ip6_frag.ip6f_ident, 4)]
             [] proto = IPPROTO_AH ->
                  [spi |-> Bytes(p, d + newah.ah_spi, 4), sequence |-> Bytes(p, d + newah.ah_seq, 4),
                   option |-> Bytes(p, d + 96, len)]

\* The extension headers from offset d on, and the length of all of them.  The
\* addresses of a routing header are stepped over twice, by their loop and by the
\* length of the header.
analyze_ipv6(p) ==
    LET walk[d \in 0..Len(p), proto \in 0..255] ==
          IF proto \notin Extensions THEN [options |-> <<>>, hlen |-> 0]
          ELSE LET hlen == extension_hlen(p, d, proto)
                   addrs == IF proto = IPPROTO_ROUTING
                            THEN 16 * (At(p, d + ip6_rthdr.ip6r_len) \div 2) ELSE 0
                   rest == walk[d + addrs + hlen, At(p, d + ip6_ext.ip6e_nxt)]
               IN  [options |-> <<ipv6_option(p, d, proto)>> \o rest.options,
                    hlen |-> hlen + rest.hlen]
        walked == walk[IPv6Len, At(p, ip6_hdr.ip6_nxt)]
    IN  [header |-> ipv6_header(p) @@ [options |-> walked.options],
         hlen   |-> IPv6Len + walked.hlen]

-----------------------------------------------------------------------------
\* What get_packet takes for the network protocol, and how many bytes it counts
\* behind the link header, which it knows of some devices only.
network_type(mem, linktype) ==
    CASE linktype = DLT_RAW                   -> ETHERTYPE_IP
      [] linktype \in Known \ {DLT_RAW}       -> get_network_type(mem, linktype)
      [] OTHER                                -> UNKNOWN_PROTO

behind_datalink(caplen, linktype) ==
    jshort(caplen) - (IF linktype \in Known THEN datalink_hlen(linktype) ELSE 0)

\* The protocol and the bytes left when the extension headers of an IPv6 packet are
\* skipped.  The walk starts at the IPv6 header itself, not behind it.
skip_extensions(p, clen) ==
    LET walk[d \in 0..Len(p), proto \in 0..UNKNOWN_PROTO] ==
          IF proto \notin Extensions \/ clen - d <= 0 THEN [tproto |-> proto, clen |-> clen - d]
          ELSE LET next == At(p, d + ip6_ext.ip6e_nxt)
               IN  walk[d + extension_hlen(p, d, proto),
                        IF next \in {IPPROTO_ESP, IPPROTO_NONE} THEN UNKNOWN_PROTO ELSE next]
    IN  walk[0, At(p, ip6_hdr.ip6_nxt)]

\* The transport protocol, and the bytes left for it.  Of a fragment other than the
\* first, and of an ARP message with nothing behind it, no protocol is found: the
\* former stays IP, the latter keeps what the variable held.
transport_type(p, nproto, clen, stale) ==
    CASE clen <= 0 -> [tproto |-> stale, clen |-> clen]
      [] clen > 0 /\ nproto = ETHERTYPE_IP ->
           LET left == clen - ip_hl(p)
           IN  [tproto |-> IF left > 0 /\ ntohs(p, ip.ip_off) % 8192 = 0
                           THEN At(p, ip.ip_p) ELSE ETHERTYPE_IP,
                clen |-> left]
      [] clen > 0 /\ nproto = ETHERTYPE_IPV6 ->
           IF clen > IPv6Len THEN skip_extensions(p, clen - IPv6Len)
           ELSE [tproto |-> stale, clen |-> clen - IPv6Len]
      [] clen > 0 /\ nproto = ETHERTYPE_ARP ->
           [tproto |-> IF clen > ARPLen THEN ETHERTYPE_ARP ELSE stale, clen |-> clen - ARPLen]
      [] clen > 0 /\ nproto \notin {ETHERTYPE_IP, ETHERTYPE_IPV6, ETHERTYPE_ARP} ->
           [tproto |-> nproto, clen |-> clen]

\* A transport header that was cut short is not looked into.
unless_truncated(t) ==
    IF \/ t.tproto = IPPROTO_TCP /\ t.clen < TCPHDRLEN
       \/ t.tproto = IPPROTO_UDP /\ t.clen < UDPHDRLEN
       \/ t.tproto = IPPROTO_ICMP /\ t.clen < ICMPHDRLEN
    THEN UNKNOWN_PROTO ELSE t.tproto

\* The class of the packet object.
packet_class(tproto, nproto) ==
    CASE tproto = IPPROTO_TCP  -> "TCPPacket"
      [] tproto = IPPROTO_UDP  -> "UDPPacket"
      [] tproto = IPPROTO_ICMP -> "ICMPPacket"
      [] tproto \notin {IPPROTO_TCP, IPPROTO_UDP, IPPROTO_ICMP} ->
           CASE nproto \in {ETHERTYPE_IP, ETHERTYPE_IPV6}    -> "IPPacket"
             [] nproto \in {ETHERTYPE_ARP, ETHERTYPE_REVARP} -> "ARPPacket"
             [] OTHER                                        -> "Packet"

\* The network header, its length, and how many bytes it says there are with it.
analyze_network(p, nproto, caplen, linktype) ==
    CASE nproto = ETHERTYPE_IP ->
           [header |-> analyze_ip(p), hlen |-> ip_hl(p), clen |-> jshort(ntohs(p, ip.ip_len))]
      [] nproto = ETHERTYPE_IPV6 ->
           analyze_ipv6(p) @@ [clen |-> jshort(ntohs(p, ip6_hdr.ip6_plen) + IPv6Len)]
      [] nproto = ETHERTYPE_ARP ->
           [header |-> analyze_arp(p), hlen |-> arp_hlen(p), clen |-> arp_hlen(p)]
      [] nproto = UNKNOWN_PROTO -> [header |-> <<>>, hlen |-> 0, clen |-> caplen]
      [] OTHER -> [header |-> <<>>, hlen |-> 0, clen |-> caplen - datalink_hlen(linktype)]

\* All the header announces, captured or not.
captured_part_Unclamped(n, nproto, tproto, room) == n.clen

\* a > b, compared as unsigned integers.
exceeds(a, b) == IF (a < 0) = (b < 0) THEN a > b ELSE a < 0

\* What was not captured is not counted - unless the transport protocol is unknown.
captured_part(n, nproto, tproto, room) ==
    IF UNKNOWN_PROTO \notin {nproto, tproto} /\ exceeds(n.clen, room) THEN room ELSE n.clen

\* The transport header and its length.
analyze_transport(p, tproto, clen) ==
    CASE tproto = IPPROTO_TCP  -> [header |-> analyze_tcp(p), hlen |-> tcp_hlen(p)]
      [] tproto = IPPROTO_UDP  -> [header |-> analyze_udp(p), hlen |-> UDPHDRLEN]
      [] tproto = IPPROTO_ICMP -> [header |-> analyze_icmp(p, clen), hlen |-> ICMPHDRLEN]
      [] OTHER                 -> [header |-> <<>>, hlen |-> 0]

\* The bytes of the frame, divided behind the last header that was looked into.
divide(mem, start, hlen, clen) ==
    LET cut == IF hlen > clen THEN clen ELSE hlen
    IN  [header |-> SubSeq(mem, 1, start + cut),
         data   |-> SubSeq(mem, start + cut + 1, start + clen)]

\* The packet object, when the protocols are known and the network header n is read.
packet_object(mem, caplen, linktype, nproto, tproto, n) ==
    LET p     == skip_datalink_header(mem, linktype)
        clen  == captured_part(n, nproto, tproto, caplen - datalink_hlen(linktype)) - n.hlen
        t     == analyze_transport(SubSeq(p, n.hlen + 1, Len(p)), tproto, clen)
        start == n.hlen + (IF nproto = UNKNOWN_PROTO THEN 0 ELSE datalink_hlen(linktype))
    IN  [ class     |-> packet_class(tproto, nproto),
          caplen    |-> caplen,
          datalink  |-> analyze_datalink(mem, linktype),
          network   |-> n.header,
          transport |-> t.header ]
        @@ divide(mem, start, t.hlen, clen)

get_packet(mem, caplen, linktype, stale) ==
    LET nproto == network_type(mem, linktype)
        p      == skip_datalink_header(mem, linktype)
        tproto == unless_truncated(
                    transport_type(p, nproto, behind_datalink(caplen, linktype), stale))
    IN  packet_object(mem, caplen, linktype, nproto, tproto,
                      analyze_network(p, nproto, caplen, linktype))

-----------------------------------------------------------------------------
NULL == "null"
EOF == "EOF"

\* captor.getPacket, by the result of pcap_next_ex: 1 for a frame, 0 for a timeout, -1
\* for an error, -2 at the end of a file.
getPacket(res, mem, caplen, linktype, stale) ==
    CASE res \in {0, -1} -> NULL
      [] res = -2        -> EOF
      [] res = 1         -> get_packet(mem, caplen, linktype, stale)

\* writer.writePacket: what a dump file gets for a packet is as long as the frame that
\* was captured; behind header and data it is junk.
writePacket(packet, junk) ==
    LET buf == packet.header \o packet.data
    IN  [k \in 1..packet.caplen |-> IF k <= Len(buf) THEN buf[k] ELSE junk]
=============================================================================
