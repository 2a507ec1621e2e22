----------------------------- MODULE FrameLayout -----------------------------
(***************************************************************************)
(* The headers Jpcap's C code lays over a captured frame, as the structs   *)
(* of its include files give them: where each field lies, and how a field  *)
(* is read.  A frame is a sequence of bytes; offsets count from 0, as in   *)
(* C.  The host is little-endian: a 16-bit field that is read without      *)
(* ntohs has its bytes exchanged.  32-bit numbers are kept as their four   *)
(* bytes, the highest first.                                               *)
(***************************************************************************)
EXTENDS Integers, Sequences, SequencesExt

ETHERTYPE_IP == 2048
ETHERTYPE_ARP == 2054
ETHERTYPE_REVARP == 32821
ETHERTYPE_IPV6 == 34525
UNKNOWN_PROTO == 65535

IPPROTO_ICMP == 1
IPPROTO_TCP == 6
IPPROTO_UDP == 17

\* What an IPv6 header may announce besides: extension headers, and what ends a walk.
IPPROTO_HOPOPTS == 0
IPPROTO_ROUTING == 43
IPPROTO_FRAGMENT == 44
IPPROTO_ESP == 50
IPPROTO_AH == 51
IPPROTO_NONE == 59
IPPROTO_DSTOPTS == 60

\* Values of pcap_datalink: Ethernet, token ring, and frames without a header.
DLT_EN10MB == 1
DLT_IEEE802 == 6
DLT_RAW == 12

\* Lengths of the fixed parts of the headers, and of the send buffer.
EtherLen == 14
ARPLen == 28
IPv4HDRLEN == 20
IPv6Len == 40
TCPHDRLEN == 20
UDPHDRLEN == 8
ICMPHDRLEN == 8
MAX_PACKET_SIZE == 1600

\* Offsets of the fields of each header.
ether_header == [ether_dest |-> 0, ether_src |-> 6, ether_type |-> 12]
arphdr == [ar_hrd |-> 0, ar_pro |-> 2, ar_hln |-> 4, ar_pln |-> 5, ar_op |-> 6, fixed |-> 8]
ip == [ip_hl |-> 0, ip_tos |-> 1, ip_len |-> 2, ip_id |-> 4, ip_off |-> 6, ip_ttl |-> 8,
       ip_p |-> 9, ip_sum |-> 10, ip_src |-> 12, ip_dst |-> 16]
ip6_hdr == [ip6_vfc |-> 0, ip6_plen |-> 4, ip6_nxt |-> 6, ip6_hlim |-> 7, ip6_src |-> 8, ip6_dst |-> 24]
ip6_ext == [ip6e_nxt |-> 0, ip6e_len |-> 1]
ip6_rthdr == [ip6r_len |-> 1, ip6r_type |-> 2, ip6r_segleft |-> 3]
ip6_frag == [ip6f_offlg |-> 2, ip6f_ident |-> 4]
newah == [ah_len |-> 1, ah_spi |-> 4, ah_seq |-> 8]
tcphdr == [th_sport |-> 0, th_dport |-> 2, th_seq |-> 4, th_ack |-> 8, th_off |-> 12,
           th_flags |-> 13, th_win |-> 14, th_sum |-> 16, th_urp |-> 18]
udphdr == [uh_sport |-> 0, uh_dport |-> 2, uh_ulen |-> 4, uh_sum |-> 6]
icmp == [icmp_type |-> 0, icmp_code |-> 1, icmp_cksum |-> 2, icmp_gwaddr |-> 4, icmp_id |-> 4,
         icmp_seq |-> 6, icmp_nextmtu |-> 6, icmp_data |-> 8, icmp_otime |-> 8,
         icmp_rtime |-> 12, icmp_ttime |-> 16, icmp_mask |-> 8]

\* Types of ICMP messages.
ICMP_ECHOREPLY == 0
ICMP_UNREACH == 3
ICMP_SOURCEQUENCH == 4
ICMP_REDIRECT == 5
ICMP_ECHO == 8
ICMP_TIMXCEED == 11
ICMP_PARAMPROB == 12
ICMP_TSTAMP == 13
ICMP_TSTAMPREPLY == 14
ICMP_MASKREQ == 17
ICMP_MASKREPLY == 18

-----------------------------------------------------------------------------
\* The byte at an offset, and the n bytes from it.
At(f, i) == f[i + 1]
Bytes(f, i, n) == SubSeq(f, i + 1, i + n)

\* A 16-bit field, through ntohs and as the host reads it.
ntohs(f, i) == 256 * At(f, i) + At(f, i + 1)
host16(f, i) == At(f, i) + 256 * At(f, i + 1)

\* A 32-bit field as the host reads it without ntohl.
host32(f, i) == Reverse(Bytes(f, i, 4))

\* Signed integers of 8 and 16 bits.
jbyte(n) == IF n % 256 > 127 THEN (n % 256) - 256 ELSE n % 256
jshort(n) == IF n % 65536 > 32767 THEN (n % 65536) - 65536 ELSE n % 65536

\* Bit k of a number.
Bit(n, k) == (n \div 2^k) % 2 = 1

\* The two bytes of a 16-bit number in network order.
htons(n) == <<(n % 65536) \div 256, n % 256>>
=============================================================================
