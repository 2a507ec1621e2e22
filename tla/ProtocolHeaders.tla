--------------------------- MODULE ProtocolHeaders --------------------------
(***************************************************************************)
(* The headers the stack writes into its packets and reads out of captured *)
(* ones: createHeader and handlePacket of IPProtocolLayer, UDPProtocolLayer *)
(* and the ICMP header objects, and the packets that PingApp and HPingApp   *)
(* build with them.  A HashMap is a record; what it lacks is null.          *)
(***************************************************************************)
EXTENDS FrameLayout, Checksum

null == <<>>
raised == "exception"

ETHERNET_FRAME_HEADER_LENGTH == 14
PROTOCL_ICMP == 1
ARP_REQUEST == 1
ARP_REPLY == 2
PROTOCOL_UDP == 17

\* A message with its checksum in the two bytes behind the first n.
with_checksum(bytes, n) ==
    LET sum == checksum(bytes)
    IN  [bytes EXCEPT ![n + 1] = sum \div 256, ![n + 2] = sum % 256]

zeros(n) == [k \in 1..n |-> 0]

\* headerInfo as a createHeader reads it: what the caller put in, and for a key it lacks
\* the default.
completed(headerInfo, defaults) ==
    [key \in DOMAIN headerInfo \cup DOMAIN defaults |->
       IF key \in DOMAIN headerInfo THEN headerInfo[key] ELSE defaults[key]]

-----------------------------------------------------------------------------
\* createHeader of ARPProtocolLayer: who has the address, asked of everyone.
BROADCAST == <<255, 255, 255, 255, 255, 255>>

makeARPRequestMsg(target_ip, device_mac, device_ip) ==
    <<0, 1>> \o htons(ETHERTYPE_IP) \o <<6, 4>> \o htons(ARP_REQUEST)
    \o device_mac \o device_ip \o BROADCAST \o target_ip

\* Where the ARP layer looks, whatever lengths the message announces.
ARP_OPCODE_START == 20
ARP_SENDER_MAC_START == 22
ARP_SENDER_IP_START == 28
ARP_TARGET_IP_START == 38

\* Its handlePacket: the sender of a reply to this device.  The bytes of the target are
\* compared one by one until one differs or is missing.
analyseARPMsg(data, device_ip) ==
    LET differs == \E i \in 0..3 : /\ ARP_TARGET_IP_START + i < Len(data)
                                  /\ At(data, ARP_TARGET_IP_START + i) # device_ip[i + 1]
    IN  IF Len(data) < ARP_SENDER_MAC_START THEN raised
        ELSE IF ntohs(data, ARP_OPCODE_START) # ARP_REPLY \/ differs THEN null
        ELSE IF Len(data) < ARP_TARGET_IP_START + 4 THEN raised
        ELSE [sender_mac |-> Bytes(data, ARP_SENDER_MAC_START, 6),
              sender_ip  |-> Bytes(data, ARP_SENDER_IP_START, 4)]

-----------------------------------------------------------------------------
\* What IPProtocolLayer takes where the caller gives nothing.
ip_defaults(device_ip) ==
    [internet_header_length |-> 5, dscp |-> 0, ecn |-> 0, options |-> <<>>, identification |-> 0,
     flag |-> 0, fragment_offset |-> 0, time_to_live |-> 64, source_ip |-> device_ip]

\* Options are counted twice when the header length makes room for them.
createIPHeader(headerInfo, device_ip) ==
    LET h == completed(headerInfo, ip_defaults(device_ip))
        hlen == 4 * h.internet_header_length
        bytes == <<64 + h.internet_header_length, (4 * h.dscp + h.ecn) % 256>>
                 \o htons(h.data_length + Len(h.options) + hlen)
                 \o htons(h.identification)
                 \o htons(8192 * h.flag + h.fragment_offset)
                 \o <<h.time_to_live % 256, h.protocol, 0, 0>>
                 \o h.source_ip \o h.destination_ip \o h.options
    IN  IF ~({"data_length", "protocol", "destination_ip"} \subseteq DOMAIN headerInfo) THEN null
        ELSE IF Len(bytes) > hlen THEN raised
        ELSE with_checksum(bytes \o zeros(hlen - Len(bytes)), 10)

\* The IP layer with the payload taken from behind the shortest header.
handleIPPacket_NoOptions(packet, device_ip) ==
    LET b == packet.header \o packet.data
        s == ETHERNET_FRAME_HEADER_LENGTH
        dest_ip == Bytes(b, s + ip.ip_dst, 4)
        dataLength == jshort(ntohs(b, s + ip.ip_len)) - 20
    IN  IF dest_ip # device_ip THEN null
        ELSE [source_ip |-> Bytes(b, s + ip.ip_src, 4), dest_ip |-> dest_ip,
              protocol |-> jbyte(At(b, s + ip.ip_p)), header |-> Bytes(b, s + 20, dataLength)]

\* The IP layer reads the frame anew: addresses, protocol and what the total length
\* says is behind the header.  What is not for the device is dropped.
handleIPPacket(packet, device_ip) ==
    LET b == packet.header \o packet.data
        s == ETHERNET_FRAME_HEADER_LENGTH
        dest_ip == Bytes(b, s + ip.ip_dst, 4)
        headerLength == 4 * (At(b, s + ip.ip_hl) % 16)
        dataLength == jshort(ntohs(b, s + ip.ip_len)) - headerLength
    IN  IF Len(b) < s + IPv4HDRLEN THEN raised
        ELSE IF dest_ip # device_ip THEN null
        ELSE IF dataLength < 0 \/ s + headerLength + dataLength > Len(b) THEN raised
        ELSE [source_ip |-> Bytes(b, s + ip.ip_src, 4),
              dest_ip   |-> dest_ip,
              protocol  |-> jbyte(At(b, s + ip.ip_p)),
              header    |-> Bytes(b, s + headerLength, dataLength)]

-----------------------------------------------------------------------------
\* A UDP datagram, whose checksum is left out.
createUDPHeader(headerInfo) ==
    IF ~({"source_port", "dest_port"} \subseteq DOMAIN headerInfo) THEN null
    ELSE LET data == completed(headerInfo, [data |-> <<>>]).data
         IN  htons(headerInfo.source_port) \o htons(headerInfo.dest_port)
             \o htons(Len(data) + 8) \o <<0, 0>> \o data

\* Ports are signed; the data is what Jpcap has split off.
handleUDPPacket(header, data) ==
    IF Len(header) < 6 THEN raised
    ELSE [src_port  |-> jshort(ntohs(header, 0)), dest_port |-> jshort(ntohs(header, 2)),
          length    |-> jshort(ntohs(header, 4)), data      |-> data]

-----------------------------------------------------------------------------
\* An echo request or its reply, with an identifier by chance if there is none.
createEchoHeader(headerInfo, chance) ==
    LET h == completed(headerInfo, [identifier |-> chance, sequence_number |-> 0])
        type == IF h.header = "echo_reply" THEN ICMP_ECHOREPLY ELSE ICMP_ECHO
    IN  IF h.header \notin {"echo", "echo_reply"} THEN null
        ELSE IF "data" \notin DOMAIN h THEN raised
        ELSE with_checksum(<<type, 0, 0, 0>> \o htons(h.identifier) \o htons(h.sequence_number)
                           \o h.data, 2)

\* A time stamp request.  The sequence number has another key than an echo's.
createTimeStampHeader(headerInfo, chance) ==
    LET h == completed(headerInfo, [identifier |-> chance, sequenceNumber |-> 0])
        time(key) == IF key \in DOMAIN h THEN h[key] ELSE <<>>
        times == time("original_time") \o time("receive_time") \o time("transmit_time")
    IN  IF h.header # "timestamp" THEN null
        ELSE with_checksum(<<ICMP_TSTAMP, 0, 0, 0>> \o htons(h.identifier) \o htons(h.sequenceNumber)
                           \o times \o zeros(12 - Len(times)), 2)

\* The chain: the first header object that builds a message builds it.
createICMPHeader(headerInfo, chance) ==
    LET echo == createEchoHeader(headerInfo, chance)
    IN  IF echo # null THEN echo ELSE createTimeStampHeader(headerInfo, chance)

\* What the chain reads out of a message.  The data of an echo is what Jpcap has split
\* off, that of a time-exceeded message is taken from the message.
handleICMPPacket(header, data) ==
    CASE At(header, 0) = ICMP_ECHOREPLY ->
           LET read == [identifier |-> jshort(ntohs(header, 4)), sequence |-> jshort(ntohs(header, 6))]
           IN  IF Len(header) > 8 THEN completed(read, [data |-> data]) ELSE read
      [] At(header, 0) = ICMP_TSTAMPREPLY ->
           [identifier |-> jshort(ntohs(header, 4)), sequence |-> jshort(ntohs(header, 6)),
            original_time |-> Bytes(header, 8, 4), receive_time |-> Bytes(header, 12, 4),
            transmit_time |-> Bytes(header, 16, 4)]
      [] At(header, 0) \notin {ICMP_ECHOREPLY, ICMP_TSTAMPREPLY} ->
           IF At(header, 0) # ICMP_TIMXCEED /\ At(header, 1) # 0 THEN null
           ELSE [type |-> ICMP_TIMXCEED, code |-> 0, data |-> Bytes(header, 8, Len(header) - 8)]

-----------------------------------------------------------------------------
\* The message of PingApp, and of HPingApp, which gives its sequence number under a
\* key that nobody reads.
createPing(app) ==
    createICMPHeader([header |-> "echo", identifier |-> app.identifier,
                      sequence_number |-> app.sequence, data |-> app.time], 0)

createHPing(app) ==
    createICMPHeader([header |-> "timestamp", identifier |-> app.identifier,
                      sequence_num |-> app.sequence, original_time |-> app.time,
                      receive_time |-> zeros(4), transmit_time |-> zeros(4)], 0)

\* createPackage: the message behind an IP header with the port for its identification.
createPackage(app, message, device_ip) ==
    createIPHeader([data_length |-> Len(message), destination_ip |-> app.destIp,
                    protocol |-> PROTOCL_ICMP, identification |-> app.identifier], device_ip)
    \o message

\* DataLinkLayer.sendData: a packet of no kind, its bytes behind an Ethernet header.
sendData(data, src_mac, dst_mac, frameType) ==
    [class |-> "Packet", data |-> data, network |-> <<>>, transport |-> <<>>,
     datalink |-> [frametype |-> frameType, src_mac |-> src_mac, dst_mac |-> dst_mac]]

\* getApplicationByPort: the first one in the list, or none.
getApplicationByPort(app_list, port) ==
    LET found == {k \in DOMAIN app_list : app_list[k].port = port}
    IN  IF found = {} THEN null ELSE app_list[CHOOSE k \in found : \A j \in found : k <= j]
=============================================================================
