# TLA+ for the TCP/IP stack in Java

A verification project for the user-space TCP/IP stack in `src/src`: a program that reads and
writes Ethernet frames through Jpcap and implements ARP, IP, ICMP and UDP, with six small
applications on top (ping, hping, traceroute, DHCP, DNS, TFTP).  The modules here model its
behaviour and that of the C code of Jpcap under it (`src/api/jpcap`), TLC checks them on small
networks, and TLAPS proves some of the results for networks of any size.  Java paths below are
relative to the repository's `src/src`, C paths to `src/api/jpcap/Jpcap-master/src/main/c`.

1. [The system](#1-the-system)
2. [The modules](#2-the-modules)
3. [The runs](#3-the-runs)
4. [Fairness](#4-fairness)
5. [What is proved](#5-what-is-proved)
6. [Where the program and its words differ](#6-where-the-program-and-its-words-differ)
7. [What is not modelled](#7-what-is-not-modelled)
8. [Plan](#8-plan)
9. [How to run](#9-how-to-run)

## 1. The system

### One thread, two phases

`ProtocolEntry.main` picks a network card, opens it with Jpcap, starts one application (the
others are commented out in turn) and then calls `loopPacket(-1, ...)`, which never returns.
Everything happens on this thread.  Until the loop is entered the application may send but
nothing is received: frames that arrive are kept in Jpcap's capture buffer.  From then on each
frame is handled to its end before the next is taken, and whatever an application sends it
sends inside its own `handleData`.  There are no locks, no timers and no retransmissions.

The interleavings that matter are therefore not those of threads but those of *frames*: the
order in which requests, replies, repeated, late and foreign packets arrive between two
hand-overs of an application.

### Components

| component | state | operations | what makes it correct |
|---|---|---|---|
| `ProtocolEntry` | - | open the card, start an application, loop | the application is started before the loop, the card opened before both |
| `DataLinkLayer`, `PacketProvider` | list of receivers (one: `ProtocolManager`) | `sendData`, `receivePacket`, `pushPacketToReceivers` | each captured frame is handled once, in order |
| `ProtocolManager` | `ipToMacTable`, `dataWaitToSend`, `icmpPacketReceiverList` | `sendData`, `broadCast`, `receivePacket`, `sendWaitingData`, `handleIPPacket`, `handleICMPPacket`, `handleUDPPacket`, `registToReceiveICMPPacket` | a packet handed over goes to the router once, in order, and is lost only to a newer one; none waits when it need not |
| `ARPProtocolLayer` | - | `analyseARPMsg`, `makeARPRequestMsg` | only a reply to this device yields an address |
| `IPProtocolLayer`, `UDPProtocolLayer` | - | read and write headers | what is for this device, and only that, is let through |
| `ICMPProtocolLayer` and header objects | - | a chain of objects, the first that wants a message reads it | each message is read as what it is |
| `ApplicationManager`, `Application` | list of applications | lookup by port | a datagram reaches the application it is for |
| `TraceRoute` | `time_to_live`, `dest_port` | `startTraceRoute`, `handleData` | the hops printed are the hops of the route |
| `DHCPApplication` | `dhcp_current_state`, `server_supply_ip` | `dhcpDiscovery`, `handleData`, `readOptions`, `dhcpRequest` | it requests what is offered and ends bound to what is acknowledged |
| `DNSApplication` | transaction id | `queryDomain`, `handleData` | the answers printed are those of the reply |
| `TFTPClient` | `data_block`, `server_port`, `download_file_stream` | `getFile`, `handleData`, `handleDataPacket`, `sendACKPacket` | the local file is the remote file, and the transfer ends |
| `PingApp`, `HPingApp` | sequence counter | `startPing` | each request goes out and each reply is matched |
| `Utility` | - | `checksum`, byte conversions | receivers accept the checksums |
| Jpcap: instances | slots (`instanciatedFlag`); per slot a handle, link type, mask, packet handler; the raw socket; a writer | open, share, filter, loop, `close` | an object uses its own handle, with its own link type, mask and handler; no slot is lost |
| Jpcap: receiving | - | `get_packet`, the `analyze_` functions, `getPacket`, `writePacket` | header and data of the object are the bytes of the frame, of the right class |
| Jpcap: sending | - | `set_packet`, the `set_` functions, `in_cksum`, `in_cksum2` | what is sent can be read again, with checksums receivers accept |
| Jpcap: list of devices | - | `getDeviceList` | a card has its own addresses, so the stack writes the right ones |

### How they interact

* **Down.**  An application hands a packet to `ProtocolManager.sendData(packet, ip)`.  Every
  packet goes by way of the router (`getRouterIP`).  If the ARP table has no link address for it,
  the packet is put into `dataWaitToSend` under its destination - *replacing* the one that waits
  there - and an ARP request is sent.  Otherwise it goes straight out.  DHCP uses `broadCast`.
* **Up.**  `receivePacket` gives an ARP message to the ARP layer, stores what that yields, and
  tries `sendWaitingData`.  An IP packet for the device goes to the ICMP chain, whose result every
  registered program gets, or to the application with its UDP port.  An exception anywhere in the
  chain ends the handling of that frame and is printed; the next frame is then taken.

### What is hard to test

The full list, with the line where each bites, is under `hazards` in `PROJECT.json`.  In short:

* the waiting table has one slot for a destination, is emptied by *any* ARP message once the
  address is known, and nothing asks again by itself;
* answers are not matched to requests: TraceRoute takes any time-exceeded message for the answer
  to its last probe, TFTP takes any data block for the next, and DHCP takes the address from every
  reply before it knows its type;
* no application has a timer, so liveness rests on the other side, or on nothing being lost;
* an exception half way through a handler leaves the first half done (DHCP options, DNS
  answers, the ICMP chain, the TFTP write);
* bytes are signed and pointers, lengths, carries and times to live have boundaries;
* Jpcap's tables are kept per slot and slots are used again, so what an earlier object left must
  not be seen by a later one; a sender made from a captor shares its slot without a count, and a
  loop started inside a packet handler replaces the handler of the outer one;
* Jpcap reads some fields in the byte order of the wire and some in the host's, divides a frame by
  lengths it has not checked against what was captured, and branches on a variable that some paths
  leave uninitialised; the IP layer then joins header and data and divides them anew.

## 2. The modules

| module | models | composed with |
|---|---|---|
| `Outbox` | *abstract*: what the send path promises | - |
| `ProtocolManager` | `ProtocolManager` send and ARP paths, `ARPProtocolLayer`, the loop of `main`, the capture buffer, a router | implements `Outbox` (refinement mapping in the module) |
| `ICMPProtocolLayer` | which header object takes a message | used by `TraceRoute` |
| `TraceRoute` | `TraceRoute`, `handleICMPPacket`, the route's routers | instantiates `Outbox` as its send path |
| `TFTPClient` | `TFTPClient`, a TFTP server with several sessions, a faulty network | - |
| `DHCPOptions` | `DHCPApplication.readOptions` byte by byte | used by `DHCPApplication` |
| `DHCPApplication` | `DHCPApplication`, the destination check of the IP layer, DHCP servers, a faulty network | - |
| `DNSReply` | `DNSApplication`: the query, and `handleData` byte by byte | - |
| `Checksum` | `Utility.checksum` | used by `ProtocolHeaders` |
| `FrameLayout` | the structs of the C include files: where each field lies, how it is read | used by the next three |
| `JpcapReceive` | `get_packet` and the functions it calls; `getPacket`, `writePacket` | - |
| `JpcapSend` | `set_packet` and the functions it calls; both ways to send | - |
| `ProtocolHeaders` | messages and headers as `ARPProtocolLayer`, `IPProtocolLayer`, `UDPProtocolLayer` and the ICMP objects write and read them; the packets of `PingApp` and `HPingApp`; the lookup by port | - |
| `DeviceList` | `getDeviceList`, the choice of `main`, `initWithOpenDevice` | - |
| `MCPackets` | inputs and properties of the five modules above | joins them: down through every layer and up again |
| `Jpcap` | the instances of Jpcap and the tables they share | - |
| `ProtocolManagerProofs`, `TFTPClientProofs`, `DHCPApplicationProofs`, `TraceRouteProofs`, `JpcapProofs` | theorems | each extends its module |
| `FormatProofs` | theorems about `DHCPOptions` and `Checksum`, and the recursion over positions they need | extended by `DHCPApplicationProofs` and `HeaderProofs` |
| `HeaderProofs` | theorems about `ProtocolHeaders` | extends it and `FormatProofs` |
| `PacketProofs` | theorems about `JpcapSend`, `DeviceList` and what `ProtocolHeaders` writes, and about the runs of `MCFormats` and `MCPackets` | extends `MCFormats` and `HeaderProofs` |
| other `MC*` | values of the constants; `MCFormats` also holds the reference formats | `MCFormats` extends `MCPackets` |

Operators with an underscore in their names (`SendData_KeepFirst`, `HandleData_OldState`, ...)
are plausible wrong versions of the one that follows them.  Nothing uses them; each is there to
show that a property would notice the mistake.

### ProtocolManager

A packet is the number of its hand-over, so identity and order are in the name.  `ipToMacTable`
and `dataWaitToSend` are the two Java tables; `accepted` (destinations of the packets handed
over) and `wire` (what was transmitted, with the link address used) are histories that no guard
reads, except that the next number is one more than the length of `accepted`.

| action | code |
|---|---|
| `AppStart`, `SendData`, `BroadCast` | an application sending before the loop: `sendData`, `broadCast` |
| `EnterLoop` | `loopPacket(-1, ...)` |
| `ReceiveARP` with `AnalyseARPMsg`, `SendWaitingData` | ARP branch of `receivePacket`: `analyseARPMsg`, the `put`, `sendWaitingData` |
| `ReceiveIP` | IP branch: dropped, or given to an application that may send |
| `RouterAnswers`, `ReplyArrives`, `NetworkLoses`, `RouterChanges`, `HostSends` | the environment |

A message that the ARP layer refuses is stored in the code under the key `"null"`.  No lookup
uses that key, so the model leaves the table alone - but `sendWaitingData` still runs, as in the
code.  The order in which a hash table gives up its packets is any order (`SetToSeqs`).
Requests on their way are one flag and replies a set: several requests at once get one answer.

`Outbox` says the same with no ARP, frames or buffer: a closed box per destination, one opening
that sends everything, and then packets go straight through.  It is what `TraceRoute` builds on.

### TraceRoute

The send path is the `Outbox`, by `INSTANCE`; `icmp` is the set of ICMP messages on their
way.  `ICMPProtocolLayer!HandlePacket` picks the header object: the one for time-exceeded
messages refuses a message only if type *and* code differ, and stores 11 and 0 in its result
whatever they were.  Where no object wants a message, `handleICMPPacket` ends in an exception,
and that is how a trace stops: the target answers "port unreachable" (3, 3), which nobody takes.
Routers in `silent` answer nothing.  `probes` and `report` are histories.

### TFTPClient

`HandleData` takes the server's port from *every* packet, before it looks at what it is.
`HandleDataPacket` writes the block, whatever its number, and acknowledges that number.  A stream
that is null (the file could not be opened, and the request is sent all the same) raises an
exception before the acknowledgement; a closed one fails to write, reports that and still
acknowledges.  The server gives each copy of the request a session and a port of its own, and is
the only party with a timeout.  `SourceIP` is the address that the client writes into its packets:
the code forges one that is not the device's, and the destination check of the IP layer then drops
what is sent to it; the runs give both the same value, to look at the transfer itself.

### DHCPApplication

`ReadOptions` of `DHCPOptions` walks the option bytes as the loop and its switch (`ReadFrom`) do: option 53
moves the state, timers and sized options are skipped, and an unknown code costs one byte, so that
its length and value are then read as codes.  Running out of bytes is an exception: what
the walk changed stays changed and the request is not sent.  `HandleData` takes `yiaddr` from any
reply, then walks, then sends a request if the state is REQUESTING *after* the walk.
A client that sets no broadcast flag gets OFFER and ACK at the offered address, so the IP layer
(`ForUs`) only lets them through if that is the address the device already has.

### DNSReply, Checksum and MCFormats

The reader of DNS replies, the option walk and the checksum are pure functions, translated
as recursive functions over positions.  `MCFormats` builds the inputs from a description - a list
of options, of answers, of bytes - with its own encoder, and compares what the code reads with
the description.  Values are chosen to contain bytes that look like codes, lengths, pointers and
ends.  Every reply is also cut at every byte.

`handleData` takes a byte of each answer's name to see whether it is a pointer.  If it is not, that byte was
the first label's length, and `readStringContent` begins behind it: the name comes out wrong, and with
it the place where the answer's type is looked for.  Of an answer of another type than the two it knows the code
does not skip the data.  So `ReadsWholeReply` speaks of the answers in front of the first of
either kind (`BeforeUnread`), and `NamesOfBothFormsAreRead`, which repeats what the comments there say of
names, is violated in `dns_names`.  A name whose pointers form a ring is not among the inputs:
Java would follow it until its stack overflows, and the recursive function has no value.

### JpcapReceive, JpcapSend and FrameLayout

A frame is a sequence of bytes, a packet object a record of the fields that the C code sets.
The record of every header of the include files gives the offsets; `ntohs` and `host16` are the two
ways the code reads a number, and which one is used is taken from the code field by field.

`get_packet(mem, caplen, linktype, stale)` has *more* memory than was captured: `mem` goes on behind
`caplen` with bytes that nothing promises, so that a read beyond the end yields a value that a
property can see.  `stale` is what the uninitialised `tproto` holds; the properties quantify over it.
In the other direction a byte that `set_packet` does not set is `Junk`.

### ProtocolHeaders

A `HashMap` of header fields is a record; a field that is absent is one the record lacks, and where
the code then fails the result is `raised` or `null`.  `handleIPPacket` joins what Jpcap calls header
and data and divides it again by the header length and the total length, as the code does.

### DeviceList

Two lists that need not agree: the cards of libpcap and those of the IP helper, joined by the end of
their names.  The comparison goes from the end, NUL included, and takes 30 equal characters for a match: the
29 behind the first eight digits of a GUID (`same_end`).  Names that differ in those digits only are
not told apart, and the last adapter that matches gives the link address.  `chosen` is the loop of `main`, which keeps the *last* suitable card, and
`initWithOpenDevice` takes the addresses from it.

### MCPackets

Three ways around the same code, each against a writer or reader that the module has for itself:

* a frame, written by the formats of the protocols, goes through `get_packet`; it is cut by up to 20
  bytes, padded, written to a dump file and read again;
* a packet object goes through `set_packet` and back through `get_packet`;
* a request of an application, or for a link address, goes down - application, UDP or ICMP, IP or ARP,
  Jpcap - to a peer, and the peer's answer comes up the same way.

The way back and forth of a packet object alone would not notice a field that both sides get wrong
in the same manner; lengths, protocols, addresses and the division of headers are compared with the
frames of the module's own writer and by the checksums, which a receiver's test recomputes.

### Jpcap

The objects are those a Java program makes, the tables the C arrays.  Every call that opens may also
fail, which is an action of its own, because what it leaves behind differs.  There is one thread:
`stack` holds the loops that run, and Java code runs outside of all of them or inside a handler of
the innermost.  What uses a handle that is null, closed or freed ends the process, so
it is not a step; the properties say when a program cannot come to that.  `own` records the handle
opened for each object, and `careful` that nothing has been closed that belongs to another object;
no guard reads either.

| action | code |
|---|---|
| `openDevice`, `openFile`, `openSender` and `_Fails`, `Refused` | the constructors: `reserveID`, then `nativeOpenLive`, `nativeOpenOffline`, `nativeOpenDevice` |
| `openRawSocket`, `closeRawSocket` | the sender on the raw socket, whose ID is no slot |
| `getJpcapSenderInstance` | a sender with the ID of a captor |
| `close` with `nativeClose`, `unreserveID` | `close` of a captor or sender: `nativeClose` or `nativeCloseDevice`, then `unreserveID` |
| `setFilter` | compiled with the mask of the slot |
| `loopPacket`, `dispatcher_handler`, `handlerReturns`, `loopReturns` | `processPacket` and `loopPacket` around `pcap_loop` |
| `openDumpFile`, `closeDumpFile` | `JpcapWriter` |

## 3. The runs

### Runs that pass

| run | shows | bounds and why they are enough |
|---|---|---|
| `send_path` (`MCProtocolManager.cfg`) | no packet is stranded, sent twice, reordered for its destination, sent to another host, or lost except to a newer one for the same destination; `ProtocolManager` implements `Outbox`; a captured reply of the router is enough for all that waits to go out; on a network that loses nothing, waiting ends | two destinations, three packets (one to be replaced, one to wait beside it or to go straight out), two link addresses of the router, one frame of a host, a capture buffer of two, and one fault, a lost or repeated frame: enough to lose the only reply, or to have one again after the flush.  The safety properties are proved for any number of faults.  407 000 states |
| `tftp_transfer` | what the server holds for delivered is in the file; no block is skipped; the file is closed only when complete; acknowledgements go to the session they answer; the file is intact if the network has done nothing wrong; every session, and a begun transfer, ends | three blocks (first, middle, last), two sessions, three faults, one stray packet: enough for a second session to start while the first runs and for a stray between two blocks |
| `dhcp_exchange` | only what is offered is requested; a client in REQUESTING has asked; a bound client's address was acknowledged; it ends bound if nothing is lost | two servers, of which one offers the device's own address; two kinds of options; two losses, two repetitions, so an old OFFER can follow an ACK and both servers' replies can cross |
| `trace_route` | on a network that repeats nothing line *k* names router *k*; no probe is replaced while it waits; the trace stops at the target; what is not behind a silent router is found | three routers in any pattern of silence, one loss, two repeated answers, two foreign ICMP messages |
| `formats` | whole DHCP replies are read as they are, and DNS replies up to the first answer under a name in full or of another type than address and alias (`ReadsWholeReply`); cut ones are never taken for whole (`TruncationIsNoticed`); receivers accept the checksums (`ChecksumVerifies`, `WireChecksums`); Jpcap divides frames at the right byte whatever was captured (`HeaderThenData`) and reads what it sends (`SentIsReceived`); the stack reads the answers to what it sends through all its layers (`StackReadsItself`) and runs with the addresses of its card (`StackIsOnItsCard`) | all lists of up to three options or answers, under pointers and names in full, with addresses, aliases and another type, each cut at every byte, and a reply with a pointer beyond the first 128 bytes; all messages of up to six bytes out of 0, 1, 128, 255; IPv4, IPv6 and ARP frames with and without options, extensions, fragments and padding, cut by up to 20 bytes; packet objects of every class with boundary values and fragment offsets; three cards, two with names that differ in the first digits only, in every order of two lists.  68 600 inputs |
| `jpcap_instances` | every object uses the handle opened for it (`HandleIsOwn`); slots are accounted for (`SlotsAccounted`); packets are taken apart, and filters compiled, for the device that is open (`ParsedAsItsDevice`); packets go to the handler of their loop (`HandlerKept`) | two captors and a sender on a device and a file, two slots, two loops, one inside the other: enough for each object to get a slot another has left, to be refused one, and to run while another is closed.  722 000 states |

The captors of `jpcap_instances` are symmetric.  Its cfg and those of `TFTPClient`, `DHCPApplication`
and `TraceRoute` turn the deadlock check off: a transfer, an exchange and a trace end, all objects of
Jpcap may be used up or the next call may be one that ends the process, and then nothing is
left to happen.  In `formats` each state is one input, and nothing happens to it.

### Runs that find a violation

Each checks one statement that a comment of the code makes, and shows where the program does not
keep it; section 6 says more.

| run | property | what happens |
|---|---|---|
| `tftp_repeated` | `FileIntact` | one repeated datagram is written twice |
| `dhcp_other` | `EventuallyBound` | when the offered address is not the device's own, the IP layer drops every OFFER |
| `dhcp_netbios` | `RequestingHasAsked` | an OFFER with option 44, which the client asks for, is not read to its end, and no REQUEST is sent |
| `trace_pinged` | `RouteIsTrue` | a host that pings the device is printed as a router |
| `dns_names` (`MCNames.cfg`) | `NamesOfBothFormsAreRead` | the length byte of an answer's name in full is lost, and the answer is not read |
| `checksum_carry` | `ChecksumAlwaysVerifies` | a second carry is dropped and the receiver refuses the packet |

## 4. Fairness

* `main` goes on from the application to the loop, and the loop takes every frame there is:
  weak fairness of `EnterLoop`, `MainStarts`, `DhcpDiscovery` and of the receive actions.
  The thread does nothing else, and a handler that throws returns to the loop.
* `GetFile` has no fairness: nothing about TFTP is claimed before a session exists.
* The other side is assumed fair only where it really is what drives the exchange: a TFTP server
  takes what reaches it and times out when nothing is on its way any more; DHCP servers answer;
  probes travel.  These are assumptions about other programs, and are named as such in the modules.
* The network owes nothing.  Losses are bounded by a constant, and where one loss is fatal because
  the client has no timer, the property says so in its antecedent: `WaitingEnds`
  (`NetworkDelivers`), `EventuallyBound` and `RouteIsFound` (nothing lost).  `CapturedReplyFlushes`,
  `SessionEnds` and `TransferEnds` hold with losses.

## 5. What is proved

TLAPS checks these for every value of the constants that satisfies the named assumptions: every
safety invariant that a run checks of a module with a next-state relation, one refinement, and what
the walks over bytes compute of replies and messages of any length.  The proofs about state machines
go the same way: an inductive invariant, a lemma for each action that keeps it, and
the properties read off it.  Each of those invariants was first checked with TLC, on the constants
of the run of its module.  Those about bytes rest on an induction over positions (`FormatProofs`).

**`ProtocolManagerProofs`** - any number of hosts and packets, any link addresses, any capture
buffer, any number of faults.

* `TypeCorrect` (`Spec => []TypeOK`): one lemma per action.  The work is in `SendWaitingData`,
  where an arbitrary order of the waiting packets is appended to a sequence: `OrderType` gets the
  finiteness and the length of that order from the library's facts on finite sets and sequences.
* `NeverStranded` (`Spec => []NothingStranded`).  `NothingStranded` is inductive as it
  stands: `SendData` queues only while the router is unknown, and `ReceiveARP` re-establishes it from
  any state, because it flushes after it stores.
* `Refinement` (`Spec => ImplementsOutbox`): a hand-over is `Submit` or `SubmitToAll`; an
  ARP message that makes the router known is `Open`; one that finds the router known is a stutter
  - and this is where `NothingStranded` is needed, for otherwise it could transmit something a
  second time.  Everything else leaves the outbox alone.

Assumptions: `RouterAssumption` (the router is among the hosts), `AddressAssumption` (null and
the broadcast address are nobody's link address), `BoundAssumption`.

Then, under the same assumptions, what is transmitted:

* `NeverSentTwice`, `NewestNeverLost` and `InOrder` (`SentAtMostOnce`, `NewestPacketKept`,
  `OrderPerDestination`) hold only together: a flush sends nothing twice because what waits has not been
  sent (`WaitingNotSent`), and keeps the order because what waits for a destination is the newest packet
  for it (`WaitingIsNewest`) and, by `NothingStranded`, nothing waits when a packet goes straight out.
  `NextEffect` first reduces the steps to the three things they can do to the send path.
* `OnlyRouterAddressed` (`OnlyToRouter`) needs what the frames say on their way: `CapturedIsTrue`
  (who answers in the router's name has one of its addresses) gives `RouterIsTrue` for the ARP table.

**`TFTPClientProofs`** - files of any length, any number of sessions, faults and strays.

* `TypeCorrect`, `AcknowledgedIsWritten`, `NeverSkips`, `ClosedWhenComplete` and `AcknowledgesSender`.
  The client looks at no number, so what makes them true lies with the server and on the way: `DataIsSent`
  (a block on its way was sent by a session that had come that far) and `AckIsDue` (an acknowledgement
  on its way is of a block that is in the file).  A session moves to block *b* only when *b - 1* is in the
  file; hence the first copy of *b* finds *b - 1* written, and a short block finds all of them.
* `IntactOnCleanNetwork` (`IntactUnlessRepeated`) has an invariant of its own, `CleanInv`: as long as
  nothing has gone wrong there is one session, and its present block or the acknowledgement of it is on
  its way, never both.

Assumption: `TFTPAssumption` (a file has at least one block, strangers do not use a session's port).

**`DHCPApplicationProofs`** - any servers, offers, options, losses and repetitions.

* `TypeCorrect`, `OnlyOfferedRequested` (`RequestedIsOffered`) and `OnlyAckedBound`
  (`BoundIsAcked`).  The two properties are not inductive: they speak of what the client has,
  while the danger is in what travels.  The invariant `IInv` adds `RepliesAreSent`: every reply on
  its way is an OFFER of its server's address, an ACK of an acknowledged address, or a NAK to
  everyone.  `ReplyForUs` then does the essential step: the destination check of the IP layer
  lets through only replies whose `yiaddr` is the device's own address, so that a NAK never
  reaches the client, and the state that an OFFER or an ACK leads to matches what is recorded of
  the servers.  Without the check both properties fail, as their mutants show.
* `RequestingAsked` (`RequestingHasAsked`) has a hypothesis, `OffersAreRead`: the walk over the options of
  an OFFER comes to their end.  The options of `dhcp_exchange` satisfy it; those of `dhcp_netbios` do not,
  and that run violates the property.
* `KnownTailsAreRead` says which servers satisfy it: all that send only options the switch lists (or pads),
  each with the length its value has, up to an end option (`KnownTails`).  `RequestingAskedOfKnown` is
  `RequestingAsked` for them.

Assumptions: `DHCPAssumption` on the constants, and `TailAssumption`: a server announces the message type
once, so the walk over what follows finds no second one.  It is a fact about
`Tails`, the options that servers append, and TLC evaluates it in every DHCP run.  For servers as in
`KnownTails` it is what `KnownTailsAreRead` concludes.

**`TraceRouteProofs`** - routes of any length that a signed byte can count, any set of silent routers,
any losses, repetitions and foreign messages.

* `TypeCorrect`, `RouteTrue` (`RouteIsTrue`), `NoProbeReplaced` (`EveryProbeSent`) and `TraceStops`
  (`StopsAtTarget`).  `AnswersInv` says that what is understood was sent by the router at which some probe
  ended, `OneByOne` that on a network that repeats nothing this is the last probe.  `StopsAtTarget`, and
  that the time to live does not overflow, come from a count, `LinesPaid`: lines printed, answers
  on their way and repetitions left are together no more than the routers reached and the repetitions
  there were.  A probe that reaches a router raises both sides, an answer that is read moves from the
  second term to the first, and a repeated one from the third.
* All four have the hypothesis `ForeignIsOther`: what other hosts send is not read as "time exceeded".  The
  foreign messages of `trace_route` satisfy it.  A ping does not, and `trace_pinged` violates `RouteIsTrue`
  with one.

Assumption: `TraceAssumption`.  It bounds the length of the route and the repetitions together by 127,
since each line raises `time_to_live`, which is a signed byte.

**`JpcapProofs`** - any number of captors and senders, slots, devices, files and loops.

* `TypeCorrect`, and `LoopKeepsHandler` (`HandlerKept`), from `LoopInv`: of two loops on one slot the outer
  one is interrupted, and no two slots have one handler.
* `OwnHandle` (`HandleIsOwn`), `NoSlotLost` (`SlotsAccounted`) and `ParsedByOwnType`
  (`ParsedAsItsDevice`).  `IInv` holds of any program: a free slot has no handle and no two slots share
  one.  `CarefulInv` holds as long as nothing has been closed that belongs to another object:
  an open object has a slot to itself, with its own handle, link type and mask in it.
  The handle has to be followed even after its captor was closed (`HeldIsOwn`), because a sender can be
  got from a captor that is closed, and the slot may be another's by then.  That slots are lost only where
  the property says is a count: as many slots are reserved as objects keep one (`SlotsCounted`).

Assumption: `JpcapAssumption`, with finitely many objects, and link types that are not negative, as
`pcap_datalink` returns them.

**`FormatProofs`** - bytes of any number and value.

* The walk of `readOptions` and the sum of the checksum are recursive functions.  `LeastNumber` (from
  the library's `WFMin`: a set of numbers has a least one) gives `InductionFromEnd`, on sets of positions,
  and `RecursionFromEnd`: an equation that takes each position back to later ones has a solution.
  `WalkIsDefined` and `SumEquation` are its instances: what the model writes with `CHOOSE`, as every
  recursive function is, satisfies its equation.
* `ReadIsDefined`: a reply of any bytes is read to its end option or to an exception.
* `CutReply`: a reply cut short anywhere is read as a beginning of the whole, because the walk over the
  part does at each position what the walk over the whole does, or runs out (`SameStep`).
* `KnownReplyIsRead` and `CutReplyIsNoticed` are `ReadsWholeReply` and `TruncationIsNoticed` for DHCP in
  general.  `OptionStarts(b, P)` says that `P` holds the starts of the options of `b`, all of types the switch
  lists; the walk goes from start to start (`KnownStep`), so that no byte inside a value can pass
  for a type or for the end.  `TypeThenOptions` is the case of one message type in front.
* `ChecksumIsAccepted` is `ChecksumVerifies` for fewer than 65536 bytes, and its converse: a message whose sum
  has a second carry is never accepted.  That is the whole extent of the fault that `checksum_carry` finds.

**`HeaderProofs`** - messages of any bytes.

* `MessageIsAccepted`: the same of a message with the checksum written in it, at an even offset where it had
  zeros, as `createIPHeader` and the ICMP header objects leave them.  The two bytes
  add their word to the sum and change no other (`SumWithField`).
* `OnlyRepliesToUs`: `analyseARPMsg` yields addresses exactly for complete replies to this device.  This is what
  `ProtocolManager` assumes of the ARP layer when it takes messages for records.
* `PayloadHandedUp`: the IP layer hands up the payload and neither options nor padding.  The header may have
  any length it announces itself.  From 32768 bytes on the total length is read as negative, which ends in an
  exception; TLC's packets are far shorter.

**`PacketProofs`** - cards, packets and headers of any kind, and what follows for the runs.

* `RightCard`: for any cards and any order of the adapters, `main` takes the last card with an IPv4 address
  and the stack gets that card's first one, with the link address of the last adapter whose name has the same
  end (`IsMacOf`), or none.  Where no other name has that end (`Unlike`), this is the adapter of the same
  name, or none if it is not listed (`OwnMac`).  `OnItsCard` is `StackIsOnItsCard`, which makes the same
  exception, from it and from what the lists of the run have in common.
* `HeaderChecksum` and `SentChecksums`: the checksums Jpcap puts into IPv4 packets are right.  The host
  reads each word with its bytes exchanged.  Exchanged, a word is 256 times itself modulo 65535
  (`ExchangedWord`), and so is the sum of all words (`SumsExchanged`); folding twice loses nothing below
  2^32 (`FoldedTwice`), so the word that is stored, read in the order of the network, makes the sum 0 in one's
  complement (`ComplementFills`).  `ChecksumFills` and `PseudoChecksumFills` say so of `in_cksum`
  and `in_cksum2`, the latter for an odd number of bytes too, and of a sum of 0, which is stored as 65535.  The
  rest is where the fields lie: `TCPSegment`, `UDPSegment`, `ICMPMessage`, `NetworkOf`, `FrameVerifies`.
  The numbers in the headers may have any size, the data any bytes that fit the buffer (`IsIPv4Packet`).
  `Exempt` is what `WireChecksums` excepts: the same two kinds of ICMP message.
* `CreatedHeader`: what `createIPHeader` writes for any addresses, length and identification.  `Utility.checksum` adds
  its carry once, so this has the condition of `ChecksumIsAccepted`, and the run's requests satisfy it
  (`ExchangeSums`).
* `WireChecksumsHold` (`WireChecksums`): `PacketVerifies` applies `SentChecksums` to the packet objects of the run
  and `ExchangeVerifies` follows a request of `PingApp`, `HPingApp` or `DNSApplication` down to
  its frame.
* `ChecksumHolds` (`ChecksumVerifies`) is `ChecksumIsAccepted` for the messages of the run.

Assumption: `BoundsAssumption` of `MCFormats` - the bounds are numbers, and a message has fewer than 65536 bytes.

### Only model-checked

* All liveness, which is out of the prover's reach: `CapturedReplyFlushes`, `WaitingEnds`, `SessionEnds`,
  `TransferEnds`, `EventuallyBound` and `RouteIsFound`.
* `TruncationIsNoticed`, `ReadsWholeReply` and `StackReadsItself`, for what is read of DNS replies: a pointer
  may lead backwards, so that the recursion of `ReadStringContent` does not go from the end to the
  front, and over a loop of pointers it has no end.  The DHCP parts of the first two hold in general by `KnownReplyIsRead`
  and `CutReplyIsNoticed`, the ARP part of the third by `OnlyRepliesToUs`.
* `HeaderThenData` and `SentIsReceived`, for what Jpcap reads: the walks over IPv6 extension headers go by lengths the
  packet gives, also beyond its end, where a recursive function has no value one could
  reason about.

## 6. Where the program and its words differ

The six violation runs show, with the lines quoted under `findings` in `PROJECT.json`:

1. `TFTPClient.handleDataPacket` never compares the number of a block with the one it expects.
2. The destination check of `IPProtocolLayer`, which its own comment says must be off for DHCP, is on.
3. `DHCPApplication.readOptions` has no default that skips an option by its length.
4. `ICMPTimeExceededHeader` uses "and" where "or" is meant.
5. `Utility.checksum` adds the carry once.
6. `DNSApplication` (line 291) takes the length byte of a name in full for the test for a pointer, and reads the
   name without it.

Seen while modelling, with no run of their own:

* A bound DHCP client that gets a late or repeated OFFER goes back to REQUESTING and requests
  again (`DHCPApplication.java:475`); the message printed at line 530 takes the exchange for over.
* `TFTPClient.java:135-138` writes a forged source address; what the server sends back to it is
  dropped by the same destination check as in 2.
* `PingApp` hands over all its requests in one loop for one destination, so only the last
  goes out if the router's address is not known yet (a consequence of `NewestPacketKept`).
* `PingApp` and `HPingApp` do not register for ICMP messages, so their `handleData` is never called.
  `HPingApp` also writes its sequence number under another key than the header object reads.
* `DNSApplication` reads the second byte of a pointer as signed, and does not skip the data of
  answers that are neither addresses nor aliases.
* `setIPv4Parameter` of Jpcap's `IPPacket` assigns one of its parameters to itself (line 209).
* `showNetWorkCard`, the first call of `main`, opens a captor on every card and closes none, so each keeps
  its slot and handle as long as the program runs; `main` then opens one on the chosen card, and
  `initWithOpenDevice` one more.
* Two cards whose GUIDs differ in the first eight digits only are given the same link address
  (`JpcapCaptor.c:258-262`), that of the last; a comment there doubts the comparison.

In Jpcap's slots (`Jpcap`):

* An object that could not be opened keeps its slot, and so does every sender on the raw socket;
  closing the latter ends in an exception, since its ID 99999 is no slot, and the closed socket still
  counts as open, so it cannot be opened again.
* A filter of a captor on a file is compiled with whatever mask the slot holds: nothing looks up one.
* Closing a `JpcapWriter` frees the captor's handle and leaves it in the table (`JpcapWriter.c:47`).
* A loop started on the same captor inside its handler replaces the handler for good, and the outer
  loop then deletes a reference for the second time.

In Jpcap's bytes (`Lost`, `LostInIPv6` and `HeadersCaptured` of `MCPackets` name what the properties leave out):

* The flags of an IPv4 fragment field are written in one byte order and read in the other.
* The fragment offset has its bytes exchanged twice on sending (`packet_ip.c:88`, `JpcapSender.c:323`) and
  once on receiving: 1 is sent as 256, and 32 as the flag of more fragments.
* The IPv6 payload length is written in the host's order and includes the 40 bytes of the header; the
  traffic class is read as 0; the pseudo header of a TCP or UDP checksum over IPv6 is taken from where
  an IPv4 header has its addresses.
* The walk over IPv6 extensions begins at the header, so that what follows one becomes an `IPPacket`;
  options and authentication data are taken from wrong offsets, and every address of a route is the first.
* The byte behind an odd ICMP echo counts in its checksum; a message of an unknown type is sent
  without the length of its header; of identifier and sequence number only the upper byte is
  read; errors are sent with 32 bytes of an IP header's packet where the reader wants 36.
* What was captured is not compared with what the headers announce if `tproto` holds an unknown
  protocol (`JpcapCaptor.c:857`), and nothing sets it for ARP; the padding that `JpcapWriter` dumps is
  bytes nothing has set (line 58).

## 7. What is not modelled

* `ICMPUnreachableMsgHandler` and the test functions of `DataLinkLayer`: dead code, their only uses are
  commented out.
* What `showNetWorkCard` prints.  The captors it opens are opened as any other: `openDevice` of `Jpcap`, never
  followed by a `close`.
* The headers of WinPcap and of the systems (`win32/WpdPack/Include`, `include/`): declarations of other
  projects, vendored to compile against - about three quarters of all lines of C in the repository.
  The fields of those structs that Jpcap reads or writes are in `FrameLayout`; there is no behaviour in the rest.
* In Jpcap's own C: the lookup of classes and methods (`set_Java_env`); `breakLoop`, statistics,
  timeouts, non-blocking mode and the texts of errors, which pass through to libpcap; the Linux and FreeBSD
  branches of `getDeviceList`; router advertisements, which are compiled out.
* Jpcap's Java classes beyond the instances: holders of fields.
* The property file and the output: I/O.
* `test/TestDemo.java`: experiments with the Java library, no part of the stack.
* TFTP blocks of more than 512 bytes, and block numbers beyond 65535 (a file of 32 MB).

## 8. Plan

Done, in this order: the send path and ARP (everything depends on it) with its abstraction; its
proofs; the applications with state, worst first (TFTP, DHCP, TraceRoute); the formats; the proofs
about DHCP; the headers of the stack and the remaining applications; Jpcap's way from a frame to an
object and back; the layers joined (`MCPackets`); Jpcap's instances.

The proofs of the other safety invariants followed: the send path, TFTP, TraceRoute, Jpcap's
instances and the request of DHCP; then those about bytes: the options of DHCP, the checksum, the ARP
and the IP layer, the choice of the card, and the checksums of everything that is sent.

Theorems worth proving next:

* of `Outbox`: what a program may rely on without knowing of ARP.  With `Refinement` it
  carries over to `ProtocolManager`, where it is proved directly now;
* action properties: the closed file stays closed, and what has been written or printed is not changed.

## 9. How to run

In this directory:

    tlc -workers 2 -config MCProtocolManager.cfg MCProtocolManager
    tlapm ProtocolManagerProofs.tla

The module of each cfg is in the `runs` of `PROJECT.json`; the longest run takes about a minute,
the proofs of one module at most a few minutes.
