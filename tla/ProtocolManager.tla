-------------------------- MODULE ProtocolManager ---------------------------
(***************************************************************************)
(* protocol/ProtocolManager.java with the parts it drives: the ARP table   *)
(* and the ARP layer that fills it, the table of packets that wait for the *)
(* router's link address, the receive loop of ProtocolEntry.main, and the  *)
(* network around them.                                                    *)
(*                                                                         *)
(* The program is one thread.  While it is "starting" the application      *)
(* started by main hands packets over and nothing is received: frames pile *)
(* up in the capture buffer that openDevice created.  Once "looping", it   *)
(* only runs receivePacket, once per captured frame, to the end; what an   *)
(* application sends from then on it sends inside its handleData.          *)
(*                                                                         *)
(* A packet is the number of its hand-over: accepted[n] is where packet n  *)
(* goes.  accepted and wire are histories nothing in the code reads.       *)
(***************************************************************************)
EXTENDS Naturals, Sequences, SequencesExt

CONSTANTS
    IP,             \* addresses of the hosts packets go to, the router's included
    RouterIP,       \* Utility.getRouterIP()
    RouterMACs,     \* link addresses the router may have
    HostMACs,       \* link addresses of the other hosts
    BroadcastMAC,   \* ff:ff:ff:ff:ff:ff
    NoMac,          \* null, for an address the ARP table does not hold
    Everyone,       \* destination of a packet given to broadCast
    MaxPackets,     \* bound: packets handed over in one run of the program
    MaxCapture,     \* bound: frames the capture buffer holds
    MaxHostFrames,  \* bound: frames that are no answer to our ARP requests
    MaxFaults       \* bound: frames lost or duplicated by the network

MAC == RouterMACs \cup HostMACs

ASSUME RouterAssumption == RouterIP \in IP
ASSUME AddressAssumption ==
    /\ NoMac \notin MAC \cup {BroadcastMAC}
    /\ BroadcastMAC \notin MAC
    /\ RouterMACs \cap HostMACs = {}
    /\ Everyone \notin IP
ASSUME BoundAssumption ==
    /\ MaxPackets \in Nat /\ MaxCapture \in Nat
    /\ MaxHostFrames \in Nat /\ MaxFaults \in Nat

VARIABLES
    phase,          \* "starting" until main enters loopPacket, then "looping"
    ipToMacTable,   \* the ARP table
    dataWaitToSend, \* per destination, the packet that waits, 0 if none does
    accepted,       \* history: destinations of the packets handed over
    wire,           \* history: [id, mac] of the IP frames transmitted
    capture,        \* frames captured and not yet given to receivePacket
    asked,          \* an ARP request of ours is on its way to the router
    replies,        \* link addresses in router replies on their way to us
    routerMac,      \* the router's present link address
    hostFrames,     \* how many frames hosts have sent on their own account
    faults          \* how many frames the network may still lose or duplicate

table == <<ipToMacTable, dataWaitToSend>>
history == <<accepted, wire>>
network == <<asked, replies, routerMac, hostFrames, faults>>
vars == <<phase, table, history, capture, network>>

(* Frames.  toUs: the target protocol address of an ARP message, or the    *)
(* destination of an IP packet, is the address of our device.              *)
ARPFrame == [type : {"ARP"}, op : {"request", "reply"}, toUs : BOOLEAN,
             ip : IP, mac : MAC]
IPFrame == [type : {"IP"}, toUs : BOOLEAN]
Frame == ARPFrame \cup IPFrame

RouterReply(m) ==
    [type |-> "ARP", op |-> "reply", toUs |-> TRUE, ip |-> RouterIP, mac |-> m]

\* What hosts send on their own account, our own looped-back frames included:
\* anything but a reply to us in the router's name.
HostFrame ==
    {f \in ARPFrame : /\ f.ip = RouterIP <=> f.mac \in RouterMACs
                      /\ f.ip = RouterIP => f.op = "request" \/ ~f.toUs}
    \cup IPFrame

Init ==                     \* getInstance has just sent its first request
    /\ phase = "starting"
    /\ ipToMacTable = [i \in IP |-> NoMac]
    /\ dataWaitToSend = [i \in IP |-> 0]
    /\ accepted = <<>>
    /\ wire = <<>>
    /\ capture = <<>>
    /\ asked = TRUE
    /\ replies = {}
    /\ routerMac \in RouterMACs
    /\ hostFrames = 0
    /\ faults = MaxFaults

-----------------------------------------------------------------------------
(* The send path.                                                          *)

GetRouterMac(tab) == tab[RouterIP]

PrepareRouterMac == asked' = TRUE

\* sendData looking up the destination instead of the router, as the line it
\* has commented out does.
SendData_ByDestination(ip) ==
    LET id == Len(accepted) + 1
        mac == ipToMacTable[ip]
    IN  /\ accepted' = Append(accepted, ip)
        /\ \/ /\ mac = NoMac
              /\ PrepareRouterMac
              /\ dataWaitToSend' = [dataWaitToSend EXCEPT ![ip] = id]
              /\ UNCHANGED wire
           \/ /\ mac # NoMac
              /\ wire' = Append(wire, [id |-> id, mac |-> mac])
              /\ UNCHANGED <<dataWaitToSend, asked>>

\* sendData that queues before it looks whether it must.
SendData_AlwaysQueued(ip) ==
    LET id == Len(accepted) + 1
        mac == GetRouterMac(ipToMacTable)
    IN  /\ accepted' = Append(accepted, ip)
        /\ dataWaitToSend' = [dataWaitToSend EXCEPT ![ip] = id]
        /\ \/ mac = NoMac /\ PrepareRouterMac /\ UNCHANGED wire
           \/ /\ mac # NoMac
              /\ wire' = Append(wire, [id |-> id, mac |-> mac])
              /\ UNCHANGED asked

\* sendData that keeps the packet already waiting.
SendData_KeepFirst(ip) ==
    LET id == Len(accepted) + 1
        mac == GetRouterMac(ipToMacTable)
    IN  /\ accepted' = Append(accepted, ip)
        /\ \/ /\ mac = NoMac
              /\ PrepareRouterMac
              /\ dataWaitToSend' =
                   [dataWaitToSend EXCEPT ![ip] = IF @ = 0 THEN id ELSE @]
              /\ UNCHANGED wire
           \/ /\ mac # NoMac
              /\ wire' = Append(wire, [id |-> id, mac |-> mac])
              /\ UNCHANGED <<dataWaitToSend, asked>>

\* sendData without the null check.
SendData_NoCheck(ip) ==
    LET id == Len(accepted) + 1
    IN  /\ accepted' = Append(accepted, ip)
        /\ wire' = Append(wire, [id |-> id, mac |-> GetRouterMac(ipToMacTable)])
        /\ UNCHANGED <<dataWaitToSend, asked>>

\* A packet for ip is handed over.  Everything goes by way of the router, so
\* the router's entry decides; a waiting packet is replaced, not queued.
SendData(ip) ==
    LET id == Len(accepted) + 1
        mac == GetRouterMac(ipToMacTable)
    IN  /\ accepted' = Append(accepted, ip)
        /\ \/ /\ mac = NoMac
              /\ PrepareRouterMac
              /\ dataWaitToSend' = [dataWaitToSend EXCEPT ![ip] = id]
              /\ UNCHANGED wire
           \/ /\ mac # NoMac
              /\ wire' = Append(wire, [id |-> id, mac |-> mac])
              /\ UNCHANGED <<dataWaitToSend, asked>>

BroadCast ==
    /\ accepted' = Append(accepted, Everyone)
    /\ wire' = Append(wire, [id |-> Len(accepted) + 1, mac |-> BroadcastMAC])
    /\ UNCHANGED <<dataWaitToSend, asked>>

\* What one call of an application does with the send path.
AppSends ==
    /\ Len(accepted) < MaxPackets
    /\ (\E ip \in IP : SendData(ip)) \/ BroadCast
    /\ UNCHANGED <<ipToMacTable, replies, routerMac, hostFrames, faults>>

AppStart ==
    /\ phase = "starting"
    /\ AppSends
    /\ UNCHANGED <<phase, capture>>

EnterLoop ==
    /\ phase = "starting"
    /\ phase' = "looping"
    /\ UNCHANGED <<table, history, capture, network>>

-----------------------------------------------------------------------------
(* The receive path.                                                       *)

Waiting == {dataWaitToSend[i] : i \in IP} \ {0}

Framed(order, mac) == [k \in 1..Len(order) |-> [id |-> order[k], mac |-> mac]]

\* sendWaitingData that forgets to clear the table.
SendWaitingData_NoClear ==
    LET mac == GetRouterMac(ipToMacTable')
    IN  /\ UNCHANGED dataWaitToSend
        /\ \/ mac = NoMac /\ UNCHANGED wire
           \/ /\ mac # NoMac
              /\ \E order \in SetToSeqs(Waiting) : wire' = wire \o Framed(order, mac)

\* sendWaitingData that clears the table whether or not it could send.
SendWaitingData_ClearAlways ==
    LET mac == GetRouterMac(ipToMacTable')
    IN  /\ dataWaitToSend' = [i \in IP |-> 0]
        /\ \/ mac = NoMac /\ UNCHANGED wire
           \/ /\ mac # NoMac
              /\ \E order \in SetToSeqs(Waiting) : wire' = wire \o Framed(order, mac)

\* Once the router's address is known, transmits what waits (in the order of
\* the hash table) and clears it.
SendWaitingData ==
    LET mac == GetRouterMac(ipToMacTable')
    IN  \/ mac = NoMac /\ UNCHANGED <<wire, dataWaitToSend>>
        \/ /\ mac # NoMac
           /\ \E order \in SetToSeqs(Waiting) : wire' = wire \o Framed(order, mac)
           /\ dataWaitToSend' = [i \in IP |-> 0]

\* An ARP layer that takes requests for replies.
AnalyseARPMsg_Request(f) == f.op = "request" /\ f.toUs

\* Only a reply addressed to our device yields an address.
AnalyseARPMsg(f) == f.op = "reply" /\ f.toUs

\* An ARP branch that stores every address as the router's.
ReceiveARP_AnyHost ==
    /\ phase = "looping" /\ capture # <<>>
    /\ LET f == Head(capture)
       IN  /\ f.type = "ARP"
           /\ IF AnalyseARPMsg(f)
              THEN ipToMacTable' = [ipToMacTable EXCEPT ![RouterIP] = f.mac]
              ELSE UNCHANGED ipToMacTable
    /\ SendWaitingData
    /\ capture' = Tail(capture)
    /\ UNCHANGED <<phase, accepted, network>>

\* An ARP branch that leaves the waiting packets where they are.
ReceiveARP_NoFlush ==
    /\ phase = "looping" /\ capture # <<>>
    /\ LET f == Head(capture)
       IN  /\ f.type = "ARP"
           /\ IF AnalyseARPMsg(f)
              THEN ipToMacTable' = [ipToMacTable EXCEPT ![f.ip] = f.mac]
              ELSE UNCHANGED ipToMacTable
    /\ capture' = Tail(capture)
    /\ UNCHANGED <<phase, dataWaitToSend, history, network>>

\* receivePacket, ARP branch.  A message the ARP layer refuses is stored under
\* the key "null", which nothing reads; waiting packets are tried either way.
ReceiveARP ==
    /\ phase = "looping" /\ capture # <<>>
    /\ LET f == Head(capture)
       IN  /\ f.type = "ARP"
           /\ IF AnalyseARPMsg(f)
              THEN ipToMacTable' = [ipToMacTable EXCEPT ![f.ip] = f.mac]
              ELSE UNCHANGED ipToMacTable
    /\ SendWaitingData
    /\ capture' = Tail(capture)
    /\ UNCHANGED <<phase, accepted, network>>

\* receivePacket, IP branch.  A packet for another address is dropped; one for
\* us reaches an application or none, and the application may send.
ReceiveIP ==
    /\ phase = "looping" /\ capture # <<>>
    /\ Head(capture).type = "IP"
    /\ capture' = Tail(capture)
    /\ UNCHANGED phase
    /\ \/ UNCHANGED <<table, history, network>>
       \/ Head(capture).toUs /\ AppSends

Receive == ReceiveARP \/ ReceiveIP

-----------------------------------------------------------------------------
(* The network.                                                            *)

\* The router answers; several requests on their way get one answer.
RouterAnswers ==
    /\ asked
    /\ asked' = FALSE
    /\ replies' = replies \cup {routerMac}
    /\ UNCHANGED <<phase, table, history, capture, routerMac, hostFrames, faults>>

\* A reply reaches the capture buffer; a copy of it may follow later.
ReplyArrives ==
    \E m \in replies :
      /\ Len(capture) < MaxCapture
      /\ capture' = Append(capture, RouterReply(m))
      /\ \/ replies' = replies \ {m} /\ UNCHANGED faults
         \/ UNCHANGED replies /\ faults > 0 /\ faults' = faults - 1
      /\ UNCHANGED <<phase, table, history, asked, routerMac, hostFrames>>

\* A request or a reply is lost, in the network or at a full capture buffer.
NetworkLoses ==
    /\ faults > 0
    /\ faults' = faults - 1
    /\ \/ asked /\ asked' = FALSE /\ UNCHANGED replies
       \/ \E m \in replies : replies' = replies \ {m} /\ UNCHANGED asked
    /\ UNCHANGED <<phase, table, history, capture, routerMac, hostFrames>>

\* The router is replaced or fails over.
RouterChanges ==
    /\ routerMac' \in RouterMACs \ {routerMac}
    /\ UNCHANGED <<phase, table, history, capture, asked, replies, hostFrames, faults>>

HostSends ==
    /\ hostFrames < MaxHostFrames
    /\ hostFrames' = hostFrames + 1
    /\ Len(capture) < MaxCapture
    /\ \E f \in HostFrame : capture' = Append(capture, f)
    /\ UNCHANGED <<phase, table, history, asked, replies, routerMac, faults>>

Environment == RouterAnswers \/ ReplyArrives \/ NetworkLoses \/ RouterChanges \/ HostSends

Next == AppStart \/ EnterLoop \/ Receive \/ Environment

Spec == Init /\ [][Next]_vars

\* main goes on to loopPacket, and loopPacket(-1, ...) takes every frame.
FairSpec == Spec /\ WF_vars(EnterLoop) /\ WF_vars(Receive)

\* A router that answers on a network that loses and repeats nothing.
NetworkDelivers ==
    /\ [](faults = MaxFaults)
    /\ WF_vars(RouterAnswers) /\ WF_vars(ReplyArrives)

-----------------------------------------------------------------------------
(* Properties.                                                             *)

SentIds == {wire[k].id : k \in DOMAIN wire}

TypeOK ==
    /\ phase \in {"starting", "looping"}
    /\ ipToMacTable \in [IP -> MAC \cup {NoMac}]
    /\ dataWaitToSend \in [IP -> 0..Len(accepted)]
    /\ accepted \in Seq(IP \cup {Everyone})
    /\ wire \in Seq([id : 1..Len(accepted), mac : MAC \cup {BroadcastMAC}])
    /\ capture \in Seq(Frame)
    /\ asked \in BOOLEAN
    /\ replies \in SUBSET RouterMACs
    /\ routerMac \in RouterMACs
    /\ hostFrames \in 0..MaxHostFrames
    /\ faults \in 0..MaxFaults

\* No packet waits once the router's address is known: sendData only queues
\* while it is unknown and the reply that makes it known empties the table, so
\* no packet is left behind to wait for an ARP message that may never come.
NothingStranded ==
    GetRouterMac(ipToMacTable) # NoMac => Waiting = {}

\* No packet is transmitted twice, whatever replies are repeated or late.
SentAtMostOnce ==
    \A j, k \in DOMAIN wire : wire[j].id = wire[k].id => j = k

\* A packet is lost only to a newer one: the last packet handed over for a
\* destination has been transmitted or still waits.
NewestPacketKept ==
    \A n \in DOMAIN accepted :
      (\A k \in DOMAIN accepted : accepted[k] = accepted[n] => k <= n)
        => n \in SentIds \cup Waiting

\* Packets for one destination leave in the order they were handed over, those
\* that waited before those that did not have to.
OrderPerDestination ==
    \A j, k \in DOMAIN wire :
      j < k /\ accepted[wire[j].id] = accepted[wire[k].id] => wire[j].id < wire[k].id

\* A packet for one host goes to a link address of the router and no other;
\* only packets given to broadCast go to everyone.
OnlyToRouter ==
    \A k \in DOMAIN wire :
      IF accepted[wire[k].id] = Everyone THEN wire[k].mac = BroadcastMAC
                                         ELSE wire[k].mac \in RouterMACs

\* Once a reply of the router is captured, everything that waits goes out,
\* with no further help of the network or of an application.
CapturedReplyFlushes ==
    (\E k \in DOMAIN capture : capture[k] \in {RouterReply(m) : m \in RouterMACs})
      ~> Waiting = {}

\* On a network that loses nothing, no packet waits for ever: every sendData
\* that queues also asks for the address it waits for.
WaitingEnds == NetworkDelivers => (Waiting # {} ~> Waiting = {})

\* The manager is an outbox that opens when the router's address is learnt.
Box == INSTANCE Outbox WITH
    Dest <- IP,
    open <- GetRouterMac(ipToMacTable) # NoMac,
    box <- dataWaitToSend,
    out <- [k \in DOMAIN wire |-> wire[k].id]

ImplementsOutbox == Box!Spec
=============================================================================
