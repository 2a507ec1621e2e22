-------------------------- MODULE DHCPApplication ---------------------------
(***************************************************************************)
(* Application/DHCPApplication.java on a network with DHCP servers: the    *)
(* client broadcasts a DISCOVER when main starts it, and from then on only *)
(* reacts to what the receive loop hands it.  It sets no broadcast flag,   *)
(* so a server (external) sends an OFFER or an ACK to the very address it  *)
(* offers, and a NAK to everyone; the IP layer lets through what is sent   *)
(* to the device's own address.                                            *)
(*                                                                         *)
(* There is no timer in the client: it never sends anything again by       *)
(* itself.  Datagrams may be lost, repeated and reordered.                 *)
(***************************************************************************)
EXTENDS DHCPOptions, SequencesExt

CONSTANTS
    Server,         \* the DHCP servers
    IP,             \* the addresses they offer
    Offered,        \* Offered[s]: the address server s has for the client
    DeviceIP,       \* the address the device already has
    NullIP,         \* 0.0.0.0
    Everyone,       \* 255.255.255.255
    Tails,          \* the options servers put after the message type
    MaxLosses,      \* bound: datagrams lost
    MaxRepeats      \* bound: datagrams repeated

ASSUME DHCPAssumption ==
    /\ Offered \in [Server -> IP] /\ DeviceIP \in IP
    /\ NullIP \notin IP /\ Everyone \notin IP
    /\ \A t \in Tails : t \in Seq(0..255)
    /\ MaxLosses \in Nat /\ MaxRepeats \in Nat

VARIABLES
    started,            \* dhcpDiscovery has been called
    dhcp_current_state, \* one of the three states below
    server_supply_ip,   \* the address in the last reply read, NullIP if none
    toServer,           \* [to, kind, ip] on their way to a server
    toClient,           \* replies on their way to the client
    requested,          \* history: the addresses the client has requested
    acked,              \* history: the addresses some server has acknowledged
    losses, repeats     \* what the network may still do wrong

client == <<started, dhcp_current_state, server_supply_ip, requested>>
vars == <<client, toServer, toClient, acked, losses, repeats>>

OFFER == 2
ACK == 5
NAK == 6
DHCP_STATE_DISCOVER == 0
DHCP_STATE_REQUESTING == 1
DHCP_STATE_ACK == 5

\* A server announces the message type once, before the other options.
ASSUME TailAssumption ==
    \A t \in Tails, k \in {OFFER, ACK, NAK} :
      ReadOptions(<<MSG_TYPE, 1, k>> \o t).types = <<k>>

\* A broadcast of the client reaches each server on its own.
ToServers(kind, ip) == {[to |-> s, kind |-> kind, ip |-> ip] : s \in Server}

\* A reply of type t: op is 2, BOOTREPLY.
Replies(t, ip, dst) ==
    {[op |-> 2, yiaddr |-> ip, dst |-> dst, options |-> <<MSG_TYPE, 1, t>> \o tail] :
        tail \in Tails}

Init ==
    /\ started = FALSE
    /\ dhcp_current_state = DHCP_STATE_DISCOVER
    /\ server_supply_ip = NullIP
    /\ toServer = {} /\ toClient = {}
    /\ requested = {} /\ acked = {}
    /\ losses = MaxLosses /\ repeats = MaxRepeats

-----------------------------------------------------------------------------
(* The client.                                                             *)

DhcpDiscovery ==
    /\ ~started
    /\ started' = TRUE
    /\ toServer' = toServer \cup ToServers("DISCOVER", NullIP)
    /\ UNCHANGED <<dhcp_current_state, server_supply_ip, requested,
                   toClient, acked, losses, repeats>>

\* A datagram is taken from a set, or the network keeps a copy of it.
Take(net, net2, m) ==
    \/ net2 = net \ {m} /\ UNCHANGED repeats
    \/ net2 = net /\ repeats > 0 /\ repeats' = repeats - 1

\* An IP layer without the check of the destination.
ForUs_Anyone(m) == m.op = 2

\* The IP layer lets it through, and readFirstPart takes it for a reply.
ForUs(m) == m.dst = DeviceIP /\ m.op = 2

\* A state machine that an ACK does not move.
NextState_OfferOnly(types) ==
    IF \E k \in DOMAIN types : types[k] = OFFER THEN DHCP_STATE_REQUESTING
    ELSE dhcp_current_state

\* The state as the message type itself.
NextState_Raw(types) == IF types = <<>> THEN dhcp_current_state ELSE Last(types)

\* The state the message types of a reply lead to: the last OFFER or ACK in it.
NextState(types) ==
    LET known == {k \in DOMAIN types : types[k] \in {OFFER, ACK}}
    IN  IF known = {} THEN dhcp_current_state
        ELSE IF types[Max(known)] = OFFER THEN DHCP_STATE_REQUESTING
        ELSE DHCP_STATE_ACK

\* dhcpRequest asks for the address in the reply that is being handled.
DhcpRequest(ip) ==
    /\ requested' = requested \cup {ip}
    /\ toServer' = toServer \cup ToServers("REQUEST", ip)

\* handleData that requests in the state the reply found.
HandleData_OldState(m) ==
    LET read == ReadOptions(m.options)
    IN  /\ server_supply_ip' = m.yiaddr
        /\ dhcp_current_state' = NextState(read.types)
        /\ \/ /\ read.ended /\ dhcp_current_state = DHCP_STATE_REQUESTING
              /\ DhcpRequest(m.yiaddr)
           \/ /\ ~(read.ended /\ dhcp_current_state = DHCP_STATE_REQUESTING)
              /\ UNCHANGED <<requested, toServer>>

\* handleData: the address is taken from any reply, the state follows the
\* message type, and a reply that is read to its end makes the client send a
\* REQUEST if it is, or already was, in REQUESTING.  If the bytes run out first
\* the exception skips that step and leaves the state changed.
HandleData(m) ==
    LET read == ReadOptions(m.options)
    IN  /\ server_supply_ip' = m.yiaddr
        /\ dhcp_current_state' = NextState(read.types)
        /\ \/ /\ read.ended /\ dhcp_current_state' = DHCP_STATE_REQUESTING
              /\ DhcpRequest(m.yiaddr)
           \/ /\ ~(read.ended /\ dhcp_current_state' = DHCP_STATE_REQUESTING)
              /\ UNCHANGED <<requested, toServer>>

ClientReceives ==
    \E m \in toClient :
      /\ started
      /\ Take(toClient, toClient', m)
      /\ \/ ForUs(m) /\ HandleData(m)
         \/ /\ ~ForUs(m)
            /\ UNCHANGED <<dhcp_current_state, server_supply_ip, requested, toServer>>
      /\ UNCHANGED <<started, acked, losses>>

-----------------------------------------------------------------------------
(* The servers and the network.                                            *)

ServerReceives ==
    \E m \in toServer :
      /\ Take(toServer, toServer', m)
      /\ \/ /\ m.kind = "DISCOVER"
            /\ \E r \in Replies(OFFER, Offered[m.to], Offered[m.to]) :
                 toClient' = toClient \cup {r}
            /\ UNCHANGED acked
         \/ /\ m.kind = "REQUEST" /\ m.ip = Offered[m.to]
            /\ \E r \in Replies(ACK, m.ip, m.ip) : toClient' = toClient \cup {r}
            /\ acked' = acked \cup {m.ip}
         \/ /\ m.kind = "REQUEST" /\ m.ip # Offered[m.to]
            /\ \E r \in Replies(NAK, NullIP, Everyone) : toClient' = toClient \cup {r}
            /\ UNCHANGED acked
      /\ UNCHANGED <<client, losses>>

Lose ==
    /\ losses > 0
    /\ losses' = losses - 1
    /\ \/ \E m \in toServer : toServer' = toServer \ {m} /\ UNCHANGED toClient
       \/ \E m \in toClient : toClient' = toClient \ {m} /\ UNCHANGED toServer
    /\ UNCHANGED <<client, acked, repeats>>

Next == DhcpDiscovery \/ ClientReceives \/ ServerReceives \/ Lose

Spec == Init /\ [][Next]_vars

\* main starts the client and enters the receive loop; servers answer.
FairSpec ==
    /\ Spec
    /\ WF_vars(DhcpDiscovery)
    /\ WF_vars(ClientReceives)
    /\ WF_vars(ServerReceives)

-----------------------------------------------------------------------------
(* Properties.                                                             *)

Request == [to : Server, kind : {"DISCOVER", "REQUEST"}, ip : IP \cup {NullIP}]

TypeOK ==
    /\ started \in BOOLEAN
    /\ dhcp_current_state \in
         {DHCP_STATE_DISCOVER, DHCP_STATE_REQUESTING, DHCP_STATE_ACK}
    /\ server_supply_ip \in IP \cup {NullIP}
    /\ toServer \subseteq Request
    /\ \A m \in toClient : m.yiaddr \in IP \cup {NullIP} /\ m.dst \in IP \cup {Everyone}
    /\ requested \in SUBSET (IP \cup {NullIP}) /\ acked \in SUBSET IP
    /\ losses \in 0..MaxLosses /\ repeats \in 0..MaxRepeats

\* The client only requests what some server offers: the reply that makes it
\* send a REQUEST carries an offer, so never the zero address of a NAK.
RequestedIsOffered == requested \subseteq {Offered[s] : s \in Server}

\* A client in REQUESTING has asked for the address it holds.  Otherwise nothing
\* it could wait for is on its way, and having no timer it waits for ever.
RequestingHasAsked ==
    dhcp_current_state = DHCP_STATE_REQUESTING => server_supply_ip \in requested

\* A client that takes itself for bound holds an address a server acknowledged.
BoundIsAcked == dhcp_current_state = DHCP_STATE_ACK => server_supply_ip \in acked

\* If nothing is lost, the exchange ends with the client bound, whatever is
\* repeated or late on the way.
EventuallyBound == [](losses = MaxLosses) => <>[](dhcp_current_state = DHCP_STATE_ACK)
=============================================================================
