----------------------- MODULE DHCPApplicationProofs ------------------------
(* Theorems about DHCPApplication, for any servers, addresses and options,  *)
(* and any number of lost and repeated datagrams.                           *)
EXTENDS DHCPApplication, FormatProofs, TLAPS

(* What is on its way to the client was sent by a server: an OFFER of its   *)
(* address, an ACK of an address it has acknowledged, or a NAK to everyone. *)
RepliesAreSent ==
    \A m \in toClient :
      \/ \E s \in Server : m \in Replies(OFFER, Offered[s], Offered[s])
      \/ \E ip \in acked : m \in Replies(ACK, ip, ip)
      \/ m \in Replies(NAK, NullIP, Everyone)

IInv == TypeOK /\ RepliesAreSent /\ RequestedIsOffered /\ BoundIsAcked

-----------------------------------------------------------------------------
(* The state machine on the one message type a reply announces.             *)

LEMMA NextStateOf ==
    ASSUME NEW k \in {OFFER, ACK, NAK}
    PROVE  /\ k = OFFER => NextState(<<k>>) = DHCP_STATE_REQUESTING
           /\ k = ACK => NextState(<<k>>) = DHCP_STATE_ACK
           /\ k = NAK => NextState(<<k>>) = dhcp_current_state
<1> DEFINE known == {j \in DOMAIN <<k>> : <<k>>[j] \in {OFFER, ACK}}
<1>1. DOMAIN <<k>> = {1} /\ <<k>>[1] = k
  OBVIOUS
<1>2. CASE k \in {OFFER, ACK}
  <2>1. known = {1}
    BY <1>1, <1>2
  <2>2. Max({1}) = 1
    BY DEF Max
  <2> QED BY <1>1, <1>2, <2>1, <2>2 DEF NextState, OFFER, ACK, NAK
<1>3. CASE k = NAK
  <2>1. known = {}
    BY <1>1, <1>3 DEF OFFER, ACK, NAK
  <2> QED BY <1>3, <2>1 DEF NextState, OFFER, ACK, NAK
<1> QED BY <1>2, <1>3

(* The walk finds in a reply the one message type a server put there.       *)
LEMMA TypeRead ==
    ASSUME NEW k \in {OFFER, ACK, NAK}, NEW ip, NEW dst, NEW m \in Replies(k, ip, dst)
    PROVE  ReadOptions(m.options).types = <<k>>
<1>1. PICK t \in Tails :
        m = [op |-> 2, yiaddr |-> ip, dst |-> dst, options |-> <<MSG_TYPE, 1, k>> \o t]
  BY Zenon DEF Replies
<1>2. m.options = <<MSG_TYPE, 1, k>> \o t
  BY <1>1, Zenon
<1> QED BY <1>2, TailAssumption, Zenon

(* A reply the IP layer lets through carries the device's own address, and  *)
(* is an OFFER of it or an ACK that a server has sent.                      *)
LEMMA ReplyForUs ==
    ASSUME TypeOK, RepliesAreSent, NEW m \in toClient, ForUs(m)
    PROVE  /\ m.yiaddr = DeviceIP
           /\ \/ /\ DeviceIP \in {Offered[s] : s \in Server}
                 /\ NextState(ReadOptions(m.options).types) = DHCP_STATE_REQUESTING
              \/ /\ DeviceIP \in acked
                 /\ NextState(ReadOptions(m.options).types) = DHCP_STATE_ACK
<1>1. m.dst = DeviceIP /\ m.dst # Everyone
  BY DHCPAssumption DEF ForUs
<1>2. CASE \E s \in Server : m \in Replies(OFFER, Offered[s], Offered[s])
  <2>1. PICK s \in Server : m \in Replies(OFFER, Offered[s], Offered[s])
    BY <1>2
  <2>2. m.yiaddr = Offered[s] /\ m.dst = Offered[s]
    BY <2>1 DEF Replies
  <2>3. ReadOptions(m.options).types = <<OFFER>>
    BY <2>1, TypeRead
  <2> QED BY <1>1, <2>2, <2>3, NextStateOf
<1>3. CASE \E ip \in acked : m \in Replies(ACK, ip, ip)
  <2>1. PICK ip \in acked : m \in Replies(ACK, ip, ip)
    BY <1>3
  <2>2. m.yiaddr = ip /\ m.dst = ip
    BY <2>1 DEF Replies
  <2>3. ReadOptions(m.options).types = <<ACK>>
    BY <2>1, TypeRead
  <2> QED BY <1>1, <2>1, <2>2, <2>3, NextStateOf
<1>4. CASE m \in Replies(NAK, NullIP, Everyone)
  BY <1>1, <1>4 DEF Replies
<1> QED BY <1>2, <1>3, <1>4 DEF RepliesAreSent

-----------------------------------------------------------------------------
(* Each step keeps the invariant.                                           *)

LEMMA InitIInv == Init => IInv
<1> SUFFICES ASSUME Init PROVE IInv
  OBVIOUS
<1>1. losses \in 0..MaxLosses /\ repeats \in 0..MaxRepeats
  BY DHCPAssumption DEF Init
<1>2. TypeOK
  BY <1>1 DEF Init, TypeOK
<1>3. RepliesAreSent /\ RequestedIsOffered
  BY DEF Init, RepliesAreSent, RequestedIsOffered
<1>4. BoundIsAcked
  BY DEF Init, BoundIsAcked, DHCP_STATE_DISCOVER, DHCP_STATE_ACK
<1> QED BY <1>2, <1>3, <1>4 DEF IInv

LEMMA DiscoveryStep == ASSUME IInv, DhcpDiscovery PROVE IInv'
<1>1. ToServers("DISCOVER", NullIP) \subseteq Request
  BY DEF ToServers, Request
<1>2. TypeOK'
  BY <1>1 DEF IInv, TypeOK, DhcpDiscovery
<1>3. RepliesAreSent'
  BY DEF IInv, RepliesAreSent, DhcpDiscovery, Replies
<1>4. RequestedIsOffered' /\ BoundIsAcked'
  BY DEF IInv, RequestedIsOffered, BoundIsAcked, DhcpDiscovery
<1> QED BY <1>2, <1>3, <1>4 DEF IInv

LEMMA RequestType == ASSUME NEW ip \in IP PROVE ToServers("REQUEST", ip) \subseteq Request
BY DEF ToServers, Request

LEMMA ReceiveStep == ASSUME IInv, ClientReceives PROVE IInv'
<1>1. PICK m \in toClient :
        /\ Take(toClient, toClient', m)
        /\ \/ ForUs(m) /\ HandleData(m)
           \/ /\ ~ForUs(m)
              /\ UNCHANGED <<dhcp_current_state, server_supply_ip, requested, toServer>>
        /\ UNCHANGED <<started, acked, losses>>
  BY DEF ClientReceives
<1>2. toClient' \subseteq toClient /\ repeats' \in 0..MaxRepeats
  BY <1>1, DHCPAssumption DEF Take, IInv, TypeOK
<1>3. RepliesAreSent'
  BY <1>1, <1>2 DEF IInv, RepliesAreSent, Replies
<1>4. CASE ~ForUs(m)
  BY <1>1, <1>2, <1>3, <1>4 DEF IInv, TypeOK, RequestedIsOffered, BoundIsAcked
<1>5. CASE ForUs(m)
  <2> DEFINE next == NextState(ReadOptions(m.options).types)
  <2>1. /\ server_supply_ip' = DeviceIP
        /\ dhcp_current_state' = next
        /\ \/ next = DHCP_STATE_REQUESTING /\ DhcpRequest(DeviceIP)
           \/ UNCHANGED <<requested, toServer>>
    BY <1>1, <1>5, ReplyForUs DEF IInv, HandleData
  <2>2. \/ /\ DeviceIP \in {Offered[s] : s \in Server}
           /\ next = DHCP_STATE_REQUESTING
        \/ /\ DeviceIP \in acked
           /\ next = DHCP_STATE_ACK
    BY <1>5, ReplyForUs DEF IInv
  <2>3. DeviceIP \in IP
    BY DHCPAssumption
  <2> HIDE DEF next
  <2>4. toServer' \subseteq Request /\ requested' \in SUBSET (IP \cup {NullIP})
    BY <2>1, <2>3, RequestType DEF IInv, TypeOK, DhcpRequest
  <2>5. TypeOK'
    BY <1>1, <1>2, <2>1, <2>2, <2>3, <2>4 DEF IInv, TypeOK
  <2>6. RequestedIsOffered'
    BY <2>1, <2>2 DEF IInv, RequestedIsOffered, DhcpRequest,
          DHCP_STATE_REQUESTING, DHCP_STATE_ACK
  <2>7. BoundIsAcked'
    BY <1>1, <2>1, <2>2 DEF BoundIsAcked, DHCP_STATE_REQUESTING, DHCP_STATE_ACK
  <2> QED BY <1>3, <2>5, <2>6, <2>7 DEF IInv
<1> QED BY <1>4, <1>5

LEMMA ServerStep == ASSUME IInv, ServerReceives PROVE IInv'
<1>1. PICK m \in toServer :
        /\ Take(toServer, toServer', m)
        /\ \/ /\ m.kind = "DISCOVER"
              /\ \E r \in Replies(OFFER, Offered[m.to], Offered[m.to]) :
                   toClient' = toClient \cup {r}
              /\ UNCHANGED acked
           \/ /\ m.kind = "REQUEST" /\ m.ip = Offered[m.to]
              /\ \E r \in Replies(ACK, m.ip, m.ip) : toClient' = toClient \cup {r}
              /\ acked' = acked \cup {m.ip}
           \/ /\ m.kind = "REQUEST" /\ m.ip # Offered[m.to]
              /\ \E r \in Replies(NAK, NullIP, Everyone) : toClient' = toClient \cup {r}
              /\ UNCHANGED acked
        /\ UNCHANGED <<client, losses>>
  BY DEF ServerReceives
<1>2. m.to \in Server /\ Offered[m.to] \in IP
  BY DHCPAssumption DEF IInv, TypeOK, Request
<1>3. toServer' \subseteq Request /\ repeats' \in 0..MaxRepeats
  BY <1>1, DHCPAssumption DEF Take, IInv, TypeOK
<1>4. acked \subseteq acked' /\ acked' \in SUBSET IP
  BY <1>1, <1>2 DEF IInv, TypeOK
<1>5. PICK r : /\ toClient' = toClient \cup {r}
               /\ \/ r \in Replies(OFFER, Offered[m.to], Offered[m.to])
                  \/ \E ip \in acked' : ip \in IP /\ r \in Replies(ACK, ip, ip)
                  \/ r \in Replies(NAK, NullIP, Everyone)
  BY <1>1, <1>2
<1>6. r.yiaddr \in IP \cup {NullIP} /\ r.dst \in IP \cup {Everyone}
  BY <1>2, <1>5 DEF Replies
<1>7. TypeOK'
  BY <1>1, <1>3, <1>4, <1>5, <1>6 DEF IInv, TypeOK, client
<1>8. RepliesAreSent'
  BY <1>2, <1>4, <1>5 DEF IInv, RepliesAreSent, Replies
<1>9. RequestedIsOffered' /\ BoundIsAcked'
  BY <1>1, <1>4 DEF IInv, RequestedIsOffered, BoundIsAcked, client
<1> QED BY <1>7, <1>8, <1>9 DEF IInv

LEMMA LoseStep == ASSUME IInv, Lose PROVE IInv'
<1>1. toServer' \subseteq toServer /\ toClient' \subseteq toClient
  BY DEF Lose
<1>2. losses' \in 0..MaxLosses
  BY DHCPAssumption DEF IInv, TypeOK, Lose
<1>3. TypeOK'
  BY <1>1, <1>2 DEF IInv, TypeOK, Lose, client
<1>4. RepliesAreSent' /\ RequestedIsOffered' /\ BoundIsAcked'
  BY <1>1 DEF IInv, RepliesAreSent, RequestedIsOffered, BoundIsAcked, Lose, client, Replies
<1> QED BY <1>3, <1>4 DEF IInv

LEMMA NextIInv == IInv /\ [Next]_vars => IInv'
<1> SUFFICES ASSUME IInv, [Next]_vars PROVE IInv'
  OBVIOUS
<1>1. CASE Next
  BY <1>1, DiscoveryStep, ReceiveStep, ServerStep, LoseStep DEF Next
<1>2. CASE UNCHANGED vars
  BY <1>2 DEF vars, client, IInv, TypeOK, RepliesAreSent, RequestedIsOffered, BoundIsAcked, Replies
<1> QED BY <1>1, <1>2

-----------------------------------------------------------------------------
(* The variables of the client, the servers and the network keep their      *)
(* types: dhcp_current_state never leaves the three states.                 *)
THEOREM TypeCorrect == Spec => []TypeOK
<1>1. IInv => TypeOK
  BY DEF IInv
<1> QED BY <1>1, InitIInv, NextIInv, PTL DEF Spec

(* dhcpRequest only ever asks for an address that some server offers,       *)
(* however replies are lost, repeated and mixed up.                         *)
THEOREM OnlyOfferedRequested == Spec => []RequestedIsOffered
<1>1. IInv => RequestedIsOffered
  BY DEF IInv
<1> QED BY <1>1, InitIInv, NextIInv, PTL DEF Spec

(* A client that readOptions has taken to the state ACK holds an address    *)
(* that a server acknowledged.                                              *)
THEOREM OnlyAckedBound == Spec => []BoundIsAcked
<1>1. IInv => BoundIsAcked
  BY DEF IInv
<1> QED BY <1>1, InitIInv, NextIInv, PTL DEF Spec

-----------------------------------------------------------------------------
(* A request for every address held while requesting.  readOptions must     *)
(* reach the end of what a server offers: an option it does not know can    *)
(* make it throw before the request is sent, as the network with option 44  *)
(* shows.                                                                   *)

OffersAreRead == \A t \in Tails : ReadOptions(<<MSG_TYPE, 1, OFFER>> \o t).ended

LEMMA MoreElements ==
    ASSUME NEW S, NEW T, S \subseteq T, NEW s \in Seq(S)
    PROVE  s \in Seq(T)
OBVIOUS

(* Servers that only send options the client knows, up to an end option.    *)
KnownTails ==
    \A t \in Tails : \E P :
      OptionStarts(t, P) /\ 1 \in P /\ \A p \in P : t[p] # MSG_TYPE

(* Of such a reply the client reads the one type that it announces, and all *)
(* of it: none of the types the switch lists can make it throw.             *)
THEOREM KnownTailsAreRead ==
    KnownTails =>
      \A t \in Tails, k \in {OFFER, ACK, NAK} :
        ReadOptions(<<MSG_TYPE, 1, k>> \o t) = [ended |-> TRUE, types |-> <<k>>]
<1> SUFFICES ASSUME KnownTails, NEW t \in Tails, NEW k \in {OFFER, ACK, NAK}
             PROVE  ReadOptions(<<MSG_TYPE, 1, k>> \o t) = [ended |-> TRUE, types |-> <<k>>]
  OBVIOUS
<1>1. PICK P : OptionStarts(t, P) /\ 1 \in P /\ \A p \in P : t[p] # MSG_TYPE
  BY DEF KnownTails
<1>2. t \in Seq(Nat)
  <2>1. t \in Seq(0..255) /\ 0..255 \subseteq Nat
    BY DHCPAssumption
  <2> QED BY <2>1, MoreElements
<1>3. k \in Nat
  BY DEF OFFER, ACK, NAK
<1> QED BY <1>1, <1>2, <1>3, TypeThenOptions

LEMMA OfferRead ==
    ASSUME OffersAreRead, NEW ip, NEW dst, NEW m \in Replies(OFFER, ip, dst)
    PROVE  ReadOptions(m.options).ended
<1>1. PICK t \in Tails :
        m = [op |-> 2, yiaddr |-> ip, dst |-> dst, options |-> <<MSG_TYPE, 1, OFFER>> \o t]
  BY Zenon DEF Replies
<1>2. m.options = <<MSG_TYPE, 1, OFFER>> \o t
  BY <1>1, Zenon
<1> QED BY <1>2, Zenon DEF OffersAreRead

(* What takes the client to REQUESTING is an OFFER, the only message that   *)
(* does, so the reply is read to its end.                                   *)
LEMMA RequestingRead ==
    ASSUME OffersAreRead, TypeOK, RepliesAreSent, NEW m \in toClient, ForUs(m),
           NextState(ReadOptions(m.options).types) = DHCP_STATE_REQUESTING
    PROVE  ReadOptions(m.options).ended
<1>1. m.dst # Everyone
  BY DHCPAssumption DEF ForUs
<1>2. ~(\E ip \in acked : m \in Replies(ACK, ip, ip))
  <2> SUFFICES ASSUME NEW ip \in acked, m \in Replies(ACK, ip, ip) PROVE FALSE
    OBVIOUS
  <2>1. ReadOptions(m.options).types = <<ACK>>
    BY TypeRead
  <2> QED BY <2>1, NextStateOf DEF DHCP_STATE_REQUESTING, DHCP_STATE_ACK
<1>3. m \notin Replies(NAK, NullIP, Everyone)
  BY <1>1 DEF Replies
<1>4. PICK s \in Server : m \in Replies(OFFER, Offered[s], Offered[s])
  BY <1>2, <1>3 DEF RepliesAreSent
<1> QED BY <1>4, OfferRead

LEMMA AskedStep ==
    ASSUME OffersAreRead, IInv, RequestingHasAsked, [Next]_vars
    PROVE  RequestingHasAsked'
<1>1. CASE UNCHANGED <<dhcp_current_state, server_supply_ip, requested>>
  BY <1>1 DEF RequestingHasAsked
<1>2. CASE ClientReceives
  <2>1. PICK m \in toClient :
          \/ ForUs(m) /\ HandleData(m)
          \/ UNCHANGED <<dhcp_current_state, server_supply_ip, requested>>
    BY <1>2 DEF ClientReceives
  <2>2. CASE ForUs(m) /\ HandleData(m)
    <3>1. /\ server_supply_ip' = m.yiaddr
          /\ dhcp_current_state' = NextState(ReadOptions(m.options).types)
          /\ \/ DhcpRequest(m.yiaddr)
             \/ ~ReadOptions(m.options).ended
             \/ dhcp_current_state' # DHCP_STATE_REQUESTING
      BY <2>2, Zenon DEF HandleData
    <3>2. CASE dhcp_current_state' = DHCP_STATE_REQUESTING
      <4>1. ReadOptions(m.options).ended
        BY <2>2, <3>1, <3>2, RequestingRead DEF IInv
      <4>2. DhcpRequest(m.yiaddr)
        BY <3>1, <3>2, <4>1
      <4> QED BY <3>1, <4>2 DEF DhcpRequest, RequestingHasAsked
    <3> QED BY <3>2 DEF RequestingHasAsked
  <2> QED BY <1>1, <2>1, <2>2
<1>3. CASE DhcpDiscovery \/ ServerReceives \/ Lose \/ UNCHANGED vars
  BY <1>1, <1>3 DEF DhcpDiscovery, ServerReceives, Lose, vars, client
<1> QED BY <1>2, <1>3 DEF Next

(* A client that readOptions has taken to REQUESTING has asked, in the same *)
(* call of handleData, for the address it now holds.                        *)
THEOREM RequestingAsked == OffersAreRead => (Spec => []RequestingHasAsked)
<1> SUFFICES ASSUME OffersAreRead PROVE Spec => []RequestingHasAsked
  OBVIOUS
<1>1. Init => RequestingHasAsked
  BY DEF Init, RequestingHasAsked, DHCP_STATE_DISCOVER, DHCP_STATE_REQUESTING
<1>2. IInv /\ RequestingHasAsked /\ [Next]_vars => IInv' /\ RequestingHasAsked'
  BY AskedStep, NextIInv
<1> QED BY <1>1, <1>2, InitIInv, PTL DEF Spec

(* So it does with servers that send only options the client knows.         *)
COROLLARY RequestingAskedOfKnown == KnownTails => (Spec => []RequestingHasAsked)
<1>1. KnownTails => OffersAreRead
  <2> SUFFICES ASSUME KnownTails, NEW t \in Tails
               PROVE  ReadOptions(<<MSG_TYPE, 1, OFFER>> \o t).ended
    BY DEF OffersAreRead
  <2>1. ReadOptions(<<MSG_TYPE, 1, OFFER>> \o t) = [ended |-> TRUE, types |-> <<OFFER>>]
    BY KnownTailsAreRead
  <2> QED BY <2>1
<1> QED BY <1>1, RequestingAsked
=============================================================================
