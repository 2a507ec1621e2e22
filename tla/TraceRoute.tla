---------------------------- MODULE TraceRoute ------------------------------
(***************************************************************************)
(* Application/TraceRoute.java on top of ProtocolManager, of which it sees *)
(* two things: the send path, which is the outbox that ProtocolManager is  *)
(* shown to implement, and handleICMPPacket, which gives what the chain    *)
(* of ICMPProtocolLayer returns to every program that has registered.      *)
(*                                                                         *)
(* A probe is a UDP packet to a port nobody listens on.  The router where  *)
(* its time to live ends answers with an ICMP message (type 11, code 0),   *)
(* and the target with another (3, 3).  The program has no timer: each     *)
(* answer makes it send the next probe, and nothing in an answer is looked *)
(* at to see which probe it is the answer to.                              *)
(***************************************************************************)
EXTENDS ICMPProtocolLayer, SequencesExt

CONSTANTS
    Target,         \* where the traced route goes
    Everyone,       \* the broadcast destination of the outbox, not used here
    Route,          \* the routers on the way, the nearest first
    Foreign,        \* [type, code] of messages other hosts send to the device
    Host,           \* a host that sends them
    MaxForeign,     \* bound: how many it sends
    MaxLosses,      \* bound: packets lost
    MaxRepeats      \* bound: answers repeated by the network

ASSUME TraceAssumption ==
    /\ Target # Everyone /\ Target \notin Range(Route) /\ Host \notin Range(Route)
    /\ Route \in Seq(Range(Route)) /\ IsInjective(Route)
    /\ Len(Route) + MaxRepeats < 127   \* time_to_live, a signed byte, stays positive
    /\ MaxForeign \in Nat /\ MaxLosses \in Nat /\ MaxRepeats \in Nat

VARIABLES
    time_to_live, dest_port,        \* of the next probe
    registered,     \* the program is in icmpPacketReceiverList
    report,         \* [hop, ip] of the lines printed
    probes,         \* probes[n]: [ttl, port] of the n-th packet handed over
    open, box, out, accepted,       \* the outbox
    travelled,      \* probes that have reached the end of their way
    icmp,           \* ICMP messages on their way to the device
    silent,         \* routers that answer nothing
    foreign, losses, repeats        \* what may still happen

trace == <<time_to_live, dest_port, registered, report, probes>>
outbox == <<open, box, out, accepted>>
bounds == <<foreign, losses, repeats>>
vars == <<trace, outbox, travelled, icmp, silent, bounds>>

Outbox == INSTANCE Outbox WITH Dest <- {Target}

Init ==
    /\ time_to_live = 1 /\ dest_port = 33434
    /\ registered = FALSE
    /\ report = <<>> /\ probes = <<>>
    /\ Outbox!Init
    /\ travelled = {} /\ icmp = {}
    /\ silent \in SUBSET Range(Route)
    /\ foreign = MaxForeign /\ losses = MaxLosses /\ repeats = MaxRepeats

-----------------------------------------------------------------------------
(* The program.                                                            *)

\* A probe with the present time to live is handed over.
StartTraceRoute ==
    /\ Outbox!Submit(Target)
    /\ probes' = Append(probes, [ttl |-> time_to_live', port |-> dest_port'])
    /\ registered' = TRUE

\* main starts the program, once, before it enters the receive loop.
MainStarts ==
    /\ probes = <<>>
    /\ UNCHANGED <<time_to_live, dest_port, report>>
    /\ StartTraceRoute
    /\ UNCHANGED <<travelled, icmp, silent, bounds>>

\* handleData that keeps its time to live.
HandleData_SameTTL(ip) ==
    /\ report' = Append(report, [hop |-> time_to_live, ip |-> ip])
    /\ dest_port' = (dest_port + 1) % 65536
    /\ UNCHANGED time_to_live
    /\ StartTraceRoute

\* handleData that starts from the time to live after the next.
HandleData_TwoByTwo(ip) ==
    /\ report' = Append(report, [hop |-> time_to_live, ip |-> ip])
    /\ dest_port' = (dest_port + 1) % 65536
    /\ time_to_live' = (time_to_live + 2) % 256
    /\ StartTraceRoute

\* handleData, given the information of a time-exceeded message: its sender is
\* taken for the router the last probe ended at.
HandleData(ip) ==
    /\ report' = Append(report, [hop |-> time_to_live, ip |-> ip])
    /\ dest_port' = (dest_port + 1) % 65536
    /\ time_to_live' = (time_to_live + 1) % 256
    /\ StartTraceRoute

\* handleICMPPacket: where the chain returns nothing an exception ends it, and
\* handleData ignores information that holds no type.
HandleICMPPacket(m) ==
    \/ HandlePacket(m) = "time exceeded" /\ registered /\ HandleData(m.from)
    \/ /\ ~(HandlePacket(m) = "time exceeded" /\ registered)
       /\ UNCHANGED <<trace, outbox>>

\* The receive loop takes a message; the network may keep a copy of it.
ReceiveICMP ==
    \E m \in icmp :
      /\ probes # <<>>
      /\ \/ icmp' = icmp \ {m} /\ UNCHANGED repeats
         \/ icmp' = icmp /\ repeats > 0 /\ repeats' = repeats - 1
      /\ HandleICMPPacket(m)
      /\ UNCHANGED <<travelled, silent, foreign, losses>>

\* The receive loop takes the router's ARP reply.
ReceiveARP ==
    /\ probes # <<>>
    /\ Outbox!Open
    /\ UNCHANGED <<trace, travelled, icmp, silent, bounds>>

-----------------------------------------------------------------------------
(* The network.                                                            *)

Answers(p) ==
    IF p.ttl > Len(Route) THEN {[type |-> 3, code |-> 3, from |-> Target]}
    ELSE IF Route[p.ttl] \in silent THEN {}
    ELSE {[type |-> 11, code |-> 0, from |-> Route[p.ttl]]}

ProbeTravels ==
    \E n \in Range(out) \ travelled :
      /\ travelled' = travelled \cup {n}
      /\ icmp' = icmp \cup Answers(probes[n])
      /\ UNCHANGED <<trace, outbox, silent, bounds>>

Lose ==
    /\ losses > 0 /\ losses' = losses - 1
    /\ \/ \E n \in Range(out) \ travelled :
            travelled' = travelled \cup {n} /\ UNCHANGED icmp
       \/ \E m \in icmp : icmp' = icmp \ {m} /\ UNCHANGED travelled
    /\ UNCHANGED <<trace, outbox, silent, foreign, repeats>>

\* Another host answers an old ping, redirects, or pings the device.
ForeignMessage ==
    /\ foreign > 0 /\ foreign' = foreign - 1
    /\ \E f \in Foreign : icmp' = icmp \cup {[type |-> f[1], code |-> f[2], from |-> Host]}
    /\ UNCHANGED <<trace, outbox, travelled, silent, losses, repeats>>

Next == MainStarts \/ ReceiveICMP \/ ReceiveARP \/ ProbeTravels \/ Lose \/ ForeignMessage

Spec == Init /\ [][Next]_vars

\* main goes on to the receive loop, which takes what arrives; the router's ARP
\* reply and the answers of the routers arrive.
FairSpec ==
    /\ Spec
    /\ WF_vars(MainStarts) /\ WF_vars(ReceiveICMP) /\ WF_vars(ReceiveARP)
    /\ WF_vars(ProbeTravels)

-----------------------------------------------------------------------------
(* Properties.                                                             *)

Octet == {o \in Nat : o < 256}
Port == {p \in Nat : p < 65536}
Probe == [ttl : Octet, port : Port]

TypeOK ==
    /\ time_to_live \in Octet /\ dest_port \in Port
    /\ registered \in BOOLEAN
    /\ report \in Seq([hop : Octet, ip : Range(Route)])
    /\ probes \in Seq(Probe) /\ Len(probes) = Len(accepted)
    /\ travelled \subseteq Range(out)
    /\ foreign \in 0..MaxForeign /\ losses \in 0..MaxLosses /\ repeats \in 0..MaxRepeats

\* On a network that repeats nothing, the k-th line printed names the k-th
\* router: whatever is lost and whatever other hosts send, only the answer to
\* the last probe moves the program on.
RouteIsTrue ==
    repeats = MaxRepeats =>
      \A k \in DOMAIN report :
        k \in DOMAIN Route /\ report[k] = [hop |-> k, ip |-> Route[k]]

\* No probe is replaced while it waits for the router's link address: nothing
\* but an answer makes the program send, and no answer comes before that.
EveryProbeSent ==
    \A n \in DOMAIN probes : n \in Range(out) \/ n = box[Target]

\* The trace stops at the target, whose answer nobody understands: a line is
\* printed for each router and for each repeated answer, and no more.
StopsAtTarget == Len(report) + repeats <= Len(Route) + MaxRepeats

\* If nothing is lost every router in front of the first silent one is reported
\* in the end, whatever is repeated.
RouteIsFound ==
    [](losses = MaxLosses) =>
      <>(\A k \in DOMAIN Route :
           (\A j \in 1..k : Route[j] \notin silent)
             => \E i \in DOMAIN report : report[i].ip = Route[k])
=============================================================================
