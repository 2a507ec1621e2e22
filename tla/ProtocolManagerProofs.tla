----------------------- MODULE ProtocolManagerProofs ------------------------
(* Theorems about ProtocolManager, for every value of its constants.        *)
EXTENDS ProtocolManager, FiniteSetTheorems, SequenceTheorems, TLAPS

(* The packets that wait are a finite set, so every order sendWaitingData  *)
(* may take is a sequence of packet numbers.                               *)
LEMMA OrderType ==
    ASSUME TypeOK, NEW order \in SetToSeqs(Waiting)
    PROVE  /\ Cardinality(Waiting) \in Nat
           /\ order \in [1..Cardinality(Waiting) -> Waiting]
           /\ order \in Seq(1..Len(accepted))
           /\ Len(order) = Cardinality(Waiting)
<1>1. Waiting \subseteq 1..Len(accepted)
  BY DEF TypeOK, Waiting
<1>2. Len(accepted) \in Nat
  BY DEF TypeOK
<1>3. IsFiniteSet(1..Len(accepted))
  BY <1>2, FS_Interval
<1>4. IsFiniteSet(Waiting)
  BY <1>1, <1>3, FS_Subset
<1>5. Cardinality(Waiting) \in Nat
  BY <1>4, FS_CardinalityType
<1>6. order \in [1..Cardinality(Waiting) -> Waiting]
  BY DEF SetToSeqs
<1>7. order \in Seq(1..Len(accepted)) /\ Len(order) = Cardinality(Waiting)
  <2>1. order \in [1..Cardinality(Waiting) -> 1..Len(accepted)]
    BY <1>1, <1>6
  <2>2. order \in Seq(1..Len(accepted))
    BY <1>5, <2>1, SeqDef
  <2>3. DOMAIN order = 1..Len(order) /\ DOMAIN order = 1..Cardinality(Waiting)
    BY <2>1, <2>2, LenProperties
  <2> QED BY <1>5, <2>2, <2>3
<1> QED BY <1>5, <1>6, <1>7

(* Nothing to send gives the empty order.                                  *)
LEMMA NoOrder ==
    ASSUME Waiting = {}, NEW order \in SetToSeqs(Waiting)
    PROVE  order = <<>>
<1>1. Cardinality(Waiting) = 0
  BY FS_EmptySet
<1>2. order \in [1..0 -> {}]
  BY <1>1 DEF SetToSeqs
<1> QED BY <1>2

(* Frames built from an order carry its packets to one link address.       *)
LEMMA FramedType ==
    ASSUME NEW S, NEW order \in Seq(S), NEW mac
    PROVE  /\ Framed(order, mac) \in Seq([id : S, mac : {mac}])
           /\ Len(Framed(order, mac)) = Len(order)
           /\ \A k \in 1..Len(order) : Framed(order, mac)[k] = [id |-> order[k], mac |-> mac]
BY DEF Framed

Frames(n) == Seq([id : 1..n, mac : MAC \cup {BroadcastMAC}])

(* Frames that carry the first m packets carry the first n, if m <= n.     *)
LEMMA FramesGrow ==
    ASSUME NEW m \in Nat, NEW n \in Nat, m <= n, NEW w \in Frames(m)
    PROVE  w \in Frames(n)
<1>1. [id : 1..m, mac : MAC \cup {BroadcastMAC}]
        \subseteq [id : 1..n, mac : MAC \cup {BroadcastMAC}]
  OBVIOUS
<1> QED BY <1>1, SeqMonotonic DEF Frames

-----------------------------------------------------------------------------
(* What one call of the send path does to the types.                       *)

LEMMA SendDataType ==
    ASSUME TypeOK, NEW ip \in IP, SendData(ip)
    PROVE  /\ accepted' \in Seq(IP \cup {Everyone})
           /\ dataWaitToSend' \in [IP -> 0..Len(accepted')]
           /\ wire' \in Frames(Len(accepted'))
           /\ asked' \in BOOLEAN
<1>1. /\ accepted' \in Seq(IP \cup {Everyone})
      /\ Len(accepted') = Len(accepted) + 1
      /\ Len(accepted) \in Nat
  BY DEF TypeOK, SendData
<1>2. dataWaitToSend \in [IP -> 0..Len(accepted')]
  BY <1>1 DEF TypeOK
<1>3. wire \in Frames(Len(accepted'))
  <2>1. wire \in Frames(Len(accepted))
    BY DEF TypeOK, Frames
  <2>2. Len(accepted') \in Nat /\ Len(accepted) <= Len(accepted')
    BY <1>1
  <2> QED BY <1>1, <2>1, <2>2, FramesGrow
<1>4. CASE GetRouterMac(ipToMacTable) = NoMac
  BY <1>1, <1>2, <1>3, <1>4 DEF SendData, PrepareRouterMac
<1>5. CASE GetRouterMac(ipToMacTable) # NoMac
  <2>1. GetRouterMac(ipToMacTable) \in MAC
    BY <1>5, RouterAssumption DEF TypeOK, GetRouterMac
  <2>2. [id |-> Len(accepted) + 1, mac |-> GetRouterMac(ipToMacTable)]
          \in [id : 1..Len(accepted'), mac : MAC \cup {BroadcastMAC}]
    BY <1>1, <2>1
  <2>3. wire' = Append(wire, [id |-> Len(accepted) + 1, mac |-> GetRouterMac(ipToMacTable)])
    BY <1>5 DEF SendData
  <2>4. wire' \in Frames(Len(accepted'))
    BY <1>3, <2>2, <2>3 DEF Frames
  <2>5. UNCHANGED <<dataWaitToSend, asked>>
    BY <1>5 DEF SendData
  <2> QED BY <1>1, <1>2, <2>4, <2>5 DEF TypeOK
<1> QED BY <1>4, <1>5

LEMMA BroadCastType ==
    ASSUME TypeOK, BroadCast
    PROVE  /\ accepted' \in Seq(IP \cup {Everyone})
           /\ dataWaitToSend' \in [IP -> 0..Len(accepted')]
           /\ wire' \in Frames(Len(accepted'))
           /\ asked' \in BOOLEAN
<1>1. /\ accepted' \in Seq(IP \cup {Everyone})
      /\ Len(accepted') = Len(accepted) + 1
      /\ Len(accepted) \in Nat
  BY DEF TypeOK, BroadCast
<1>2. wire \in Frames(Len(accepted'))
  <2>1. wire \in Frames(Len(accepted))
    BY DEF TypeOK, Frames
  <2>2. Len(accepted') \in Nat /\ Len(accepted) <= Len(accepted')
    BY <1>1
  <2> QED BY <1>1, <2>1, <2>2, FramesGrow
<1>3. [id |-> Len(accepted) + 1, mac |-> BroadcastMAC]
        \in [id : 1..Len(accepted'), mac : MAC \cup {BroadcastMAC}]
  BY <1>1
<1>4. wire' \in Frames(Len(accepted'))
  BY <1>2, <1>3 DEF BroadCast, Frames
<1>5. dataWaitToSend' \in [IP -> 0..Len(accepted')] /\ asked' \in BOOLEAN
  BY <1>1 DEF TypeOK, BroadCast
<1> QED BY <1>1, <1>4, <1>5

LEMMA AppSendsType ==
    ASSUME TypeOK, AppSends,
           phase' \in {"starting", "looping"}, capture' \in Seq(Frame)
    PROVE  TypeOK'
<1>1. /\ accepted' \in Seq(IP \cup {Everyone})
      /\ dataWaitToSend' \in [IP -> 0..Len(accepted')]
      /\ wire' \in Frames(Len(accepted'))
      /\ asked' \in BOOLEAN
  BY SendDataType, BroadCastType DEF AppSends
<1> QED BY <1>1 DEF AppSends, TypeOK, Frames

LEMMA ReceiveARPType ==
    ASSUME TypeOK, ReceiveARP
    PROVE  TypeOK'
<1> DEFINE f == Head(capture)
<1>1. capture \in Seq(Frame) /\ capture # <<>> /\ f \in Frame
  BY DEF TypeOK, ReceiveARP
<1>2. f \in ARPFrame
  BY <1>1 DEF ReceiveARP, Frame, ARPFrame, IPFrame
<1>3. ipToMacTable' \in [IP -> MAC \cup {NoMac}]
  BY <1>2 DEF ReceiveARP, TypeOK, ARPFrame
<1>4. capture' \in Seq(Frame)
  BY <1>1 DEF ReceiveARP
<1>5. UNCHANGED <<phase, accepted, asked, replies, routerMac, hostFrames, faults>>
  BY DEF ReceiveARP, network
<1>6. dataWaitToSend' \in [IP -> 0..Len(accepted)] /\ wire' \in Frames(Len(accepted))
  <2> DEFINE mac == GetRouterMac(ipToMacTable')
  <2>1. CASE mac = NoMac
    BY <2>1 DEF ReceiveARP, SendWaitingData, TypeOK, Frames
  <2>2. CASE mac # NoMac
    <3>1. mac \in MAC
      BY <2>2, <1>3, RouterAssumption DEF GetRouterMac
    <3>2. PICK order \in SetToSeqs(Waiting) : wire' = wire \o Framed(order, mac)
      BY <2>2 DEF ReceiveARP, SendWaitingData
    <3>3. order \in Seq(1..Len(accepted))
      BY <3>2, OrderType
    <3>4. Framed(order, mac) \in Seq([id : 1..Len(accepted), mac : {mac}])
      BY <3>3, FramedType
    <3>5. Framed(order, mac) \in Frames(Len(accepted))
      <4>1. [id : 1..Len(accepted), mac : {mac}]
              \subseteq [id : 1..Len(accepted), mac : MAC \cup {BroadcastMAC}]
        BY <3>1
      <4> QED BY <3>4, <4>1, SeqMonotonic DEF Frames
    <3>6. wire' \in Frames(Len(accepted))
      BY <3>2, <3>5 DEF TypeOK, Frames
    <3>7. dataWaitToSend' = [i \in IP |-> 0]
      BY <2>2 DEF ReceiveARP, SendWaitingData
    <3>8. Len(accepted) \in Nat
      BY DEF TypeOK
    <3> QED BY <3>6, <3>7, <3>8
  <2> QED BY <2>1, <2>2
<1> QED BY <1>3, <1>4, <1>5, <1>6 DEF TypeOK, Frames

LEMMA ReceiveType ==
    ASSUME TypeOK, Receive
    PROVE  TypeOK'
<1>1. CASE ReceiveARP
  BY <1>1, ReceiveARPType
<1>2. CASE ReceiveIP
  <2>1. phase' \in {"starting", "looping"} /\ capture' \in Seq(Frame)
    BY <1>2 DEF ReceiveIP, TypeOK
  <2>2. CASE UNCHANGED <<table, history, network>>
    BY <2>1, <2>2 DEF TypeOK, table, history, network
  <2>3. CASE AppSends
    BY <2>1, <2>3, AppSendsType
  <2> QED BY <1>2, <2>2, <2>3 DEF ReceiveIP
<1> QED BY <1>1, <1>2 DEF Receive

LEMMA EnvironmentType ==
    ASSUME TypeOK, Environment
    PROVE  TypeOK'
<1> USE DEF TypeOK, table, history
<1>1. CASE RouterAnswers
  BY <1>1 DEF RouterAnswers
<1>2. CASE ReplyArrives
  <2>1. PICK m \in replies : /\ capture' = Append(capture, RouterReply(m))
                             /\ UNCHANGED <<phase, table, history, asked, routerMac, hostFrames>>
    BY <1>2 DEF ReplyArrives
  <2>2. RouterReply(m) \in Frame
    BY RouterAssumption DEF RouterReply, Frame, ARPFrame, MAC
  <2>3. capture' \in Seq(Frame)
    BY <2>1, <2>2
  <2>4. replies' \in SUBSET RouterMACs /\ faults' \in 0..MaxFaults
    BY <1>2, BoundAssumption DEF ReplyArrives
  <2> QED BY <2>1, <2>3, <2>4
<1>3. CASE NetworkLoses
  <2>1. asked' \in BOOLEAN /\ replies' \in SUBSET RouterMACs
    BY <1>3 DEF NetworkLoses
  <2>2. faults' \in 0..MaxFaults
    BY <1>3, BoundAssumption DEF NetworkLoses
  <2> QED BY <1>3, <2>1, <2>2 DEF NetworkLoses
<1>4. CASE RouterChanges
  BY <1>4 DEF RouterChanges
<1>5. CASE HostSends
  <2>1. HostFrame \subseteq Frame
    BY DEF HostFrame, Frame
  <2>2. capture' \in Seq(Frame)
    BY <1>5, <2>1 DEF HostSends
  <2>3. hostFrames' \in 0..MaxHostFrames
    BY <1>5, BoundAssumption DEF HostSends
  <2> QED BY <1>5, <2>2, <2>3 DEF HostSends
<1> QED BY <1>1, <1>2, <1>3, <1>4, <1>5 DEF Environment

LEMMA InitType == Init => TypeOK
BY BoundAssumption DEF Init, TypeOK

LEMMA NextType == TypeOK /\ [Next]_vars => TypeOK'
<1> SUFFICES ASSUME TypeOK, [Next]_vars PROVE TypeOK'
  OBVIOUS
<1>1. CASE AppStart
  <2>1. phase' \in {"starting", "looping"} /\ capture' \in Seq(Frame) /\ AppSends
    BY <1>1 DEF AppStart, TypeOK
  <2> QED BY <2>1, AppSendsType
<1>2. CASE EnterLoop
  BY <1>2 DEF EnterLoop, TypeOK, table, history, network
<1>3. CASE Receive
  BY <1>3, ReceiveType
<1>4. CASE Environment
  BY <1>4, EnvironmentType
<1>5. CASE UNCHANGED vars
  BY <1>5 DEF vars, TypeOK, table, history, network
<1> QED BY <1>1, <1>2, <1>3, <1>4, <1>5 DEF Next

(* Every variable keeps its type: packets that wait and frames that went   *)
(* out carry packets that were handed over, and the ARP table never holds  *)
(* anything but link addresses.                                            *)
THEOREM TypeCorrect == Spec => []TypeOK
<1>1. Init => TypeOK
  BY InitType
<1>2. TypeOK /\ [Next]_vars => TypeOK'
  BY NextType
<1> QED BY <1>1, <1>2, PTL DEF Spec

-----------------------------------------------------------------------------
(* Nothing is stranded.                                                    *)

LEMMA InitNothingStranded == Init => NothingStranded
BY RouterAssumption DEF Init, NothingStranded, GetRouterMac

LEMMA AppSendsKeeps ==
    ASSUME NothingStranded, AppSends
    PROVE  NothingStranded'
<1>1. UNCHANGED ipToMacTable
  BY DEF AppSends
<1>2. CASE GetRouterMac(ipToMacTable) = NoMac
  BY <1>1, <1>2 DEF NothingStranded, GetRouterMac
<1>3. CASE GetRouterMac(ipToMacTable) # NoMac
  <2>1. UNCHANGED dataWaitToSend
    BY <1>3 DEF AppSends, SendData, BroadCast
  <2> QED BY <1>1, <2>1 DEF NothingStranded, Waiting, GetRouterMac
<1> QED BY <1>2, <1>3

LEMMA ReceiveARPKeeps ==
    ASSUME ReceiveARP
    PROVE  NothingStranded'
<1>1. CASE GetRouterMac(ipToMacTable') = NoMac
  BY <1>1 DEF NothingStranded, GetRouterMac
<1>2. CASE GetRouterMac(ipToMacTable') # NoMac
  <2>1. dataWaitToSend' = [i \in IP |-> 0]
    BY <1>2 DEF ReceiveARP, SendWaitingData
  <2>2. Waiting' = {}
    BY <2>1 DEF Waiting
  <2> QED BY <2>2 DEF NothingStranded
<1> QED BY <1>1, <1>2

LEMMA NextNothingStranded == NothingStranded /\ [Next]_vars => NothingStranded'
<1> SUFFICES ASSUME NothingStranded, [Next]_vars PROVE NothingStranded'
  OBVIOUS
<1>1. CASE AppSends
  BY <1>1, AppSendsKeeps
<1>2. CASE ReceiveARP
  BY <1>2, ReceiveARPKeeps
<1>3. CASE UNCHANGED table
  BY <1>3 DEF table, NothingStranded, Waiting, GetRouterMac
<1>4. AppSends \/ ReceiveARP \/ UNCHANGED table
  BY DEF Next, AppStart, EnterLoop, Receive, ReceiveIP, Environment, RouterAnswers,
         ReplyArrives, NetworkLoses, RouterChanges, HostSends, vars
<1> QED BY <1>1, <1>2, <1>3, <1>4

(* No packet waits in dataWaitToSend once getRouterMac answers: whatever   *)
(* else is received or sent, and in whatever order, none is left behind.   *)
THEOREM NeverStranded == Spec => []NothingStranded
<1>1. Init => NothingStranded
  BY InitNothingStranded
<1>2. NothingStranded /\ [Next]_vars => NothingStranded'
  BY NextNothingStranded
<1> QED BY <1>1, <1>2, PTL DEF Spec

-----------------------------------------------------------------------------
(* The manager implements the outbox.                                      *)

Ids(w) == [k \in DOMAIN w |-> w[k].id]

LEMMA IdsOfAppend ==
    ASSUME NEW S, NEW w \in Seq(S), NEW fr \in S
    PROVE  Ids(Append(w, fr)) = Append(Ids(w), fr.id)
<1>1. Len(Append(w, fr)) = Len(w) + 1 /\ Len(w) \in Nat
  OBVIOUS
<1>2. /\ DOMAIN w = 1..Len(w)
      /\ DOMAIN Append(w, fr) = 1..(Len(w) + 1)
  OBVIOUS
<1>3. \A k \in 1..(Len(w) + 1) :
        Append(w, fr)[k] = IF k = Len(w) + 1 THEN fr ELSE w[k]
  OBVIOUS
<1> DEFINE ids == {x.id : x \in S}
<1>4. Ids(w) \in Seq(ids) /\ Len(Ids(w)) = Len(w)
  <2>1. \A k \in 1..Len(w) : w[k] \in S
    OBVIOUS
  <2>2. Ids(w) \in [1..Len(w) -> ids]
    BY <1>2, <2>1 DEF Ids
  <2>3. Ids(w) \in Seq(ids)
    BY <1>1, <2>2, SeqDef
  <2> QED BY <2>3, <2>2, <1>1
<1>5. Append(Ids(w), fr.id) =
        [k \in 1..(Len(w) + 1) |-> IF k = Len(w) + 1 THEN fr.id ELSE Ids(w)[k]]
  BY <1>4
<1>6. Ids(Append(w, fr)) = [k \in 1..(Len(w) + 1) |-> Append(w, fr)[k].id]
  BY <1>2 DEF Ids
<1>7. \A k \in 1..(Len(w) + 1) :
        Append(w, fr)[k].id = IF k = Len(w) + 1 THEN fr.id ELSE Ids(w)[k]
  BY <1>1, <1>2, <1>3 DEF Ids
<1> QED BY <1>5, <1>6, <1>7

(* A concatenation, position by position.                                  *)
LEMMA ConcatAsFunction ==
    ASSUME NEW A, NEW B, NEW s \in Seq(A), NEW t \in Seq(B)
    PROVE  s \o t = [k \in 1..(Len(s) + Len(t)) |->
                       IF k <= Len(s) THEN s[k] ELSE t[k - Len(s)]]
<1> DEFINE U == A \cup B
<1>1. s \in Seq(U) /\ t \in Seq(U)
  BY SeqMonotonic
<1>2. /\ s \o t \in Seq(U)
      /\ Len(s \o t) = Len(s) + Len(t)
      /\ \A k \in 1..(Len(s) + Len(t)) :
           (s \o t)[k] = IF k <= Len(s) THEN s[k] ELSE t[k - Len(s)]
  BY <1>1, ConcatProperties
<1>3. s \o t \in [1..(Len(s) + Len(t)) -> U]
  BY <1>2, LenProperties
<1> QED BY <1>2, <1>3

LEMMA IdsOfFlush ==
    ASSUME NEW S, NEW w \in Seq(S), NEW T, NEW order \in Seq(T), NEW mac
    PROVE  Ids(w \o Framed(order, mac)) = Ids(w) \o order
<1> DEFINE fr == Framed(order, mac)
<1>1. /\ Len(w) \in Nat /\ Len(order) \in Nat
      /\ DOMAIN w = 1..Len(w)
      /\ fr = [k \in 1..Len(order) |-> [id |-> order[k], mac |-> mac]]
  BY DEF Framed
<1> HIDE DEF fr
<1>2. fr \in Seq([id : T, mac : {mac}]) /\ Len(fr) = Len(order)
  BY FramedType DEF fr
<1>3. /\ DOMAIN (w \o fr) = 1..(Len(w) + Len(order))
      /\ \A k \in 1..(Len(w) + Len(order)) :
           (w \o fr)[k] = IF k <= Len(w) THEN w[k] ELSE fr[k - Len(w)]
  BY <1>1, <1>2, ConcatAsFunction
<1> DEFINE ids == {x.id : x \in S}
<1>4. Ids(w) \in Seq(ids) /\ Len(Ids(w)) = Len(w)
  <2>1. \A k \in 1..Len(w) : w[k] \in S
    OBVIOUS
  <2>2. Ids(w) \in [1..Len(w) -> ids]
    BY <1>1, <2>1 DEF Ids
  <2>3. Ids(w) \in Seq(ids)
    BY <1>1, <2>2, SeqDef
  <2> QED BY <2>3, <2>2, <1>1
<1>5. Ids(w) \o order = [k \in 1..(Len(w) + Len(order)) |->
                           IF k <= Len(w) THEN Ids(w)[k] ELSE order[k - Len(w)]]
  <2>1. Ids(w) \o order = [k \in 1..(Len(Ids(w)) + Len(order)) |->
                             IF k <= Len(Ids(w)) THEN Ids(w)[k]
                                                ELSE order[k - Len(Ids(w))]]
    <3> DEFINE v == Ids(w)
    <3>1. v \in Seq(ids)
      BY <1>4
    <3> HIDE DEF v, ids
    <3>2. v \o order = [k \in 1..(Len(v) + Len(order)) |->
                          IF k <= Len(v) THEN v[k] ELSE order[k - Len(v)]]
      BY <3>1, ConcatAsFunction
    <3> QED BY <3>2 DEF v
  <2> QED BY <1>4, <2>1
<1>6. Ids(w \o fr) = [k \in 1..(Len(w) + Len(order)) |-> (w \o fr)[k].id]
  BY <1>3 DEF Ids
<1>7. ASSUME NEW k \in 1..(Len(w) + Len(order))
      PROVE  (w \o fr)[k].id = IF k <= Len(w) THEN Ids(w)[k] ELSE order[k - Len(w)]
  <2>1. CASE k <= Len(w)
    <3>1. k \in DOMAIN w
      BY <1>1, <2>1
    <3> QED BY <1>3, <2>1, <3>1 DEF Ids
  <2>2. CASE ~(k <= Len(w))
    <3>1. k - Len(w) \in 1..Len(order)
      BY <1>1, <2>2
    <3>2. fr[k - Len(w)].id = order[k - Len(w)]
      BY <1>1, <3>1
    <3> QED BY <1>3, <2>2, <3>2
  <2> QED BY <2>1, <2>2
<1>8. Ids(w \o fr) = Ids(w) \o order
  BY <1>5, <1>6, <1>7
<1> QED BY <1>8 DEF fr

RouterKnown == GetRouterMac(ipToMacTable) # NoMac

LEMMA InitOutbox == Init => Box!Init
<1> SUFFICES ASSUME Init PROVE Box!Init
  OBVIOUS
<1>1. ~RouterKnown
  BY RouterAssumption DEF Init, GetRouterMac, RouterKnown
<1>2. Ids(wire) = <<>>
  BY DEF Init, Ids
<1> QED BY <1>1, <1>2 DEF Init, Box!Init, RouterKnown, Ids

(* A hand-over is a submission to the outbox.                              *)
LEMMA AppSendsOutbox ==
    ASSUME TypeOK, AppSends
    PROVE  (\E d \in IP : Box!Submit(d)) \/ Box!SubmitToAll
<1> DEFINE id == Len(accepted) + 1
<1>1. UNCHANGED ipToMacTable
  BY DEF AppSends
<1>2. ASSUME NEW m, wire' = Append(wire, [id |-> id, mac |-> m])
      PROVE  Ids(wire)' = Append(Ids(wire), id)
  <2> DEFINE S == [id : 1..Len(accepted), mac : MAC \cup {BroadcastMAC}]
                    \cup {[id |-> id, mac |-> m]}
  <2>1. wire \in Seq(S)
    BY SeqMonotonic DEF TypeOK
  <2>2. [id |-> id, mac |-> m] \in S
    OBVIOUS
  <2> HIDE DEF S
  <2>3. Ids(Append(wire, [id |-> id, mac |-> m])) = Append(Ids(wire), id)
    BY <2>1, <2>2, IdsOfAppend
  <2> QED BY <1>2, <2>3
<1>3. ASSUME NEW ip \in IP, SendData(ip)
      PROVE  Box!Submit(ip)
  <2>1. CASE RouterKnown
    <3>1. /\ wire' = Append(wire, [id |-> id, mac |-> GetRouterMac(ipToMacTable)])
          /\ UNCHANGED dataWaitToSend
          /\ accepted' = Append(accepted, ip)
      BY <1>3, <2>1 DEF SendData, RouterKnown
    <3>2. Ids(wire)' = Append(Ids(wire), id)
      BY <1>2, <3>1
    <3> QED BY <1>1, <2>1, <3>1, <3>2 DEF Box!Submit, RouterKnown, Ids
  <2>2. CASE ~RouterKnown
    <3>1. /\ UNCHANGED wire
          /\ dataWaitToSend' = [dataWaitToSend EXCEPT ![ip] = id]
          /\ accepted' = Append(accepted, ip)
      BY <1>3, <2>2 DEF SendData, RouterKnown
    <3> QED BY <1>1, <2>2, <3>1 DEF Box!Submit, RouterKnown
  <2> QED BY <2>1, <2>2
<1>4. ASSUME BroadCast
      PROVE  Box!SubmitToAll
  <2>1. /\ wire' = Append(wire, [id |-> id, mac |-> BroadcastMAC])
        /\ UNCHANGED dataWaitToSend
        /\ accepted' = Append(accepted, Everyone)
    BY <1>4 DEF BroadCast
  <2>2. Ids(wire)' = Append(Ids(wire), id)
    BY <1>2, <2>1
  <2> QED BY <1>1, <2>1, <2>2 DEF Box!SubmitToAll, RouterKnown, Ids
<1> QED BY <1>3, <1>4 DEF AppSends

(* An ARP message opens the outbox, or changes nothing the outbox sees.    *)
LEMMA ReceiveARPOutbox ==
    ASSUME TypeOK, NothingStranded, ReceiveARP
    PROVE  Box!Open \/ UNCHANGED Box!vars
<1> DEFINE mac == GetRouterMac(ipToMacTable')
<1>1. RouterKnown => mac # NoMac
  <2>1. Head(capture) \in Frame
    BY DEF TypeOK, ReceiveARP
  <2>2. Head(capture).mac \in MAC
    BY <2>1 DEF ReceiveARP, Frame, ARPFrame, IPFrame
  <2>3. \/ ipToMacTable' = [ipToMacTable EXCEPT ![Head(capture).ip] = Head(capture).mac]
        \/ UNCHANGED ipToMacTable
    BY DEF ReceiveARP
  <2> QED BY <2>2, <2>3, RouterAssumption, AddressAssumption
          DEF TypeOK, GetRouterMac, RouterKnown
<1>2. UNCHANGED accepted
  BY DEF ReceiveARP
<1>3. CASE mac = NoMac
  <2>1. UNCHANGED <<wire, dataWaitToSend>>
    BY <1>3 DEF ReceiveARP, SendWaitingData
  <2>2. ~RouterKnown /\ ~RouterKnown'
    BY <1>1, <1>3 DEF RouterKnown, GetRouterMac
  <2> QED BY <1>2, <2>1, <2>2 DEF Box!vars, RouterKnown
<1>4. CASE mac # NoMac
  <2>1. PICK order \in SetToSeqs(Waiting) : wire' = wire \o Framed(order, mac)
    BY <1>4 DEF ReceiveARP, SendWaitingData
  <2>2. dataWaitToSend' = [i \in IP |-> 0]
    BY <1>4 DEF ReceiveARP, SendWaitingData
  <2>3. Ids(wire)' = Ids(wire) \o order
    <3>1. /\ order \in Seq(1..Len(accepted))
          /\ wire \in Seq([id : 1..Len(accepted), mac : MAC \cup {BroadcastMAC}])
      BY <2>1, OrderType DEF TypeOK
    <3>2. Ids(wire \o Framed(order, mac)) = Ids(wire) \o order
      BY <3>1, IdsOfFlush
    <3> QED BY <2>1, <3>2
  <2>4. RouterKnown'
    BY <1>4 DEF RouterKnown, GetRouterMac
  <2>5. CASE ~RouterKnown
    <3>1. order \in Box!SetToSeqs(Box!Boxed)
      <4>1. Box!Boxed = Waiting
        BY DEF Waiting, Box!Boxed
      <4>2. Box!SetToSeqs(Waiting) = SetToSeqs(Waiting)
        BY DEF SetToSeqs, Box!SetToSeqs, Cardinality, Box!Cardinality
      <4> QED BY <2>1, <4>1, <4>2
    <3>2. [k \in DOMAIN wire |-> wire[k].id]' = [k \in DOMAIN wire |-> wire[k].id] \o order
      BY <2>3 DEF Ids
    <3>3. \E o \in Box!SetToSeqs(Box!Boxed) :
            [k \in DOMAIN wire |-> wire[k].id]' = [k \in DOMAIN wire |-> wire[k].id] \o o
      BY <3>1, <3>2
    <3>4. /\ (GetRouterMac(ipToMacTable) # NoMac) = FALSE
          /\ (GetRouterMac(ipToMacTable) # NoMac)' = TRUE
      BY <2>4, <2>5 DEF RouterKnown
    <3>5. Box!Open
      BY <1>2, <2>2, <3>3, <3>4, Zenon DEF Box!Open
    <3> QED BY <3>5
  <2>6. CASE RouterKnown
    <3>1. Waiting = {}
      BY <2>6 DEF NothingStranded, RouterKnown
    <3>2. order = <<>>
      BY <2>1, <3>1, NoOrder
    <3>3. wire' = wire
      <4>1. Framed(order, mac) = <<>>
        <5>1. Len(order) = 0
          BY <3>2
        <5> QED BY <5>1 DEF Framed
      <4>2. wire \o <<>> = wire
        BY ConcatEmptySeq DEF TypeOK
      <4> QED BY <2>1, <4>1, <4>2
    <3>4. dataWaitToSend' = dataWaitToSend
      <4>1. \A i \in IP : dataWaitToSend[i] = 0
        BY <3>1 DEF Waiting
      <4> QED BY <2>2, <4>1 DEF TypeOK
    <3> QED BY <1>2, <2>4, <2>6, <3>3, <3>4 DEF Box!vars, RouterKnown
  <2> QED BY <2>5, <2>6
<1> QED BY <1>3, <1>4

LEMMA NextOutbox ==
    TypeOK /\ NothingStranded /\ [Next]_vars => [Box!Next]_(Box!vars)
<1> SUFFICES ASSUME TypeOK, NothingStranded, [Next]_vars
             PROVE  Box!Next \/ UNCHANGED Box!vars
  OBVIOUS
<1>1. CASE AppSends
  BY <1>1, AppSendsOutbox DEF Box!Next
<1>2. CASE ReceiveARP
  BY <1>2, ReceiveARPOutbox DEF Box!Next
<1>3. CASE UNCHANGED <<table, history>>
  BY <1>3 DEF table, history, Box!vars
<1>4. AppSends \/ ReceiveARP \/ UNCHANGED <<table, history>>
  BY DEF Next, AppStart, EnterLoop, Receive, ReceiveIP, Environment, RouterAnswers,
         ReplyArrives, NetworkLoses, RouterChanges, HostSends, vars
<1> QED BY <1>1, <1>2, <1>3, <1>4

(* ProtocolManager keeps the promise of the outbox: each hand-over, and    *)
(* each ARP message received, is a step of it or invisible to it.          *)
THEOREM Refinement == Spec => ImplementsOutbox
<1>1. Init => Box!Init
  BY InitOutbox
<1>2. TypeOK /\ NothingStranded /\ [Next]_vars => [Box!Next]_(Box!vars)
  BY NextOutbox
<1> QED BY <1>1, <1>2, TypeCorrect, NeverStranded, PTL DEF Spec, Box!Spec, ImplementsOutbox
-----------------------------------------------------------------------------
(* What is transmitted: which packets, how often, in which order and to     *)
(* whom.                                                                    *)

(* The packet that waits for a destination is the last one handed over for  *)
(* it, so a packet transmitted straight away is newer than any that waited. *)
WaitingIsNewest ==
    \A ip \in IP : dataWaitToSend[ip] # 0 =>
      /\ accepted[dataWaitToSend[ip]] = ip
      /\ \A k \in DOMAIN accepted : accepted[k] = ip => k <= dataWaitToSend[ip]

(* What waits has not been transmitted.                                     *)
WaitingNotSent == Waiting \cap SentIds = {}

(* Whoever answers in the router's name has one of its link addresses.      *)
CapturedIsTrue ==
    \A k \in DOMAIN capture :
      capture[k].type = "ARP" /\ capture[k].ip = RouterIP => capture[k].mac \in RouterMACs

RouterIsTrue == GetRouterMac(ipToMacTable) \in RouterMACs \cup {NoMac}

SendInv ==
    /\ WaitingIsNewest
    /\ WaitingNotSent
    /\ SentAtMostOnce
    /\ NewestPacketKept
    /\ OrderPerDestination

RouterInv == CapturedIsTrue /\ RouterIsTrue /\ OnlyToRouter

-----------------------------------------------------------------------------
(* What a step can do to the send path: a packet is left waiting, a packet  *)
(* goes straight out, or everything that waits is transmitted.              *)

Left(ip) ==
    /\ accepted' = Append(accepted, ip)
    /\ dataWaitToSend' = [dataWaitToSend EXCEPT ![ip] = Len(accepted) + 1]
    /\ UNCHANGED wire

Straight(d, mac) ==
    /\ accepted' = Append(accepted, d)
    /\ wire' = Append(wire, [id |-> Len(accepted) + 1, mac |-> mac])
    /\ UNCHANGED dataWaitToSend
    /\ \/ d \in IP /\ Waiting = {} /\ mac = GetRouterMac(ipToMacTable) /\ mac # NoMac
       \/ d = Everyone /\ mac = BroadcastMAC

Flushed(order, mac) ==
    /\ wire' = wire \o Framed(order, mac)
    /\ dataWaitToSend' = [i \in IP |-> 0]
    /\ UNCHANGED accepted
    /\ mac = GetRouterMac(ipToMacTable') /\ mac # NoMac

Untouched == UNCHANGED <<dataWaitToSend, accepted, wire>>

LEMMA AppSendsEffect ==
    ASSUME TypeOK, NothingStranded, AppSends
    PROVE  \/ \E ip \in IP : Left(ip)
           \/ \E d \in IP \cup {Everyone} : \E mac \in MAC \cup {BroadcastMAC} : Straight(d, mac)
<1>1. CASE BroadCast
  <2>1. Straight(Everyone, BroadcastMAC)
    BY <1>1 DEF BroadCast, Straight
  <2> QED BY <2>1
<1>2. CASE \E ip \in IP : SendData(ip)
  <2> DEFINE mac == GetRouterMac(ipToMacTable)
  <2>1. PICK ip \in IP : SendData(ip)
    BY <1>2
  <2>2. CASE mac = NoMac
    <3>1. Left(ip)
      BY <2>1, <2>2 DEF SendData, Left
    <3> QED BY <3>1
  <2>3. CASE mac # NoMac
    <3>1. Waiting = {}
      BY <2>3 DEF NothingStranded
    <3>2. Straight(ip, mac)
      BY <2>1, <2>3, <3>1 DEF SendData, Straight
    <3>3. mac \in MAC
      BY <2>3, RouterAssumption DEF TypeOK, GetRouterMac
    <3> QED BY <3>2, <3>3
  <2> QED BY <2>2, <2>3
<1> QED BY <1>1, <1>2 DEF AppSends

LEMMA NextEffect ==
    ASSUME TypeOK, NothingStranded, [Next]_vars
    PROVE  \/ \E ip \in IP : Left(ip)
           \/ \E d \in IP \cup {Everyone} : \E mac \in MAC \cup {BroadcastMAC} : Straight(d, mac)
           \/ \E order \in SetToSeqs(Waiting) : Flushed(order, GetRouterMac(ipToMacTable'))
           \/ Untouched
<1>1. AppSends \/ ReceiveARP \/ UNCHANGED <<table, history>>
  BY DEF Next, AppStart, EnterLoop, Receive, ReceiveIP, Environment, RouterAnswers,
         ReplyArrives, NetworkLoses, RouterChanges, HostSends, vars
<1>2. CASE AppSends
  BY <1>2, AppSendsEffect
<1>3. CASE ReceiveARP
  <2>1. CASE GetRouterMac(ipToMacTable') = NoMac
    BY <1>3, <2>1 DEF ReceiveARP, SendWaitingData, Untouched
  <2>2. CASE GetRouterMac(ipToMacTable') # NoMac
    <3>1. \E order \in SetToSeqs(Waiting) :
            wire' = wire \o Framed(order, GetRouterMac(ipToMacTable'))
      BY <1>3, <2>2 DEF ReceiveARP, SendWaitingData
    <3>2. dataWaitToSend' = [i \in IP |-> 0] /\ UNCHANGED accepted
      BY <1>3, <2>2 DEF ReceiveARP, SendWaitingData
    <3> QED BY <2>2, <3>1, <3>2 DEF Flushed
  <2> QED BY <2>1, <2>2
<1>4. CASE UNCHANGED <<table, history>>
  BY <1>4 DEF table, history, Untouched
<1> QED BY <1>1, <1>2, <1>3, <1>4

(* Handing a packet over changes no destination of an earlier one.          *)
LEMMA AcceptedGrows ==
    ASSUME TypeOK, NEW d \in IP \cup {Everyone}, accepted' = Append(accepted, d)
    PROVE  /\ Len(accepted) \in Nat /\ Len(accepted') = Len(accepted) + 1
           /\ DOMAIN accepted = 1..Len(accepted)
           /\ DOMAIN accepted' = 1..(Len(accepted) + 1)
           /\ accepted'[Len(accepted) + 1] = d
           /\ \A n \in 1..Len(accepted) : accepted'[n] = accepted[n]
BY DEF TypeOK

(* The frames transmitted and the packets that wait carry packets that were *)
(* handed over, and only packets for a host wait.                           *)
LEMMA KnownPackets ==
    ASSUME TypeOK
    PROVE  /\ DOMAIN wire = 1..Len(wire) /\ Len(wire) \in Nat
           /\ \A k \in 1..Len(wire) : wire[k].id \in 1..Len(accepted)
           /\ SentIds \subseteq 1..Len(accepted)
           /\ Waiting \subseteq 1..Len(accepted)
           /\ \A n \in Waiting : \E i \in IP : dataWaitToSend[i] = n
           /\ \A i \in IP : dataWaitToSend[i] # 0 => dataWaitToSend[i] \in Waiting
<1>1. DOMAIN wire = 1..Len(wire) /\ Len(wire) \in Nat
  BY DEF TypeOK
<1>2. ASSUME NEW k \in 1..Len(wire) PROVE wire[k].id \in 1..Len(accepted)
  <2>1. wire[k] \in [id : 1..Len(accepted), mac : MAC \cup {BroadcastMAC}]
    BY ElementOfSeq DEF TypeOK
  <2> QED BY <2>1
<1>3. Waiting \subseteq 1..Len(accepted)
  BY DEF TypeOK, Waiting
<1> QED BY <1>1, <1>2, <1>3 DEF SentIds, Waiting

-----------------------------------------------------------------------------
(* Each kind of step keeps SendInv.                                         *)

LEMMA InitSend == Init => SendInv
<1> SUFFICES ASSUME Init PROVE SendInv
  OBVIOUS
<1>1. DOMAIN wire = {} /\ DOMAIN accepted = {} /\ \A i \in IP : dataWaitToSend[i] = 0
  BY DEF Init
<1> QED BY <1>1 DEF SendInv, WaitingIsNewest, WaitingNotSent, SentIds, SentAtMostOnce,
                    NewestPacketKept, OrderPerDestination

(* A packet that is left waiting takes the place of an older one.           *)
LEMMA LeftKeeps ==
    ASSUME TypeOK, SendInv, NEW ip \in IP, Left(ip)
    PROVE  SendInv'
<1> DEFINE n0 == Len(accepted) + 1
<1>1. /\ Len(accepted) \in Nat
      /\ DOMAIN accepted = 1..Len(accepted) /\ DOMAIN accepted' = 1..n0
      /\ accepted'[n0] = ip
      /\ \A n \in 1..Len(accepted) : accepted'[n] = accepted[n]
  BY AcceptedGrows DEF Left
<1>2. /\ dataWaitToSend'[ip] = n0
      /\ \A i \in IP \ {ip} : dataWaitToSend'[i] = dataWaitToSend[i]
      /\ Waiting' \subseteq Waiting \cup {n0}
      /\ n0 \in Waiting'
  <2>1. /\ dataWaitToSend'[ip] = n0
        /\ \A i \in IP \ {ip} : dataWaitToSend'[i] = dataWaitToSend[i]
    BY DEF TypeOK, Left
  <2> QED BY <1>1, <2>1 DEF Waiting
<1>3. UNCHANGED wire /\ SentIds' = SentIds
  BY DEF Left, SentIds
<1>4. WaitingIsNewest'
  <2> SUFFICES ASSUME NEW i \in IP, dataWaitToSend'[i] # 0
               PROVE  /\ accepted'[dataWaitToSend'[i]] = i
                      /\ \A k \in 1..n0 : accepted'[k] = i => k <= dataWaitToSend'[i]
    BY <1>1 DEF WaitingIsNewest
  <2>1. CASE i = ip
    BY <1>1, <1>2, <2>1
  <2>2. CASE i # ip
    <3>1. dataWaitToSend'[i] = dataWaitToSend[i] /\ dataWaitToSend[i] \in 1..Len(accepted)
      BY <1>2, <2>2, KnownPackets
    <3>2. /\ accepted[dataWaitToSend[i]] = i
          /\ \A k \in 1..Len(accepted) : accepted[k] = i => k <= dataWaitToSend[i]
      BY <1>1, <3>1 DEF SendInv, WaitingIsNewest
    <3> QED BY <1>1, <2>2, <3>1, <3>2
  <2> QED BY <2>1, <2>2
<1>5. WaitingNotSent'
  <2>1. n0 \notin SentIds
    BY <1>1, KnownPackets
  <2> QED BY <1>2, <1>3, <2>1 DEF SendInv, WaitingNotSent
<1>6. SentAtMostOnce'
  BY <1>3 DEF SendInv, SentAtMostOnce
<1>7. OrderPerDestination'
  <2>1. \A k \in DOMAIN wire : wire[k].id \in 1..Len(accepted)
    BY KnownPackets
  <2> QED BY <1>1, <1>3, <2>1 DEF SendInv, OrderPerDestination
<1>8. NewestPacketKept'
  <2> SUFFICES ASSUME NEW n \in 1..n0,
                      \A k \in 1..n0 : accepted'[k] = accepted'[n] => k <= n
               PROVE  n \in SentIds \cup Waiting'
    BY <1>1, <1>3 DEF NewestPacketKept
  <2>1. CASE n = n0
    BY <1>2, <2>1
  <2>2. CASE n # n0
    <3>1. n \in 1..Len(accepted) /\ accepted[n] # ip
      BY <1>1, <2>2
    <3>2. n \in SentIds \cup Waiting
      BY <1>1, <3>1 DEF SendInv, NewestPacketKept
    <3>3. CASE n \in Waiting
      <4>1. PICK i \in IP : dataWaitToSend[i] = n
        BY <3>3, KnownPackets
      <4>2. i # ip
        BY <3>1, <4>1, <1>1 DEF SendInv, WaitingIsNewest
      <4> QED BY <1>1, <1>2, <3>1, <4>1, <4>2 DEF Waiting
    <3> QED BY <3>2, <3>3
  <2> QED BY <2>1, <2>2
<1> QED BY <1>4, <1>5, <1>6, <1>7, <1>8 DEF SendInv

(* A packet that goes straight out is newer than every other.               *)
LEMMA StraightKeeps ==
    ASSUME TypeOK, SendInv, NEW d \in IP \cup {Everyone}, NEW mac \in MAC \cup {BroadcastMAC}, Straight(d, mac)
    PROVE  SendInv'
<1> DEFINE n0 == Len(accepted) + 1
           w0 == Len(wire) + 1
<1>1. /\ Len(accepted) \in Nat
      /\ DOMAIN accepted = 1..Len(accepted) /\ DOMAIN accepted' = 1..n0
      /\ accepted'[n0] = d
      /\ \A n \in 1..Len(accepted) : accepted'[n] = accepted[n]
  BY AcceptedGrows DEF Straight
<1>2. /\ Len(wire) \in Nat
      /\ DOMAIN wire = 1..Len(wire) /\ DOMAIN wire' = 1..w0
      /\ wire'[w0].id = n0
      /\ \A k \in 1..Len(wire) : wire'[k] = wire[k] /\ wire[k].id \in 1..Len(accepted)
  <2>1. \A k \in 1..Len(wire) : wire[k].id \in 1..Len(accepted)
    BY KnownPackets
  <2>2. wire' = Append(wire, [id |-> n0, mac |-> mac])
    BY DEF Straight
  <2> QED BY <2>1, <2>2 DEF TypeOK
<1>3. UNCHANGED dataWaitToSend /\ Waiting' = Waiting
  BY DEF Straight, Waiting
<1>4. SentIds' = SentIds \cup {n0}
  BY <1>1, <1>2 DEF SentIds
<1>5. WaitingIsNewest'
  <2>1. CASE d \in IP
    <3>1. \A i \in IP : dataWaitToSend[i] = 0
      BY <2>1, AddressAssumption DEF Straight, Waiting
    <3> QED BY <1>3, <3>1 DEF WaitingIsNewest
  <2>2. CASE d = Everyone
    <3> SUFFICES ASSUME NEW i \in IP, dataWaitToSend[i] # 0
                 PROVE  /\ accepted'[dataWaitToSend[i]] = i
                        /\ \A k \in 1..n0 : accepted'[k] = i => k <= dataWaitToSend[i]
      BY <1>1, <1>3 DEF WaitingIsNewest
    <3>1. dataWaitToSend[i] \in 1..Len(accepted)
      BY KnownPackets
    <3>2. /\ accepted[dataWaitToSend[i]] = i
          /\ \A k \in 1..Len(accepted) : accepted[k] = i => k <= dataWaitToSend[i]
      BY <1>1 DEF SendInv, WaitingIsNewest
    <3>3. d # i
      BY <2>2, AddressAssumption
    <3> QED BY <1>1, <3>1, <3>2, <3>3
  <2> QED BY <2>1, <2>2
<1>6. WaitingNotSent'
  <2>1. n0 \notin Waiting
    BY <1>1, KnownPackets
  <2> QED BY <1>3, <1>4, <2>1 DEF SendInv, WaitingNotSent
<1>7. SentAtMostOnce'
  BY <1>1, <1>2 DEF SendInv, SentAtMostOnce
<1>8. OrderPerDestination'
  <2> SUFFICES ASSUME NEW j \in 1..w0, NEW k \in 1..w0, j < k,
                      accepted'[wire'[j].id] = accepted'[wire'[k].id]
               PROVE  wire'[j].id < wire'[k].id
    BY <1>2 DEF OrderPerDestination
  <2>1. j \in 1..Len(wire)
    BY <1>2
  <2>2. CASE k = w0
    BY <1>1, <1>2, <2>1, <2>2
  <2>3. CASE k # w0
    <3>1. k \in 1..Len(wire)
      <4>1. Len(wire) \in Nat
        BY <1>2
      <4> QED BY <2>3, <4>1
    <3> QED BY <1>1, <1>2, <2>1, <3>1 DEF SendInv, OrderPerDestination
  <2> QED BY <2>2, <2>3
<1>9. NewestPacketKept'
  <2> SUFFICES ASSUME NEW n \in 1..n0,
                      \A k \in 1..n0 : accepted'[k] = accepted'[n] => k <= n
               PROVE  n \in SentIds' \cup Waiting'
    BY <1>1 DEF NewestPacketKept
  <2>1. CASE n = n0
    BY <1>4, <2>1
  <2>2. CASE n # n0
    <3>1. n \in 1..Len(accepted)
      BY <1>1, <2>2
    <3>2. n \in SentIds \cup Waiting
      BY <1>1, <3>1 DEF SendInv, NewestPacketKept
    <3> QED BY <1>3, <1>4, <3>2
  <2> QED BY <2>1, <2>2
<1> QED BY <1>5, <1>6, <1>7, <1>8, <1>9 DEF SendInv

(* The frames a flush adds: each carries a different packet of those that   *)
(* waited, and none of those is missing.                                    *)
LEMMA FlushedFrames ==
    ASSUME TypeOK, NEW order \in SetToSeqs(Waiting), NEW mac, Flushed(order, mac)
    PROVE  /\ Len(wire) \in Nat /\ Len(order) \in Nat
           /\ DOMAIN wire = 1..Len(wire) /\ DOMAIN wire' = 1..(Len(wire) + Len(order))
           /\ \A k \in 1..Len(wire) : wire'[k] = wire[k]
           /\ \A k \in (Len(wire) + 1)..(Len(wire) + Len(order)) :
                wire'[k] = [id |-> order[k - Len(wire)], mac |-> mac]
           /\ \A k \in 1..Len(order) : order[k] \in Waiting
           /\ \A j, k \in 1..Len(order) : order[j] = order[k] => j = k
           /\ \A n \in Waiting : \E k \in 1..Len(order) : order[k] = n
<1> DEFINE fr == Framed(order, mac)
           S == [id : 1..Len(accepted), mac : MAC \cup {BroadcastMAC}]
<1>1. /\ Cardinality(Waiting) \in Nat
      /\ order \in [1..Cardinality(Waiting) -> Waiting]
      /\ order \in Seq(1..Len(accepted))
      /\ Len(order) = Cardinality(Waiting)
  BY OrderType
<1>2. /\ fr \in Seq([id : 1..Len(accepted), mac : {mac}])
      /\ Len(fr) = Len(order)
      /\ \A k \in 1..Len(order) : fr[k] = [id |-> order[k], mac |-> mac]
  <2> DEFINE T == 1..Len(accepted)
  <2>1. order \in Seq(T)
    BY <1>1
  <2> HIDE DEF T
  <2>2. /\ fr \in Seq([id : T, mac : {mac}])
        /\ Len(fr) = Len(order)
        /\ \A k \in 1..Len(order) : fr[k] = [id |-> order[k], mac |-> mac]
    BY <2>1 DEF Framed
  <2> QED BY <2>2 DEF T
<1>3. wire \in Seq(S) /\ Len(wire) \in Nat /\ DOMAIN wire = 1..Len(wire)
  BY DEF TypeOK
<1>4. wire' = [k \in 1..(Len(wire) + Len(order)) |->
                 IF k <= Len(wire) THEN wire[k] ELSE fr[k - Len(wire)]]
  <2>1. wire' = wire \o fr
    BY DEF Flushed
  <2> HIDE DEF fr, S
  <2> QED BY <1>2, <1>3, <2>1, ConcatAsFunction
<1>5. \A k \in 1..Len(wire) : wire'[k] = wire[k]
  BY <1>1, <1>3, <1>4
<1>6. ASSUME NEW k \in (Len(wire) + 1)..(Len(wire) + Len(order))
      PROVE  wire'[k] = [id |-> order[k - Len(wire)], mac |-> mac]
  <2>1. k \in 1..(Len(wire) + Len(order)) /\ ~(k <= Len(wire)) /\ k - Len(wire) \in 1..Len(order)
    BY <1>1, <1>3
  <2>2. wire'[k] = fr[k - Len(wire)]
    BY <1>4, <2>1
  <2> QED BY <1>2, <2>1, <2>2
<1>7. \A j, k \in 1..Len(order) : order[j] = order[k] => j = k
  BY <1>1 DEF SetToSeqs
<1>8. \A n \in Waiting : \E k \in 1..Len(order) : order[k] = n
  <2> DEFINE D == 1..Len(order)
  <2>1. IsFiniteSet(D) /\ Cardinality(D) = Len(order)
    BY <1>1, FS_Interval
  <2>2. IsFiniteSet(Waiting)
    <3>1. Waiting \in SUBSET (1..Len(accepted)) /\ Len(accepted) \in Nat
      BY KnownPackets DEF TypeOK
    <3>2. IsFiniteSet(1..Len(accepted))
      BY <3>1, FS_Interval
    <3> QED BY <3>1, <3>2, FS_Subset
  <2>3. order \in Injection(D, Waiting)
    BY <1>1, <1>7 DEF Injection, IsInjective
  <2>4. order \in Surjection(D, Waiting)
    BY <1>1, <2>1, <2>2, <2>3, FS_Injection
  <2> QED BY <2>4 DEF Surjection
<1> QED BY <1>1, <1>3, <1>4, <1>5, <1>6, <1>7, <1>8

(* A flush transmits, for each destination, a packet newer than every one   *)
(* transmitted before, and leaves none waiting.                             *)
LEMMA FlushedKeeps ==
    ASSUME TypeOK, SendInv, NEW order \in SetToSeqs(Waiting), NEW mac, Flushed(order, mac)
    PROVE  SendInv'
<1> DEFINE L == Len(wire)
           M == Len(order)
<1>1. /\ L \in Nat /\ M \in Nat
      /\ DOMAIN wire = 1..L /\ DOMAIN wire' = 1..(L + M)
      /\ \A k \in 1..L : wire'[k] = wire[k]
      /\ \A k \in (L + 1)..(L + M) : wire'[k].id = order[k - L]
      /\ \A k \in 1..M : order[k] \in Waiting
      /\ \A j, k \in 1..M : order[j] = order[k] => j = k
      /\ \A n \in Waiting : \E k \in 1..M : order[k] = n
  <2>1. \A k \in (L + 1)..(L + M) : wire'[k] = [id |-> order[k - L], mac |-> mac]
    BY FlushedFrames
  <2>2. ASSUME NEW k \in (L + 1)..(L + M) PROVE wire'[k].id = order[k - L]
    <3>1. wire'[k] = [id |-> order[k - L], mac |-> mac]
      BY <2>1
    <3> QED BY <3>1
  <2> QED BY <2>2, FlushedFrames
<1>2. accepted' = accepted /\ \A i \in IP : dataWaitToSend'[i] = 0
  BY DEF Flushed
<1>3. Waiting' = {}
  BY <1>2 DEF Waiting
<1> HIDE DEF L, M
<1>4. \A k \in 1..(L + M) : k \in 1..L \/ (k \in (L + 1)..(L + M) /\ k - L \in 1..M)
  BY <1>1
<1>5. ASSUME NEW k \in 1..L
      PROVE  wire'[k].id \in SentIds /\ wire'[k].id \notin Waiting
  <2>1. k \in DOMAIN wire /\ wire'[k] = wire[k]
    BY <1>1
  <2>2. wire'[k].id \in SentIds
    BY <2>1 DEF SentIds
  <2> QED BY <2>2 DEF SendInv, WaitingNotSent
<1>6. \A k \in (L + 1)..(L + M) : wire'[k].id \in Waiting
  BY <1>1, <1>4
<1>7. SentIds \cup Waiting \subseteq SentIds'
  <2>1. ASSUME NEW n \in SentIds PROVE n \in SentIds'
    <3>1. PICK k \in 1..L : wire[k].id = n
      BY <1>1 DEF SentIds
    <3>2. k \in 1..(L + M) /\ wire'[k].id = n
      BY <1>1, <3>1
    <3> QED BY <1>1, <3>2 DEF SentIds
  <2>2. ASSUME NEW n \in Waiting PROVE n \in SentIds'
    <3>1. PICK k \in 1..M : order[k] = n
      BY <1>1, <2>2
    <3>2. k + L \in 1..(L + M) /\ k + L \in (L + 1)..(L + M) /\ (k + L) - L = k
      BY <1>1
    <3>3. wire'[k + L].id = n
      BY <1>1, <3>1, <3>2
    <3> QED BY <1>1, <3>2, <3>3 DEF SentIds
  <2> QED BY <2>1, <2>2
<1>8. WaitingIsNewest' /\ WaitingNotSent'
  BY <1>2, <1>3 DEF WaitingIsNewest, WaitingNotSent
<1>9. SentAtMostOnce'
  <2> SUFFICES ASSUME NEW j \in 1..(L + M), NEW k \in 1..(L + M), wire'[j].id = wire'[k].id
               PROVE  j = k
    BY <1>1 DEF SentAtMostOnce
  <2>1. CASE j \in 1..L /\ k \in 1..L
    BY <1>1, <2>1 DEF SendInv, SentAtMostOnce
  <2>2. CASE j \in (L + 1)..(L + M) /\ k \in (L + 1)..(L + M)
    <3>1. j - L \in 1..M /\ k - L \in 1..M
      BY <1>1, <2>2
    <3>2. order[j - L] = order[k - L]
      BY <1>1, <2>2
    <3>3. j - L = k - L
      BY <1>1, <3>1, <3>2
    <3> QED BY <1>1, <3>3
  <2> QED BY <1>4, <1>5, <1>6, <2>1, <2>2
<1>10. OrderPerDestination'
  <2> SUFFICES ASSUME NEW j \in 1..(L + M), NEW k \in 1..(L + M), j < k,
                      accepted[wire'[j].id] = accepted[wire'[k].id]
               PROVE  wire'[j].id < wire'[k].id
    BY <1>1, <1>2 DEF OrderPerDestination
  <2>1. CASE k \in 1..L
    <3>1. j \in 1..L
      BY <1>1, <2>1
    <3> QED BY <1>1, <2>1, <3>1 DEF SendInv, OrderPerDestination
  <2>2. CASE k \in (L + 1)..(L + M)
    <3>1. PICK i \in IP : dataWaitToSend[i] = wire'[k].id /\ dataWaitToSend[i] # 0
      BY <1>6, <2>2 DEF Waiting
    <3>2. /\ accepted[wire'[k].id] = i
          /\ \A n \in DOMAIN accepted : accepted[n] = i => n <= wire'[k].id
      BY <3>1 DEF SendInv, WaitingIsNewest
    <3>3. CASE j \in 1..L
      <4>1. wire'[j].id \in 1..Len(accepted) /\ Len(accepted) \in Nat
        BY <1>1, <3>3, KnownPackets DEF TypeOK
      <4>2. wire'[j].id <= wire'[k].id
        BY <3>2, <4>1 DEF TypeOK
      <4>3. wire'[j].id # wire'[k].id
        BY <1>5, <1>6, <2>2, <3>3
      <4>4. wire'[k].id \in Nat
        BY <3>1 DEF TypeOK
      <4> QED BY <4>1, <4>2, <4>3, <4>4
    <3>4. CASE j \in (L + 1)..(L + M)
      <4>1. PICK i2 \in IP : dataWaitToSend[i2] = wire'[j].id /\ dataWaitToSend[i2] # 0
        BY <1>6, <3>4 DEF Waiting
      <4>2. accepted[wire'[j].id] = i2
        BY <4>1 DEF SendInv, WaitingIsNewest
      <4>3. wire'[j].id = wire'[k].id
        BY <3>1, <3>2, <4>1, <4>2
      <4>4. j = k
        BY <1>1, <1>9, <4>3 DEF SentAtMostOnce
      <4> QED BY <4>4, <1>1
    <3> QED BY <1>4, <3>3, <3>4
  <2> QED BY <1>4, <2>1, <2>2
<1>11. NewestPacketKept'
  <2>1. \A n \in DOMAIN accepted :
          (\A k \in DOMAIN accepted : accepted[k] = accepted[n] => k <= n)
            => n \in SentIds'
    BY <1>7 DEF SendInv, NewestPacketKept
  <2> QED BY <1>2, <2>1 DEF NewestPacketKept
<1> QED BY <1>8, <1>9, <1>10, <1>11 DEF SendInv

LEMMA NextSend ==
    ASSUME TypeOK, NothingStranded, SendInv, [Next]_vars
    PROVE  SendInv'
<1>1. CASE \E ip \in IP : Left(ip)
  BY <1>1, LeftKeeps
<1>2. CASE \E d \in IP \cup {Everyone} : \E mac \in MAC \cup {BroadcastMAC} : Straight(d, mac)
  BY <1>2, StraightKeeps
<1>3. CASE \E order \in SetToSeqs(Waiting) : Flushed(order, GetRouterMac(ipToMacTable'))
  BY <1>3, FlushedKeeps
<1>4. CASE Untouched
  BY <1>4 DEF Untouched, SendInv, WaitingIsNewest, WaitingNotSent, SentIds, Waiting,
              SentAtMostOnce, NewestPacketKept, OrderPerDestination
<1> QED BY <1>1, <1>2, <1>3, <1>4, NextEffect

LEMMA AlwaysSendInv == Spec => []SendInv
<1>1. Init => SendInv
  BY InitSend
<1>2. TypeOK /\ NothingStranded /\ SendInv /\ [Next]_vars => SendInv'
  BY NextSend
<1> QED BY <1>1, <1>2, TypeCorrect, NeverStranded, PTL DEF Spec

(* No packet is transmitted twice, however replies are repeated or late:    *)
(* sendWaitingData clears the table it has sent, and nothing is put there   *)
(* once sendData can send.                                                  *)
THEOREM NeverSentTwice == Spec => []SentAtMostOnce
<1>1. SendInv => SentAtMostOnce
  BY DEF SendInv
<1> QED BY <1>1, AlwaysSendInv, PTL

(* The last packet handed over for a destination is never lost: it has been *)
(* transmitted or is in dataWaitToSend.                                     *)
THEOREM NewestNeverLost == Spec => []NewestPacketKept
<1>1. SendInv => NewestPacketKept
  BY DEF SendInv
<1> QED BY <1>1, AlwaysSendInv, PTL

(* For each destination, packets leave in the order in which they were      *)
(* handed over, whatever order the hash table is walked in.                 *)
THEOREM InOrder == Spec => []OrderPerDestination
<1>1. SendInv => OrderPerDestination
  BY DEF SendInv
<1> QED BY <1>1, AlwaysSendInv, PTL

-----------------------------------------------------------------------------
(* To whom.                                                                 *)

LEMMA InitRouter == Init => RouterInv
<1> SUFFICES ASSUME Init PROVE RouterInv
  OBVIOUS
<1>1. DOMAIN capture = {} /\ DOMAIN wire = {} /\ GetRouterMac(ipToMacTable) = NoMac
  BY RouterAssumption DEF Init, GetRouterMac
<1> QED BY <1>1 DEF RouterInv, CapturedIsTrue, RouterIsTrue, OnlyToRouter

(* What is captured after a step was captured before it, or tells the truth *)
(* about the router.                                                        *)
LEMMA NextCaptured ==
    ASSUME TypeOK, CapturedIsTrue, [Next]_vars
    PROVE  CapturedIsTrue'
<1> DEFINE True(f) == f.type = "ARP" /\ f.ip = RouterIP => f.mac \in RouterMACs
<1>1. capture \in Seq(Frame) /\ \A k \in DOMAIN capture : True(capture[k])
  BY DEF TypeOK, CapturedIsTrue
<1>2. CASE UNCHANGED capture
  BY <1>2 DEF CapturedIsTrue
<1>3. CASE capture # <<>> /\ capture' = Tail(capture)
  <2>1. \A k \in DOMAIN capture' : k + 1 \in DOMAIN capture /\ capture'[k] = capture[k + 1]
    BY <1>1, <1>3
  <2> QED BY <2>1 DEF CapturedIsTrue
<1>4. ASSUME NEW f \in Frame, True(f), capture' = Append(capture, f)
      PROVE  CapturedIsTrue'
  <2>1. \A k \in DOMAIN capture' :
          \/ k \in DOMAIN capture /\ capture'[k] = capture[k]
          \/ capture'[k] = f
    BY <1>1, <1>4
  <2> QED BY <1>4, <2>1 DEF CapturedIsTrue
<1>5. CASE ReplyArrives
  <2>1. PICK m \in replies : capture' = Append(capture, RouterReply(m))
    BY <1>5 DEF ReplyArrives
  <2>2. RouterReply(m) \in Frame /\ True(RouterReply(m))
    BY RouterAssumption DEF TypeOK, RouterReply, Frame, ARPFrame, MAC
  <2> QED BY <1>4, <2>1, <2>2
<1>6. CASE HostSends
  <2>1. PICK f \in HostFrame : capture' = Append(capture, f)
    BY <1>6 DEF HostSends
  <2>2. f \in Frame
    BY DEF HostFrame, Frame
  <2>3. True(f)
    BY DEF HostFrame, IPFrame
  <2> QED BY <1>4, <2>1, <2>2, <2>3
<1>7. \/ UNCHANGED capture
      \/ capture # <<>> /\ capture' = Tail(capture)
      \/ ReplyArrives
      \/ HostSends
  BY DEF Next, AppStart, EnterLoop, Receive, ReceiveARP, ReceiveIP, Environment,
         RouterAnswers, NetworkLoses, RouterChanges, vars
<1> QED BY <1>2, <1>3, <1>5, <1>6, <1>7

(* Only an ARP message changes the table, and only the router's own changes *)
(* the router's entry.                                                      *)
LEMMA NextRouterIsTrue ==
    ASSUME TypeOK, CapturedIsTrue, RouterIsTrue, [Next]_vars
    PROVE  RouterIsTrue'
<1>1. CASE UNCHANGED ipToMacTable
  BY <1>1 DEF RouterIsTrue, GetRouterMac
<1>2. CASE ReceiveARP
  <2> DEFINE f == Head(capture)
  <2>1. f \in Frame /\ f.type = "ARP" /\ 1 \in DOMAIN capture /\ f = capture[1]
    BY <1>2 DEF TypeOK, ReceiveARP
  <2>2. f.ip = RouterIP => f.mac \in RouterMACs
    BY <2>1 DEF CapturedIsTrue
  <2>3. f.ip \in IP
    BY <2>1 DEF Frame, ARPFrame, IPFrame
  <2>4. \/ ipToMacTable' = [ipToMacTable EXCEPT ![f.ip] = f.mac]
        \/ UNCHANGED ipToMacTable
    BY <1>2 DEF ReceiveARP
  <2> QED BY <2>2, <2>3, <2>4, RouterAssumption DEF TypeOK, RouterIsTrue, GetRouterMac
<1>3. ReceiveARP \/ UNCHANGED ipToMacTable
  BY DEF Next, AppStart, AppSends, EnterLoop, Receive, ReceiveIP, Environment, RouterAnswers,
         ReplyArrives, NetworkLoses, RouterChanges, HostSends, vars, table
<1> QED BY <1>1, <1>2, <1>3

(* Whom the frame of a packet for d may go to.                              *)
Right(d, mac) == IF d = Everyone THEN mac = BroadcastMAC ELSE mac \in RouterMACs

LEMMA NextOnlyToRouter ==
    ASSUME TypeOK, NothingStranded, SendInv, RouterIsTrue, RouterIsTrue', OnlyToRouter, [Next]_vars
    PROVE  OnlyToRouter'
<1>1. \A k \in 1..Len(wire) : Right(accepted[wire[k].id], wire[k].mac)
  BY KnownPackets DEF OnlyToRouter, Right
<1>2. CASE Untouched
  BY <1>2 DEF Untouched, OnlyToRouter
<1>3. ASSUME NEW ip \in IP, Left(ip)
      PROVE  OnlyToRouter'
  <2>1. \A k \in DOMAIN wire : accepted'[wire[k].id] = accepted[wire[k].id]
    BY <1>3, KnownPackets, AcceptedGrows DEF Left
  <2> QED BY <1>3, <2>1 DEF Left, OnlyToRouter
<1>4. ASSUME NEW d \in IP \cup {Everyone}, NEW mac \in MAC \cup {BroadcastMAC}, Straight(d, mac)
      PROVE  OnlyToRouter'
  <2> DEFINE fr == [id |-> Len(accepted) + 1, mac |-> mac]
  <2>1. Right(d, mac)
    BY <1>4, AddressAssumption DEF Straight, Right, RouterIsTrue
  <2>2. /\ accepted'[Len(accepted) + 1] = d
        /\ \A n \in 1..Len(accepted) : accepted'[n] = accepted[n]
    BY <1>4, AcceptedGrows DEF Straight
  <2>3. wire' = Append(wire, fr)
    BY <1>4 DEF Straight
  <2>4. \A k \in DOMAIN wire' : \/ k \in 1..Len(wire) /\ wire'[k] = wire[k]
                               \/ wire'[k] = fr
    BY <2>3 DEF TypeOK
  <2>5. ASSUME NEW k \in DOMAIN wire'
        PROVE  Right(accepted'[wire'[k].id], wire'[k].mac)
    <3>1. CASE wire'[k] = fr
      BY <2>1, <2>2, <3>1
    <3>2. CASE k \in 1..Len(wire) /\ wire'[k] = wire[k]
      <4>1. wire[k].id \in 1..Len(accepted)
        BY <3>2, KnownPackets
      <4> QED BY <1>1, <2>2, <3>2, <4>1
    <3> QED BY <2>4, <3>1, <3>2
  <2> QED BY <2>5 DEF OnlyToRouter, Right
<1>5. ASSUME NEW order \in SetToSeqs(Waiting), NEW mac, Flushed(order, mac)
      PROVE  OnlyToRouter'
  <2> DEFINE L == Len(wire)
             M == Len(order)
  <2>1. mac \in RouterMACs
    BY <1>5 DEF Flushed, RouterIsTrue
  <2>2. accepted' = accepted
    BY <1>5 DEF Flushed
  <2>3. /\ L \in Nat /\ M \in Nat
        /\ DOMAIN wire' = 1..(L + M)
        /\ \A k \in 1..L : wire'[k] = wire[k]
        /\ \A k \in 1..M : order[k] \in Waiting
    BY <1>5, FlushedFrames
  <2>4. \A k \in (L + 1)..(L + M) : wire'[k] = [id |-> order[k - L], mac |-> mac]
    BY <1>5, FlushedFrames
  <2> HIDE DEF L, M
  <2>5. ASSUME NEW k \in 1..(L + M)
        PROVE  Right(accepted[wire'[k].id], wire'[k].mac)
    <3>1. CASE k \in 1..L
      BY <1>1, <2>3, <3>1 DEF L
    <3>2. CASE k \in (L + 1)..(L + M)
      <4>1. wire'[k] = [id |-> order[k - L], mac |-> mac]
        BY <2>4, <3>2
      <4>2. order[k - L] \in Waiting
        <5>1. k - L \in 1..M
          BY <2>3, <3>2
        <5> QED BY <2>3, <5>1
      <4>3. PICK i \in IP : dataWaitToSend[i] = order[k - L] /\ dataWaitToSend[i] # 0
        BY <4>2 DEF Waiting
      <4>4. accepted[order[k - L]] = i /\ i # Everyone
        BY <4>3, AddressAssumption DEF SendInv, WaitingIsNewest
      <4>5. wire'[k].id = order[k - L] /\ wire'[k].mac = mac
        BY <4>1
      <4> QED BY <2>1, <4>4, <4>5 DEF Right
    <3> QED BY <2>3, <3>1, <3>2
  <2> QED BY <2>2, <2>3, <2>5 DEF OnlyToRouter, Right
<1> QED BY <1>2, <1>3, <1>4, <1>5, NextEffect

(* Packets for a host go to a link address of the router and to no other,   *)
(* packets given to broadCast to everyone: receivePacket stores under the   *)
(* address a reply claims, and only the router answers in its own name.     *)
THEOREM OnlyRouterAddressed == Spec => []OnlyToRouter
<1>1. Init => RouterInv
  BY InitRouter
<1>2. TypeOK /\ NothingStranded /\ SendInv /\ RouterInv /\ [Next]_vars => RouterInv'
  <2> SUFFICES ASSUME TypeOK, NothingStranded, SendInv, RouterInv, [Next]_vars PROVE RouterInv'
    OBVIOUS
  <2>1. CapturedIsTrue'
    BY NextCaptured DEF RouterInv
  <2>2. RouterIsTrue'
    BY NextRouterIsTrue DEF RouterInv
  <2>3. OnlyToRouter'
    BY <2>2, NextOnlyToRouter DEF RouterInv
  <2> QED BY <2>1, <2>2, <2>3 DEF RouterInv
<1>3. RouterInv => OnlyToRouter
  BY DEF RouterInv
<1> QED BY <1>1, <1>2, <1>3, TypeCorrect, NeverStranded, AlwaysSendInv, PTL DEF Spec
=============================================================================
