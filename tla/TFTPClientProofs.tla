-------------------------- MODULE TFTPClientProofs ---------------------------
(* Theorems about TFTPClient, for files of any length, any ports, and any   *)
(* number of faults of the network and of strays.                           *)
EXTENDS TFTPClient, SequenceTheorems, TLAPS

(* A block on its way was sent by a session that had come that far.         *)
DataIsSent ==
    \A m \in toClient : m.kind = "DATA" =>
      m.port \in Ports /\ m.block \in Block /\ m.block <= session[m.port]

(* An acknowledgement on its way is one of a block the file holds, and goes *)
(* to a session that has sent it.                                           *)
AckIsDue ==
    \A m \in toServer : m = RRQ \/
      /\ m.kind = "ACK" /\ m.port \in Ports /\ m.block \in Block
      /\ m.block <= session[m.port] /\ m.block \in Written

(* Before getFile nothing has been asked for.                               *)
NotStarted == stream = "none" => toServer = {} /\ \A p \in Ports : session[p] = 0

IInv ==
    /\ TypeOK
    /\ DataIsSent
    /\ AckIsDue
    /\ NotStarted
    /\ AckedIsWritten
    /\ NoBlockSkipped
    /\ ClosedIsComplete

-----------------------------------------------------------------------------
(* While the network has done nothing wrong.                                *)

(* No session has been opened: not asked for yet, on its way, or refused.   *)
Idle ==
    /\ \A p \in Ports : session[p] = 0
    /\ file = <<>>
    /\ toServer \subseteq {RRQ}

(* The session on p is the only one.  Its present block or the              *)
(* acknowledgement of it is on its way, never both and nothing else; the    *)
(* file holds the block once it is acknowledged.                            *)
Exchange(p) ==
    /\ session[p] # 0
    /\ \A q \in Ports \ {p} : session[q] = 0
    /\ \A m \in toClient : m.kind = "DATA" => m = DATA(session[p], p)
    /\ toServer \subseteq {ACK(session[p], p)}
    /\ toServer # {} => \A m \in toClient : m.kind # "DATA"
    /\ stream = "null" => toServer = {}
    /\ stream # "null" => Len(file) = IF toServer = {} THEN session[p] - 1 ELSE session[p]

OneExchange ==
    /\ \A k \in DOMAIN file : file[k] = k
    /\ stream = "closed" <=> Len(file) = N
    /\ stream = "null" => file = <<>>
    /\ Idle \/ \E p \in Ports : Exchange(p)

CleanInv == faults = MaxFaults => OneExchange

-----------------------------------------------------------------------------
(* Lemmas about messages and the file.                                      *)

LEMMA MessageTypes ==
    ASSUME NEW b \in Block, NEW p \in Ports
    PROVE  /\ RRQ \in Message /\ Stray \in Message /\ ERROR(p) \in Message
           /\ ACK(b, p) \in Message /\ DATA(b, p) \in Message
BY TFTPAssumption DEF Message, Block, RRQ, Stray, ERROR, ACK, DATA, ServerPort

(* What is taken from a network leaves nothing new in it.                   *)
LEMMA TakeShrinks ==
    ASSUME TypeOK, NEW net, NEW net2, NEW m \in net, Take(net, net2, m)
    PROVE  /\ net2 \subseteq net
           /\ net \ {m} \subseteq net2
           /\ faults' \in 0..MaxFaults
           /\ faults' = MaxFaults => faults = MaxFaults /\ net2 = net \ {m}
BY TFTPAssumption DEF TypeOK, Take

LEMMA FileGrows ==
    ASSUME TypeOK, NEW b \in Block, file' = Append(file, b)
    PROVE  /\ file' \in Seq(Block)
           /\ Len(file) \in Nat /\ Len(file') = Len(file) + 1
           /\ DOMAIN file = 1..Len(file) /\ DOMAIN file' = 1..(Len(file) + 1)
           /\ \A k \in 1..Len(file) : file'[k] = file[k]
           /\ file'[Len(file) + 1] = b
           /\ Written' = Written \cup {b}
<1>1. /\ file' \in Seq(Block)
      /\ Len(file) \in Nat /\ Len(file') = Len(file) + 1
      /\ DOMAIN file = 1..Len(file) /\ DOMAIN file' = 1..(Len(file) + 1)
      /\ \A k \in 1..Len(file) : file'[k] = file[k]
      /\ file'[Len(file) + 1] = b
  BY DEF TypeOK
<1>2. \A k \in 1..(Len(file) + 1) : k \in 1..Len(file) \/ k = Len(file) + 1
  BY <1>1
<1>3. Written' \subseteq Written \cup {b}
  BY <1>1, <1>2 DEF Written
<1>4. Written \subseteq Written' /\ b \in Written'
  <2>1. \A k \in 1..Len(file) : k \in 1..(Len(file) + 1)
    BY <1>1
  <2>2. Len(file) + 1 \in 1..(Len(file) + 1)
    BY <1>1
  <2> QED BY <1>1, <2>1, <2>2 DEF Written
<1> QED BY <1>1, <1>3, <1>4

-----------------------------------------------------------------------------
(* Each step keeps IInv.                                                    *)

LEMMA InitIInv == Init => IInv
<1> SUFFICES ASSUME Init PROVE IInv
  OBVIOUS
<1>1. TypeOK
  BY TFTPAssumption DEF Init, TypeOK
<1>2. AckedIsWritten
  BY DEF Init, AckedIsWritten, Block
<1>3. DOMAIN file = {}
  BY DEF Init
<1> QED BY <1>1, <1>2, <1>3
        DEF Init, IInv, DataIsSent, AckIsDue, NotStarted, NoBlockSkipped, ClosedIsComplete

LEMMA GetFileStep == ASSUME IInv, GetFile PROVE IInv'
<1> USE DEF IInv, GetFile
<1>1. TypeOK'
  <2>1. RRQ \in Message
    BY TFTPAssumption DEF RRQ, Message, ServerPort
  <2> QED BY <2>1 DEF TypeOK
<1>2. DataIsSent' /\ NotStarted'
  BY DEF DataIsSent, NotStarted
<1>3. AckIsDue'
  BY DEF AckIsDue, Written
<1>4. AckedIsWritten' /\ NoBlockSkipped' /\ ClosedIsComplete'
  BY DEF AckedIsWritten, NoBlockSkipped, ClosedIsComplete, Written
<1> QED BY <1>1, <1>2, <1>3, <1>4

(* A block the client takes from the network, once a file has been asked    *)
(* for: those before it have been written, so it may be written now, and it *)
(* is the last block the file is complete with.                             *)
LEMMA DataStep ==
    ASSUME IInv, NEW m \in toClient, m.kind = "DATA",
           HandleDataPacket(m), server_port' = m.port,
           toClient' \subseteq toClient, faults' \in 0..MaxFaults,
           UNCHANGED <<session, strays>>
    PROVE  IInv'
<1>1. m.port \in Ports /\ m.block \in Block /\ m.block <= session[m.port]
  BY DEF IInv, DataIsSent
<1>2. stream # "none"
  <2>1. session[m.port] # 0
    BY <1>1, TFTPAssumption DEF Block, IInv, TypeOK
  <2> QED BY <1>1, <2>1 DEF IInv, NotStarted
<1>3. DataIsSent'
  BY DEF IInv, DataIsSent
<1>4. \A b \in Block : b < m.block => b \in Written
  <2> SUFFICES ASSUME NEW b \in Block, b < m.block PROVE b < session[m.port]
    BY <1>1 DEF IInv, AckedIsWritten
  <2> QED BY <1>1, TFTPAssumption DEF IInv, TypeOK, Block
<1>5. CASE stream = "null"
  <2>1. UNCHANGED <<stream, file, toServer>> /\ data_block' = m.block
    BY <1>5 DEF HandleDataPacket
  <2>2. TypeOK'
    BY <1>1, <2>1 DEF IInv, TypeOK, Block
  <2> QED BY <1>3, <2>1, <2>2 DEF IInv, AckIsDue, NotStarted, AckedIsWritten, NoBlockSkipped,
                                  ClosedIsComplete, Written
<1>6. CASE stream # "null"
  <2>1. /\ file' = IF stream = "open" THEN Append(file, m.block) ELSE file
        /\ toServer' = toServer \cup {ACK(m.block, m.port)}
        /\ \/ m.block < N /\ data_block' = m.block + 1 /\ UNCHANGED stream
           \/ m.block = N /\ data_block' = 1 /\ stream' = "closed"
    BY <1>6 DEF HandleDataPacket, SendACKPacket
  <2>2. file' \in Seq(Block) /\ Written' = Written \cup {m.block} /\ NoBlockSkipped'
    <3>1. CASE stream = "open"
      <4> DEFINE n == Len(file) + 1
      <4>1. /\ file' \in Seq(Block) /\ Written' = Written \cup {m.block}
            /\ Len(file) \in Nat /\ DOMAIN file = 1..Len(file) /\ DOMAIN file' = 1..n
            /\ file'[n] = m.block /\ \A k \in 1..Len(file) : file'[k] = file[k]
        BY <1>1, <2>1, <3>1, FileGrows DEF IInv
      <4>2. ASSUME NEW k \in 1..n, NEW b \in 1..(file'[k] - 1)
            PROVE  \E j \in 1..(k - 1) : file'[j] = b
        <5>1. CASE k = n
          <6>1. b \in Block /\ b < m.block
            BY <1>1, <4>1, <5>1, TFTPAssumption DEF Block
          <6>2. PICK j \in 1..Len(file) : file[j] = b
            BY <1>4, <4>1, <6>1 DEF Written
          <6> QED BY <4>1, <5>1, <6>2
        <5>2. CASE k # n
          <6>1. k \in 1..Len(file) /\ file'[k] = file[k]
            BY <4>1, <5>2
          <6>2. PICK j \in 1..(k - 1) : file[j] = b
            BY <4>1, <6>1 DEF IInv, NoBlockSkipped
          <6> QED BY <4>1, <6>1, <6>2
        <5> QED BY <5>1, <5>2
      <4> QED BY <4>1, <4>2 DEF NoBlockSkipped
    <3>2. CASE stream # "open"
      <4>1. stream = "closed" /\ file' = file
        BY <1>2, <1>6, <2>1, <3>2 DEF IInv, TypeOK
      <4>2. m.block \in Written
        BY <1>1, <4>1 DEF IInv, ClosedIsComplete
      <4> QED BY <4>1, <4>2 DEF IInv, TypeOK, Written, NoBlockSkipped
    <3> QED BY <3>1, <3>2
  <2>3. TypeOK'
    <3>1. ACK(m.block, m.port) \in Message
      BY <1>1, MessageTypes
    <3>2. data_block' \in Nat
      BY <1>1, <2>1 DEF Block
    <3> QED BY <1>1, <2>1, <2>2, <3>1, <3>2 DEF IInv, TypeOK
  <2>4. AckIsDue'
    BY <1>1, <2>1, <2>2 DEF IInv, AckIsDue, ACK
  <2>5. NotStarted' /\ AckedIsWritten'
    BY <1>2, <2>1, <2>2 DEF IInv, NotStarted, AckedIsWritten
  <2>6. ClosedIsComplete'
    <3>1. Written' \subseteq Block
      BY <2>2 DEF Written
    <3>2. CASE m.block = N
      <4>1. \A b \in Block : b < m.block \/ b = m.block
        BY <3>2, TFTPAssumption DEF Block
      <4> QED BY <1>4, <2>2, <3>1, <4>1 DEF ClosedIsComplete
    <3>3. CASE m.block # N
      BY <2>1, <2>2, <3>1, <3>3 DEF IInv, ClosedIsComplete
    <3> QED BY <3>2, <3>3
  <2> QED BY <1>3, <2>2, <2>3, <2>4, <2>5, <2>6 DEF IInv
<1> QED BY <1>5, <1>6

(* A step that neither the file nor the sessions see, and that adds nothing *)
(* but packets that are no data and takes what it likes away.               *)
LEMMA QuietStep ==
    ASSUME IInv, UNCHANGED <<stream, file, session>>,
           data_block' \in Nat, server_port' \in Ports \cup {ServerPort, StrayPort},
           toServer' \subseteq toServer,
           toClient' \subseteq Message,
           \A m \in toClient' \ toClient : m.kind # "DATA",
           faults' \in 0..MaxFaults, strays' \in 0..MaxStrays
    PROVE  IInv'
<1>1. TypeOK'
  BY DEF IInv, TypeOK
<1>2. DataIsSent' /\ AckIsDue' /\ NotStarted'
  BY DEF IInv, DataIsSent, AckIsDue, NotStarted, Written
<1>3. AckedIsWritten' /\ NoBlockSkipped' /\ ClosedIsComplete'
  BY DEF IInv, AckedIsWritten, NoBlockSkipped, ClosedIsComplete, Written
<1> QED BY <1>1, <1>2, <1>3 DEF IInv

LEMMA ReceiveStep == ASSUME IInv, ClientReceives PROVE IInv'
<1>1. PICK m \in toClient :
        /\ Take(toClient, toClient', m)
        /\ UNCHANGED <<session, strays>>
        /\ HandleData(m) \/ UNCHANGED <<client, toServer>>
  BY DEF ClientReceives
<1>2. toClient' \subseteq toClient /\ faults' \in 0..MaxFaults
  BY <1>1, TakeShrinks DEF IInv
<1>3. CASE HandleData(m) /\ m.kind = "DATA"
  BY <1>1, <1>2, <1>3, DataStep DEF HandleData
<1>4. CASE HandleData(m) /\ m.kind # "DATA"
  <2>1. m.port \in Ports \cup {ServerPort, StrayPort}
    BY DEF IInv, TypeOK, Message
  <2>2. UNCHANGED <<stream, file, data_block, toServer>> /\ server_port' = m.port
    BY <1>4 DEF HandleData
  <2> QED BY <1>1, <1>2, <2>1, <2>2, QuietStep DEF IInv, TypeOK
<1>5. CASE UNCHANGED <<client, toServer>>
  BY <1>1, <1>2, <1>5, QuietStep DEF IInv, TypeOK, client
<1> QED BY <1>1, <1>3, <1>4, <1>5

(* A session that goes on to a block it may send, or to the end, once the   *)
(* block before it has been written.                                        *)
LEMMA SessionStep ==
    ASSUME IInv, NEW p \in Ports, stream # "none",
           session' = [session EXCEPT ![p] = session[p] + 1],
           session[p] \in Block => session[p] \in Written,
           session[p] <= N,
           toClient' \subseteq toClient \cup {DATA(session[p] + 1, p)},
           DATA(session[p] + 1, p) \in toClient' \ toClient => session[p] + 1 \in Block,
           toServer' \subseteq toServer, faults' \in 0..MaxFaults,
           UNCHANGED <<client, strays>>
    PROVE  IInv'
<1> DEFINE d == DATA(session[p] + 1, p)
<1>1. /\ session \in [Ports -> 0..(N + 1)]
      /\ session'[p] = session[p] + 1 /\ session[p] \in 0..N
      /\ \A q \in Ports : session[q] <= session'[q] /\ (q # p => session'[q] = session[q])
  BY TFTPAssumption DEF IInv, TypeOK
<1>2. session' \in [Ports -> 0..(N + 1)]
  BY <1>1, TFTPAssumption
<1>3. toClient' \subseteq Message
  BY MessageTypes DEF IInv, TypeOK
<1>4. TypeOK'
  BY <1>2, <1>3 DEF IInv, TypeOK, client
<1>5. DataIsSent'
  <2> SUFFICES ASSUME NEW m \in toClient', m.kind = "DATA"
               PROVE  m.port \in Ports /\ m.block \in Block /\ m.block <= session'[m.port]
    BY DEF DataIsSent
  <2>1. CASE m \in toClient
    <3>1. m.port \in Ports /\ m.block \in Block /\ m.block <= session[m.port]
      BY <2>1 DEF IInv, DataIsSent
    <3>2. session[m.port] <= session'[m.port] /\ session[m.port] \in Nat /\ session'[m.port] \in Nat
      BY <1>1, <1>2, <3>1
    <3> QED BY <3>1, <3>2 DEF Block
  <2>2. CASE m \notin toClient
    <3>1. m = d /\ session[p] + 1 \in Block
      BY <2>2
    <3> QED BY <1>1, <3>1 DEF DATA
  <2> QED BY <2>1, <2>2
<1>6. AckIsDue'
  <2> SUFFICES ASSUME NEW m \in toServer, m # RRQ
               PROVE  /\ m.kind = "ACK" /\ m.port \in Ports /\ m.block \in Block
                      /\ m.block <= session'[m.port] /\ m.block \in Written
    BY DEF AckIsDue, Written, client
  <2>1. /\ m.kind = "ACK" /\ m.port \in Ports /\ m.block \in Block
        /\ m.block <= session[m.port] /\ m.block \in Written
    BY DEF IInv, AckIsDue
  <2>2. session[m.port] <= session'[m.port] /\ session[m.port] \in Nat /\ session'[m.port] \in Nat
    BY <1>1, <1>2, <2>1
  <2> QED BY <2>1, <2>2 DEF Block
<1>7. AckedIsWritten'
  <2> SUFFICES ASSUME NEW q \in Ports, NEW b \in Block, b < session'[q]
               PROVE  b \in Written
    BY DEF AckedIsWritten, Written, client
  <2>1. CASE b < session[q]
    BY <2>1 DEF IInv, AckedIsWritten
  <2>2. CASE ~(b < session[q])
    <3>1. q = p /\ b = session[p]
      BY <1>1, <2>2 DEF Block
    <3> QED BY <3>1
  <2> QED BY <2>1, <2>2
<1> QED BY <1>4, <1>5, <1>6, <1>7
        DEF IInv, NotStarted, NoBlockSkipped, ClosedIsComplete, Written, client

LEMMA RequestStep == ASSUME IInv, ServerTakesRequest PROVE IInv'
<1>1. stream # "none"
  BY DEF IInv, NotStarted, ServerTakesRequest
<1>2. toServer' \subseteq toServer /\ faults' \in 0..MaxFaults
  BY TakeShrinks DEF ServerTakesRequest, IInv
<1>3. PICK p \in Ports :
        /\ session[p] = 0
        /\ \/ /\ session' = [session EXCEPT ![p] = 1]
              /\ toClient' = toClient \cup {DATA(1, p)}
           \/ /\ toClient' = toClient \cup {ERROR(p)}
              /\ UNCHANGED session
  BY DEF ServerTakesRequest
<1>4. 1 \in Block /\ 0 <= N
  BY TFTPAssumption DEF Block
<1>5. UNCHANGED <<client, strays>>
  BY DEF ServerTakesRequest
<1>6. CASE session' = [session EXCEPT ![p] = 1] /\ toClient' = toClient \cup {DATA(1, p)}
  <2>1. session[p] + 1 = 1 /\ session[p] <= N /\ session[p] \notin Block
    BY <1>3, <1>4 DEF Block
  <2> QED BY <1>1, <1>2, <1>4, <1>5, <1>6, <2>1, SessionStep
<1>7. CASE toClient' = toClient \cup {ERROR(p)} /\ UNCHANGED session
  <2>1. ERROR(p) \in Message
    BY <1>4, MessageTypes
  <2> QED BY <1>2, <1>5, <1>7, <2>1, QuietStep DEF IInv, TypeOK, client, ERROR
<1> QED BY <1>3, <1>6, <1>7

LEMMA ACKStep == ASSUME IInv, ServerTakesACK PROVE IInv'
<1>1. PICK m \in toServer :
        /\ m.kind = "ACK"
        /\ Take(toServer, toServer', m)
        /\ IF m.port \in Ports /\ session[m.port] = m.block
           THEN /\ session' = [session EXCEPT ![m.port] = m.block + 1]
                /\ toClient' = IF m.block = N THEN toClient
                               ELSE toClient \cup {DATA(m.block + 1, m.port)}
           ELSE UNCHANGED <<session, toClient>>
        /\ UNCHANGED <<client, strays>>
  BY DEF ServerTakesACK
<1>2. toServer' \subseteq toServer /\ faults' \in 0..MaxFaults
  BY <1>1, TakeShrinks DEF IInv
<1>3. stream # "none"
  BY <1>1 DEF IInv, NotStarted
<1>4. m.block \in Block /\ m.block \in Written
  BY <1>1 DEF IInv, AckIsDue, RRQ
<1>5. CASE m.port \in Ports /\ session[m.port] = m.block
  <2>1. m.block <= N /\ (m.block # N => m.block + 1 \in Block)
    BY <1>4, TFTPAssumption DEF Block
  <2>2. /\ session' = [session EXCEPT ![m.port] = session[m.port] + 1]
        /\ toClient' \subseteq toClient \cup {DATA(session[m.port] + 1, m.port)}
        /\ toClient' # toClient => session[m.port] + 1 \in Block
    BY <1>1, <1>5, <2>1
  <2> QED BY <1>1, <1>2, <1>3, <1>4, <1>5, <2>1, <2>2, SessionStep
<1>6. CASE ~(m.port \in Ports /\ session[m.port] = m.block)
  BY <1>1, <1>2, <1>6, QuietStep DEF IInv, TypeOK, client
<1> QED BY <1>5, <1>6

LEMMA TimeOutStep == ASSUME IInv, NEW p \in Ports, ServerTimesOut(p) PROVE IInv'
<1>1. session[p] \in Block /\ UNCHANGED <<client, session, toServer, strays>>
  BY DEF ServerTimesOut
<1>2. faults' \in 0..MaxFaults
  BY TFTPAssumption DEF ServerTimesOut, IInv, TypeOK
<1>3. toClient' = toClient \cup {DATA(session[p], p)}
  BY DEF ServerTimesOut
<1>4. TypeOK'
  BY <1>1, <1>2, <1>3, MessageTypes DEF IInv, TypeOK, client
<1>5. DataIsSent'
  BY <1>1, <1>3 DEF IInv, DataIsSent, DATA, Block
<1> QED BY <1>1, <1>4, <1>5 DEF IInv, AckIsDue, NotStarted, AckedIsWritten, NoBlockSkipped,
                                ClosedIsComplete, Written, client

LEMMA NetworkStep == ASSUME IInv, Lose \/ StrayPacket PROVE IInv'
<1>1. Stray \in Message /\ Stray.kind # "DATA"
  BY TFTPAssumption DEF Stray, Message
<1>2. CASE Lose
  <2>1. /\ toServer' \subseteq toServer /\ toClient' \subseteq toClient
        /\ faults' \in 0..MaxFaults /\ UNCHANGED <<client, session, strays>>
    BY <1>2, TFTPAssumption DEF Lose, IInv, TypeOK
  <2> QED BY <2>1, QuietStep DEF IInv, TypeOK, client
<1>3. CASE StrayPacket
  <2>1. /\ toClient' = toClient \cup {Stray} /\ strays' \in 0..MaxStrays
        /\ UNCHANGED <<client, session, toServer, faults>>
    BY <1>3, TFTPAssumption DEF StrayPacket, IInv, TypeOK
  <2> QED BY <1>1, <2>1, QuietStep DEF IInv, TypeOK, client
<1> QED BY <1>2, <1>3

LEMMA NextIInv == IInv /\ [Next]_vars => IInv'
<1> SUFFICES ASSUME IInv, [Next]_vars PROVE IInv'
  OBVIOUS
<1>1. CASE UNCHANGED vars
  BY <1>1 DEF vars, client, IInv, TypeOK, DataIsSent, AckIsDue, NotStarted, AckedIsWritten,
              NoBlockSkipped, ClosedIsComplete, Written
<1> QED BY <1>1, GetFileStep, ReceiveStep, RequestStep, ACKStep, TimeOutStep, NetworkStep
        DEF Next, Server

LEMMA AlwaysIInv == Spec => []IInv
BY InitIInv, NextIInv, PTL DEF Spec

(* Every variable keeps its type: what travels is a request, a block of the *)
(* file, an acknowledgement or an error, on ports that there are.           *)
THEOREM TypeCorrect == Spec => []TypeOK
<1>1. IInv => TypeOK
  BY DEF IInv
<1> QED BY <1>1, AlwaysIInv, PTL

(* A block the server holds for delivered has been written: handleDataPacket *)
(* acknowledges after the write, and what fails to be written and is        *)
(* acknowledged all the same belongs to a file that is complete.            *)
THEOREM AcknowledgedIsWritten == Spec => []AckedIsWritten
<1>1. IInv => AckedIsWritten
  BY DEF IInv
<1> QED BY <1>1, AlwaysIInv, PTL

(* No block is skipped, although handleDataPacket writes what comes and     *)
(* never looks at its number: the first copy of a block is preceded by all  *)
(* the blocks before it.                                                    *)
THEOREM NeverSkips == Spec => []NoBlockSkipped
<1>1. IInv => NoBlockSkipped
  BY DEF IInv
<1> QED BY <1>1, AlwaysIInv, PTL

(* The short block that makes handleDataPacket close the file never comes   *)
(* before all the others have been written.                                 *)
THEOREM ClosedWhenComplete == Spec => []ClosedIsComplete
<1>1. IInv => ClosedIsComplete
  BY DEF IInv
<1> QED BY <1>1, AlwaysIInv, PTL

(* Each acknowledgement goes to the session that sent the block, because    *)
(* handleData takes the port from the packet before it looks at the rest.   *)
THEOREM AcknowledgesSender == Spec => []AckGoesToSender
<1>1. IInv => AckGoesToSender
  BY DEF IInv, AckIsDue, AckGoesToSender, RRQ
<1> QED BY <1>1, AlwaysIInv, PTL

-----------------------------------------------------------------------------
(* While the network does nothing wrong: each step keeps OneExchange.       *)

LEMMA InitClean == Init => OneExchange
BY TFTPAssumption DEF Init, OneExchange, Idle

(* What the exchange does not see.                                          *)
LEMMA UnseenClean ==
    ASSUME OneExchange, UNCHANGED <<stream, file, session, toServer>>,
           \A m \in toClient' : m \in toClient \/ m.kind # "DATA"
    PROVE  OneExchange'
<1>1. Idle => Idle'
  BY DEF Idle
<1>2. ASSUME NEW p \in Ports, Exchange(p) PROVE Exchange(p)'
  BY <1>2 DEF Exchange
<1> QED BY <1>1, <1>2 DEF OneExchange

LEMMA GetFileClean == ASSUME IInv, OneExchange, GetFile PROVE OneExchange'
<1>1. toServer = {} /\ \A p \in Ports : session[p] = 0
  BY DEF GetFile, IInv, NotStarted
<1>2. file = <<>>
  BY <1>1 DEF OneExchange, Idle, Exchange
<1>3. Idle'
  BY <1>1, <1>2 DEF GetFile, Idle
<1> QED BY <1>2, <1>3, TFTPAssumption DEF OneExchange, GetFile

LEMMA DataClean ==
    ASSUME IInv, OneExchange, NEW m \in toClient, m.kind = "DATA",
           HandleDataPacket(m), toClient' = toClient \ {m}, UNCHANGED session
    PROVE  OneExchange'
<1>1. m.port \in Ports /\ m.block \in Block /\ m.block <= session[m.port]
  BY DEF IInv, DataIsSent
<1>2. session[m.port] # 0
  BY <1>1, TFTPAssumption DEF Block, IInv, TypeOK
<1>3. PICK p \in Ports : Exchange(p)
  BY <1>1, <1>2 DEF OneExchange, Idle
<1>4. m = DATA(session[p], p) /\ toServer = {}
  BY <1>3 DEF Exchange
<1>5. m.block = session[p] /\ m.port = p
  BY <1>4 DEF DATA
<1>6. \A x \in toClient' : x.kind # "DATA"
  BY <1>3, <1>4 DEF Exchange
<1>7. CASE stream = "null"
  <2>1. UNCHANGED <<stream, file, toServer>>
    BY <1>7 DEF HandleDataPacket
  <2> QED BY <1>6, <2>1, UnseenClean
<1>8. CASE stream # "null"
  <2> DEFINE s == session[p]
  <2>1. s \in Block /\ s \in Nat /\ s <= N /\ N \in Nat
    BY <1>1, <1>5, TFTPAssumption DEF Block
  <2>2. Len(file) = s - 1
    BY <1>3, <1>4, <1>8 DEF Exchange
  <2>3. stream = "open"
    <3>1. stream # "closed"
      BY <2>1, <2>2 DEF OneExchange
    <3>2. stream # "none"
      BY <1>1, <1>2 DEF IInv, NotStarted
    <3> QED BY <1>8, <3>1, <3>2 DEF IInv, TypeOK
  <2>4. /\ file' = Append(file, s)
        /\ toServer' = {ACK(s, p)}
        /\ \/ s < N /\ UNCHANGED stream
           \/ s = N /\ stream' = "closed"
    BY <1>4, <1>5, <1>8, <2>3 DEF HandleDataPacket, SendACKPacket
  <2>5. Len(file') = s /\ \A k \in DOMAIN file' : file'[k] = k
    <3>1. /\ Len(file) \in Nat /\ Len(file') = Len(file) + 1
          /\ DOMAIN file = 1..Len(file) /\ DOMAIN file' = 1..(Len(file) + 1)
          /\ \A k \in 1..Len(file) : file'[k] = file[k]
          /\ file'[Len(file) + 1] = s
      BY <2>1, <2>4, FileGrows DEF IInv
    <3>2. \A k \in 1..Len(file) : file[k] = k
      BY <3>1 DEF OneExchange
    <3> QED BY <2>1, <2>2, <3>1, <3>2
  <2>6. Exchange(p)'
    BY <1>3, <1>6, <2>3, <2>4, <2>5 DEF Exchange
  <2> QED BY <2>1, <2>3, <2>4, <2>5, <2>6 DEF OneExchange
<1> QED BY <1>7, <1>8

LEMMA ReceiveClean ==
    ASSUME IInv, OneExchange, ClientReceives, faults' = MaxFaults
    PROVE  OneExchange'
<1>1. PICK m \in toClient :
        /\ Take(toClient, toClient', m)
        /\ UNCHANGED session
        /\ HandleData(m) \/ UNCHANGED <<client, toServer>>
  BY DEF ClientReceives
<1>2. toClient' = toClient \ {m}
  BY <1>1, TakeShrinks DEF IInv
<1>3. CASE HandleData(m) /\ m.kind = "DATA"
  BY <1>1, <1>2, <1>3, DataClean DEF HandleData
<1>4. CASE HandleData(m) /\ m.kind # "DATA"
  BY <1>1, <1>2, <1>4, UnseenClean DEF HandleData
<1>5. CASE UNCHANGED <<client, toServer>>
  BY <1>1, <1>2, <1>5, UnseenClean DEF client
<1> QED BY <1>1, <1>3, <1>4, <1>5

LEMMA RequestClean ==
    ASSUME IInv, OneExchange, ServerTakesRequest, faults' = MaxFaults
    PROVE  OneExchange'
<1>1. RRQ \in toServer /\ toServer' = toServer \ {RRQ} /\ UNCHANGED <<client, strays>>
  BY TakeShrinks DEF ServerTakesRequest, IInv
<1>2. Idle
  BY <1>1 DEF OneExchange, Exchange, RRQ, ACK
<1>3. toServer' = {}
  BY <1>1, <1>2 DEF Idle
<1>4. PICK p \in Ports :
        \/ /\ session' = [session EXCEPT ![p] = 1]
           /\ toClient' = toClient \cup {DATA(1, p)}
        \/ /\ toClient' = toClient \cup {ERROR(p)}
           /\ UNCHANGED session
  BY DEF ServerTakesRequest
<1>5. CASE session' = [session EXCEPT ![p] = 1] /\ toClient' = toClient \cup {DATA(1, p)}
  <2>1. session'[p] = 1 /\ \A q \in Ports \ {p} : session'[q] = 0
    BY <1>2, <1>5 DEF Idle, IInv, TypeOK
  <2>2. \A m \in toClient : m.kind # "DATA"
    BY <1>2, TFTPAssumption DEF Idle, IInv, DataIsSent, Block
  <2>3. Len(file') = 0
    BY <1>1, <1>2 DEF Idle, client
  <2>4. Exchange(p)'
    BY <1>3, <1>5, <2>1, <2>2, <2>3 DEF Exchange
  <2> QED BY <1>1, <2>4 DEF OneExchange, client
<1>6. CASE toClient' = toClient \cup {ERROR(p)} /\ UNCHANGED session
  <2>1. Idle'
    BY <1>1, <1>2, <1>3, <1>6 DEF Idle, client
  <2> QED BY <1>1, <2>1 DEF OneExchange, client
<1> QED BY <1>4, <1>5, <1>6

LEMMA ACKClean ==
    ASSUME IInv, OneExchange, ServerTakesACK, faults' = MaxFaults
    PROVE  OneExchange'
<1>1. PICK m \in toServer :
        /\ m.kind = "ACK"
        /\ Take(toServer, toServer', m)
        /\ IF m.port \in Ports /\ session[m.port] = m.block
           THEN /\ session' = [session EXCEPT ![m.port] = m.block + 1]
                /\ toClient' = IF m.block = N THEN toClient
                               ELSE toClient \cup {DATA(m.block + 1, m.port)}
           ELSE UNCHANGED <<session, toClient>>
        /\ UNCHANGED <<client, strays>>
  BY DEF ServerTakesACK
<1>2. toServer' = toServer \ {m}
  BY <1>1, TakeShrinks DEF IInv
<1>3. ~Idle
  BY <1>1 DEF Idle, RRQ
<1>4. PICK p \in Ports : Exchange(p)
  BY <1>3 DEF OneExchange
<1>5. m = ACK(session[p], p) /\ toServer' = {}
  BY <1>2, <1>4 DEF Exchange
<1>6. m.port = p /\ m.block = session[p]
  BY <1>5 DEF ACK
<1>7. \A x \in toClient : x.kind # "DATA"
  BY <1>4 DEF Exchange
<1>8. /\ session' = [session EXCEPT ![p] = session[p] + 1]
      /\ toClient' \subseteq toClient \cup {DATA(session[p] + 1, p)}
  BY <1>1, <1>6
<1>9. /\ session'[p] = session[p] + 1 /\ session[p] \in Nat
      /\ \A q \in Ports \ {p} : session'[q] = 0
  BY <1>4, <1>8 DEF Exchange, IInv, TypeOK
<1>10. stream # "null" /\ Len(file) = session[p]
  BY <1>4 DEF Exchange
<1>11. Exchange(p)'
  <2>1. \A x \in toClient' : x.kind = "DATA" => x = DATA(session'[p], p)
    BY <1>7, <1>8, <1>9
  <2>2. stream' = stream /\ file' = file
    BY <1>1 DEF client
  <2>3. Len(file') = session'[p] - 1
    BY <1>9, <1>10, <2>2
  <2> QED BY <1>5, <1>9, <1>10, <2>1, <2>2, <2>3 DEF Exchange
<1> QED BY <1>1, <1>11 DEF OneExchange, client

LEMMA TimeOutClean ==
    ASSUME IInv, OneExchange, NEW p \in Ports, ServerTimesOut(p), faults' = MaxFaults
    PROVE  OneExchange'
<1>1. /\ session[p] \in Block
      /\ toClient' = toClient \cup {DATA(session[p], p)}
      /\ UNCHANGED <<client, session, toServer>>
  BY DEF ServerTimesOut
<1>2. Quiet(p)
  BY TFTPAssumption DEF ServerTimesOut, IInv, TypeOK
<1>3. session[p] # 0
  BY <1>1, TFTPAssumption DEF Block
<1>4. Exchange(p)
  BY <1>3 DEF OneExchange, Idle, Exchange
<1>5. toServer = {}
  BY <1>2, <1>4 DEF Exchange, Quiet
<1>6. Exchange(p)'
  BY <1>1, <1>4, <1>5 DEF Exchange, client
<1> QED BY <1>1, <1>6 DEF OneExchange, client

LEMMA NextClean == IInv /\ CleanInv /\ [Next]_vars => CleanInv'
<1> SUFFICES ASSUME IInv, CleanInv, [Next]_vars, faults' = MaxFaults PROVE OneExchange'
  BY DEF CleanInv
<1>1. faults \in 0..MaxFaults /\ MaxFaults \in Nat
  BY TFTPAssumption DEF IInv, TypeOK
<1>2. faults = MaxFaults /\ ~Lose
  BY <1>1 DEF Next, Server, GetFile, ClientReceives, ServerTakesRequest, ServerTakesACK,
              ServerTimesOut, Lose, StrayPacket, Take, vars
<1>3. OneExchange
  BY <1>2 DEF CleanInv
<1>4. CASE UNCHANGED vars
  BY <1>3, <1>4, UnseenClean DEF vars, client
<1>5. CASE StrayPacket
  BY <1>3, <1>5, UnseenClean DEF StrayPacket, client, Stray
<1> QED BY <1>2, <1>3, <1>4, <1>5, GetFileClean, ReceiveClean, RequestClean, ACKClean,
           TimeOutClean DEF Next, Server

(* As long as the network loses and repeats nothing, and no timeout comes   *)
(* too early, every block is written once and in its place, whatever other  *)
(* hosts send to the client's port in between.                              *)
THEOREM IntactOnCleanNetwork == Spec => []IntactUnlessRepeated
<1>1. Init => CleanInv
  BY InitClean DEF CleanInv
<1>2. CleanInv => IntactUnlessRepeated
  BY DEF CleanInv, OneExchange, IntactUnlessRepeated, FileIntact
<1> QED BY <1>1, <1>2, NextClean, AlwaysIInv, PTL DEF Spec
=============================================================================
