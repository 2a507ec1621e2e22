----------------------------- MODULE TFTPClient -----------------------------
(***************************************************************************)
(* Application/TFTPClient.java reading one file from a TFTP server, over a *)
(* network that may lose, repeat and reorder datagrams.  The client never  *)
(* retransmits: the server's timeouts drive the transfer.  The server      *)
(* (external) gives every read request a session on a port of its own and  *)
(* sends block after block, each once the one before is acknowledged.      *)
(*                                                                         *)
(* A block is its number; block N, and no other, is shorter than 512       *)
(* bytes.  file is the sequence of blocks written to the local file.       *)
(***************************************************************************)
EXTENDS Naturals, Sequences, FiniteSets

CONSTANTS
    N,              \* blocks of the file
    Ports,          \* ports the server has for its sessions
    StrayPort,      \* port another host sends from
    DeviceIP,       \* the address the IP layer accepts packets for
    SourceIP,       \* the address the client writes into its own packets
    MaxFaults,      \* bound: losses, repetitions and early timeouts
    MaxStrays       \* bound: packets other hosts send to the client's port

ServerPort == 69    \* TFTP_SERVER_PORT

ASSUME TFTPAssumption ==
    /\ N \in Nat \ {0} /\ MaxFaults \in Nat /\ MaxStrays \in Nat
    /\ StrayPort \notin Ports /\ ServerPort \notin Ports

VARIABLES
    stream,         \* download_file_stream: "none" before getFile, "open",
                    \* "closed", or "null" when the file could not be opened
    file,           \* what has been written
    data_block,     \* number the next ACK carries
    server_port,    \* port the next packet goes to
    session,        \* session[p]: block the server waits to see acknowledged,
                    \* 0 before the session, N + 1 after it
    toServer, toClient,     \* datagrams on their way
    faults,         \* what the network may still do wrong
    strays          \* packets other hosts may still send

client == <<stream, file, data_block, server_port>>
vars == <<client, session, toServer, toClient, faults, strays>>

Block == 1..N

RRQ == [kind |-> "RRQ", port |-> ServerPort, block |-> 0]
ACK(b, p) == [kind |-> "ACK", port |-> p, block |-> b]
DATA(b, p) == [kind |-> "DATA", port |-> p, block |-> b]
ERROR(p) == [kind |-> "ERROR", port |-> p, block |-> 0]
Stray == [kind |-> "other", port |-> StrayPort, block |-> 0]

Init ==
    /\ stream = "none"
    /\ file = <<>>
    /\ data_block = 1
    /\ server_port = ServerPort
    /\ session = [p \in Ports |-> 0]
    /\ toServer = {}
    /\ toClient = {}
    /\ faults = MaxFaults
    /\ strays = MaxStrays

-----------------------------------------------------------------------------
(* The client.                                                             *)

\* Opens the local file, and asks for the remote one even when that failed.
GetFile ==
    /\ stream = "none"
    /\ stream' \in {"open", "null"}
    /\ toServer' = toServer \cup {RRQ}
    /\ UNCHANGED <<file, data_block, server_port, session, toClient, faults, strays>>

\* sendACKPacket to the port of the packet before.
SendACKPacket_OldPort(m) == toServer' = toServer \cup {ACK(m.block, server_port)}

\* sendACKPacket, once server_port and data_block are those of the packet.
SendACKPacket(m) == toServer' = toServer \cup {ACK(m.block, m.port)}

\* handleDataPacket giving up when the write fails.
HandleDataPacket_StopOnError(m) ==
    \/ /\ stream # "open"
       /\ data_block' = m.block
       /\ UNCHANGED <<stream, file, toServer>>
    \/ /\ stream = "open"
       /\ file' = Append(file, m.block)
       /\ SendACKPacket(m)
       /\ \/ m.block < N /\ data_block' = m.block + 1 /\ UNCHANGED stream
          \/ m.block = N /\ data_block' = 1 /\ stream' = "closed"

\* handleDataPacket acknowledging before it writes, and writing only full blocks.
HandleDataPacket_DropsLast(m) ==
    /\ SendACKPacket(m)
    /\ \/ /\ m.block < N
          /\ data_block' = m.block + 1
          /\ file' = IF stream = "open" THEN Append(file, m.block) ELSE file
          /\ UNCHANGED stream
       \/ /\ m.block = N
          /\ data_block' = 1
          /\ stream' = "closed"
          /\ UNCHANGED file

\* handleDataPacket that counts blocks instead of reading the number it is sent.
HandleDataPacket_Counts(m) ==
    \/ /\ stream = "null"
       /\ UNCHANGED <<data_block, stream, file, toServer>>
    \/ /\ stream # "null"
       /\ file' = IF stream = "open" THEN Append(file, m.block) ELSE file
       /\ toServer' = toServer \cup {ACK(data_block, m.port)}
       /\ \/ m.block < N /\ data_block' = data_block + 1 /\ UNCHANGED stream
          \/ m.block = N /\ data_block' = 1 /\ stream' = "closed"

\* A block is written whatever its number and acknowledged.  On a stream that
\* is null the write raises an exception that ends the handler; on a closed one
\* it fails, is reported, and the acknowledgement goes out all the same.
HandleDataPacket(m) ==
    \/ /\ stream = "null"
       /\ data_block' = m.block
       /\ UNCHANGED <<stream, file, toServer>>
    \/ /\ stream # "null"
       /\ file' = IF stream = "open" THEN Append(file, m.block) ELSE file
       /\ SendACKPacket(m)
       /\ \/ m.block < N /\ data_block' = m.block + 1 /\ UNCHANGED stream
          \/ m.block = N /\ data_block' = 1 /\ stream' = "closed"

\* handleData that only listens to the port it last sent to.
HandleData_KnownPort(m) ==
    /\ UNCHANGED server_port
    /\ \/ m.kind = "DATA" /\ m.port = server_port /\ HandleDataPacket(m)
       \/ /\ ~(m.kind = "DATA" /\ m.port = server_port)
          /\ UNCHANGED <<stream, file, data_block, toServer>>

\* handleData: the sender's port becomes the server's whatever the packet is.
HandleData(m) ==
    /\ server_port' = m.port
    /\ \/ m.kind = "DATA" /\ HandleDataPacket(m)
       \/ m.kind # "DATA" /\ UNCHANGED <<stream, file, data_block, toServer>>

\* A datagram leaves the set it is in, or the network keeps a copy of it.
Take(net, net2, m) ==
    \/ net2 = net \ {m} /\ UNCHANGED faults
    \/ net2 = net /\ faults > 0 /\ faults' = faults - 1

\* The receive loop: the IP layer drops what is not for our own address.
ClientReceives ==
    \E m \in toClient :
      /\ Take(toClient, toClient', m)
      /\ UNCHANGED <<session, strays>>
      /\ \/ SourceIP = DeviceIP /\ HandleData(m)
         \/ SourceIP # DeviceIP /\ UNCHANGED <<client, toServer>>

-----------------------------------------------------------------------------
(* The server.                                                             *)

\* A read request, or a copy of one, opens a session or is refused.
ServerTakesRequest ==
    /\ RRQ \in toServer
    /\ Take(toServer, toServer', RRQ)
    /\ \E p \in Ports :
         /\ session[p] = 0
         /\ \/ /\ session' = [session EXCEPT ![p] = 1]
               /\ toClient' = toClient \cup {DATA(1, p)}
            \/ /\ toClient' = toClient \cup {ERROR(p)}
               /\ UNCHANGED session
    /\ UNCHANGED <<client, strays>>

\* The acknowledgement waited for brings the next block; any other is ignored.
ServerTakesACK ==
    \E m \in toServer :
      /\ m.kind = "ACK"
      /\ Take(toServer, toServer', m)
      /\ IF m.port \in Ports /\ session[m.port] = m.block
         THEN /\ session' = [session EXCEPT ![m.port] = m.block + 1]
              /\ toClient' = IF m.block = N THEN toClient
                             ELSE toClient \cup {DATA(m.block + 1, m.port)}
         ELSE UNCHANGED <<session, toClient>>
      /\ UNCHANGED <<client, strays>>

\* The session on p is waiting for something the network no longer carries.
Quiet(p) ==
    /\ DATA(session[p], p) \notin toClient
    /\ ACK(session[p], p) \notin toServer

\* A session sends its block again; too early, if the exchange is still going.
ServerTimesOut(p) ==
    /\ session[p] \in Block
    /\ toClient' = toClient \cup {DATA(session[p], p)}
    /\ \/ Quiet(p) /\ UNCHANGED faults
       \/ ~Quiet(p) /\ faults > 0 /\ faults' = faults - 1
    /\ UNCHANGED <<client, session, toServer, strays>>

-----------------------------------------------------------------------------
(* The network.                                                            *)

Lose ==
    /\ faults > 0
    /\ faults' = faults - 1
    /\ \/ \E m \in toServer : toServer' = toServer \ {m} /\ UNCHANGED toClient
       \/ \E m \in toClient : toClient' = toClient \ {m} /\ UNCHANGED toServer
    /\ UNCHANGED <<client, session, strays>>

\* A packet that is neither data nor an error reaches the client's port.
StrayPacket ==
    /\ strays > 0
    /\ strays' = strays - 1
    /\ toClient' = toClient \cup {Stray}
    /\ UNCHANGED <<client, session, toServer, faults>>

Server == ServerTakesRequest \/ ServerTakesACK \/ \E p \in Ports : ServerTimesOut(p)

Next == GetFile \/ ClientReceives \/ Server \/ Lose \/ StrayPacket

Spec == Init /\ [][Next]_vars

\* The receive loop takes what arrives; the server answers and retransmits.
FairSpec ==
    /\ Spec
    /\ WF_vars(ClientReceives)
    /\ WF_vars(ServerTakesRequest)
    /\ WF_vars(ServerTakesACK)
    /\ \A p \in Ports : WF_vars(Quiet(p) /\ ServerTimesOut(p))

-----------------------------------------------------------------------------
(* Properties.                                                             *)

Message == [kind : {"RRQ", "ACK", "DATA", "ERROR", "other"},
            port : Ports \cup {ServerPort, StrayPort}, block : 0..N]

TypeOK ==
    /\ stream \in {"none", "open", "closed", "null"}
    /\ file \in Seq(Block)
    /\ data_block \in Nat
    /\ server_port \in Ports \cup {ServerPort, StrayPort}
    /\ session \in [Ports -> 0..(N + 1)]
    /\ toServer \in SUBSET Message /\ toClient \in SUBSET Message
    /\ faults \in 0..MaxFaults /\ strays \in 0..MaxStrays

Written == {file[k] : k \in DOMAIN file}

\* A block the server holds for delivered is in the file: sendACKPacket comes
\* after the write, and the only write that fails and is acknowledged is one to
\* a file that already has every block.
AckedIsWritten ==
    \A p \in Ports : \A b \in Block : b < session[p] => b \in Written

\* However often a block is repeated or late, its first copy comes after the
\* first copy of every block before it, so no block is ever skipped.
NoBlockSkipped ==
    \A k \in DOMAIN file : \A b \in 1..(file[k] - 1) : \E j \in 1..(k - 1) : file[j] = b

\* The file is closed only when every block has been written.
ClosedIsComplete == stream = "closed" => Written = Block

\* An acknowledgement goes to the session that sent the block, also when two
\* sessions or another host send to the client in turn.
AckGoesToSender ==
    \A m \in toServer : m.kind = "ACK" => m.port \in Ports /\ m.block <= session[m.port]

\* Every block is written once and in its place.  Nothing in the client looks at
\* the number of a block, so it takes a network that repeats nothing, not even by
\* a timeout that comes too early.
FileIntact ==
    /\ \A k \in DOMAIN file : file[k] = k
    /\ stream = "closed" => Len(file) = N

\* As long as the network has done nothing wrong the file is intact, whatever
\* strays other hosts send in between.
IntactUnlessRepeated == faults = MaxFaults => FileIntact

\* A session that the server has opened ends: lost blocks and lost
\* acknowledgements are made up for by the server's timeouts, also the last
\* one, because a block is acknowledged even after the file is closed.
SessionEnds ==
    \A p \in Ports : session[p] # 0 ~> session[p] = N + 1 \/ stream = "null"

\* A file whose transfer has begun is closed in the end: the client sends nothing
\* by itself, so this rests on its answering every session, not the last it heard.
TransferEnds ==
    (stream = "open" /\ \E p \in Ports : session[p] # 0) ~> stream = "closed"
=============================================================================
