-------------------------------- MODULE Jpcap --------------------------------
(***************************************************************************)
(* The instances of Jpcap: Java objects that capture and send, and the     *)
(* tables of the C code they share.  An object reserves a slot; the C code *)
(* keeps the handle of libpcap, its link type, its netmask and the packet  *)
(* handler of its loop under the number of the slot.                       *)
(*                                                                         *)
(* One thread: Java runs outside of every loop, or inside a packet handler *)
(* a loop has called.  What uses a handle that is null, closed or freed,   *)
(* or a reference that was deleted, ends the program and is not a step.    *)
(***************************************************************************)
EXTENDS Integers, Sequences, SequencesExt, FiniteSets

CONSTANTS
    Captors, Senders,       \* the Java objects
    Devices, Files,         \* what may be opened
    LinkType,               \* the link type of each, from pcap_datalink
    MAX_NUMBER_OF_INSTANCE, \* number of slots
    RAW_SOCKET_ID,          \* the ID of a sender on the raw socket
    MaxLoops, MaxDepth      \* bounds: loops in all, and nested ones

Objects == Captors \cup Senders
Sources == Devices \cup Files
Slots == 0..(MAX_NUMBER_OF_INSTANCE - 1)
NULL == 0

ASSUME JpcapAssumption ==
    /\ MAX_NUMBER_OF_INSTANCE \in Nat /\ RAW_SOCKET_ID \in Nat \ Slots
    /\ Captors \cap Senders = {} /\ Devices \cap Files = {} /\ IsFiniteSet(Objects)
    /\ LinkType \in [Sources -> Nat]
    /\ MaxLoops \in Nat /\ MaxDepth \in Nat

VARIABLES
    instanciatedFlag, \* the slots that are reserved
    ID, status,       \* of each object: its slot, and how far it is
    pcds,             \* per slot: number of the handle, or NULL
    linktypes,        \* per slot: the link type of the last handle of a captor
    netmasks,         \* per slot: the device whose mask was looked up last
    handles,          \* the handles of libpcap: what was opened, with which filter
    soc_num,          \* the raw socket: "none", "open" or "closed"
    jpcap_handlers,   \* per slot: reference to the packet handler
    refs, loops,      \* the references that exist; how many were made
    stack,            \* the loops that run, the innermost last
    dump,             \* the writer: pcdd, if pdt is open
    own,              \* history: the handle that was opened for each object
    careful           \* history: nothing was closed that belongs to another

instances == <<instanciatedFlag, ID, status, own>>
tables == <<pcds, linktypes, netmasks>>
looping == <<jpcap_handlers, refs, loops, stack>>
vars == <<instances, tables, handles, soc_num, looping, dump, careful>>

\* Java code runs.
JavaRuns == stack # <<>> => Last(stack).inHandler

\* The handle of a slot may be used.
Usable(i) == pcds[i] # NULL /\ handles[pcds[i]].open

\* Java code has the object.
Held(o) == status[o] \in {"open", "shared", "closed"}

\* A captor or sender that is not on the raw socket.
OnSlot(o) == Held(o) /\ ID[o] \in Slots

Init ==
    /\ instanciatedFlag = [i \in Slots |-> FALSE]
    /\ ID = [o \in Objects |-> -1]
    /\ status = [o \in Objects |-> "new"]
    /\ own = [o \in Objects |-> NULL]
    /\ pcds = [i \in Slots |-> NULL]
    /\ linktypes = [i \in Slots |-> 0]
    /\ netmasks = [i \in Slots |-> "none"]
    /\ handles = <<>>
    /\ soc_num = "none"
    /\ jpcap_handlers = [i \in Slots |-> NULL]
    /\ refs = {} /\ loops = 0 /\ stack = <<>>
    /\ dump = NULL
    /\ careful = TRUE

-----------------------------------------------------------------------------
\* The slots that have no handle, reserved or not.
FreeSlots_ByHandle == {i \in Slots : pcds[i] = NULL}

\* The first slot that is not reserved, or -1.
FreeSlots == {i \in Slots : ~instanciatedFlag[i]}
reserveID == IF FreeSlots = {} THEN -1 ELSE CHOOSE i \in FreeSlots : \A j \in FreeSlots : i <= j

\* A constructor: the object gets the slot, or an exception is thrown.
Construct(o, result) ==
    /\ JavaRuns
    /\ status[o] = "new"
    /\ reserveID # -1
    /\ instanciatedFlag' = [instanciatedFlag EXCEPT ![reserveID] = TRUE]
    /\ ID' = [ID EXCEPT ![o] = reserveID]
    /\ status' = [status EXCEPT ![o] = result]

Refused(o) ==
    /\ JavaRuns
    /\ status[o] = "new"
    /\ reserveID = -1
    /\ status' = [status EXCEPT ![o] = "refused"]
    /\ UNCHANGED <<instanciatedFlag, ID, own, tables, handles, soc_num, looping, dump, careful>>

\* A new handle is put into the slot.
NewHandle(o, source) ==
    /\ handles' = Append(handles, [source |-> source, open |-> TRUE, mask |-> "unfiltered"])
    /\ pcds' = [pcds EXCEPT ![reserveID] = Len(handles')]
    /\ own' = [own EXCEPT ![o] = Len(handles')]

\* JpcapCaptor.openDevice and nativeOpenLive.  The mask is looked up whether or not
\* the device could be opened; where it could not, the slot stays reserved.
openDevice(c, d) ==
    /\ Construct(c, "open")
    /\ pcds[reserveID] = NULL
    /\ NewHandle(c, d)
    /\ linktypes' = [linktypes EXCEPT ![reserveID] = LinkType[d]]
    /\ netmasks' = [netmasks EXCEPT ![reserveID] = d]
    /\ UNCHANGED <<soc_num, looping, dump, careful>>

openDevice_Fails(c, d) ==
    /\ Construct(c, "failed")
    /\ netmasks' = IF pcds[reserveID] = NULL THEN [netmasks EXCEPT ![reserveID] = d] ELSE netmasks
    /\ UNCHANGED <<own, pcds, linktypes, handles, soc_num, looping, dump, careful>>

\* openFile that leaves the link type of the slot as it was.
openFile_StaleType(c, f) ==
    /\ Construct(c, "open")
    /\ pcds[reserveID] = NULL
    /\ NewHandle(c, f)
    /\ UNCHANGED <<linktypes, netmasks, soc_num, looping, dump, careful>>

\* JpcapCaptor.openFile and nativeOpenOffline, which look up no mask.
openFile(c, f) ==
    /\ Construct(c, "open")
    /\ pcds[reserveID] = NULL
    /\ NewHandle(c, f)
    /\ linktypes' = [linktypes EXCEPT ![reserveID] = LinkType[f]]
    /\ UNCHANGED <<netmasks, soc_num, looping, dump, careful>>

openFile_Fails(c) ==
    /\ Construct(c, "failed")
    /\ UNCHANGED <<own, tables, handles, soc_num, looping, dump, careful>>

\* JpcapSender.openDevice: the link type of the slot is left as it was.
openSender(s, d) ==
    /\ Construct(s, "open")
    /\ pcds[reserveID] = NULL
    /\ NewHandle(s, d)
    /\ UNCHANGED <<linktypes, netmasks, soc_num, looping, dump, careful>>

openSender_Fails(s) ==
    /\ Construct(s, "failed")
    /\ UNCHANGED <<own, tables, handles, soc_num, looping, dump, careful>>

\* JpcapSender.openRawSocket.  It reserves a slot, which its ID then hides.  A socket
\* that was closed still counts as open.
openRawSocket(s) ==
    /\ JavaRuns
    /\ status[s] = "new"
    /\ reserveID # -1
    /\ instanciatedFlag' = [instanciatedFlag EXCEPT ![reserveID] = TRUE]
    /\ \/ /\ soc_num = "none"
          /\ soc_num' = "open"
          /\ ID' = [ID EXCEPT ![s] = RAW_SOCKET_ID]
          /\ status' = [status EXCEPT ![s] = "open"]
       \/ /\ ID' = [ID EXCEPT ![s] = reserveID]
          /\ status' = [status EXCEPT ![s] = "failed"]
          /\ UNCHANGED soc_num
    /\ UNCHANGED <<own, tables, handles, looping, dump, careful>>

\* getJpcapSenderInstance that reserves a slot for the sender.
getJpcapSenderInstance_OwnSlot(c, s) ==
    /\ OnSlot(c)
    /\ Construct(s, "shared")
    /\ own' = [own EXCEPT ![s] = own[c]]
    /\ UNCHANGED <<tables, handles, soc_num, looping, dump, careful>>

\* captor.getJpcapSenderInstance: a sender with the ID of the captor.
getJpcapSenderInstance(c, s) ==
    /\ JavaRuns
    /\ OnSlot(c)
    /\ status[s] = "new"
    /\ ID' = [ID EXCEPT ![s] = ID[c]]
    /\ status' = [status EXCEPT ![s] = "shared"]
    /\ own' = [own EXCEPT ![s] = own[c]]
    /\ UNCHANGED <<instanciatedFlag, tables, handles, soc_num, looping, dump, careful>>

-----------------------------------------------------------------------------
Closed(i) == IF pcds[i] = NULL THEN handles ELSE [handles EXCEPT ![pcds[i]].open = FALSE]

\* nativeClose of a captor and nativeCloseDevice of a sender do the same.
nativeClose(i) ==
    /\ handles' = Closed(i)
    /\ pcds' = [pcds EXCEPT ![i] = NULL]

unreserveID(i) == instanciatedFlag' = [instanciatedFlag EXCEPT ![i] = FALSE]

\* close of a captor or a sender.  Nothing keeps a program from closing twice, or what it
\* shares.
close(o) ==
    /\ JavaRuns
    /\ OnSlot(o)
    /\ pcds[ID[o]] # NULL => Usable(ID[o])
    /\ nativeClose(ID[o])
    /\ unreserveID(ID[o])
    /\ status' = [status EXCEPT ![o] = "closed"]
    /\ careful' = (careful /\ status[o] = "open")
    /\ UNCHANGED <<ID, own, linktypes, netmasks, soc_num, looping, dump>>

\* closeRawSocket whose unreserveID writes behind the table.
closeRawSocket_Unchecked(s) ==
    /\ JavaRuns
    /\ Held(s) /\ ID[s] = RAW_SOCKET_ID
    /\ soc_num' = "closed"
    /\ status' = [status EXCEPT ![s] = "closed"]
    /\ instanciatedFlag' = [i \in Slots \cup {ID[s]} |-> i \in Slots /\ instanciatedFlag[i]]
    /\ UNCHANGED <<ID, own, tables, handles, looping, dump, careful>>

\* close of the sender on the raw socket: unreserveID ends in an exception, since the
\* ID is no slot.
closeRawSocket(s) ==
    /\ JavaRuns
    /\ Held(s) /\ ID[s] = RAW_SOCKET_ID
    /\ soc_num' = "closed"
    /\ status' = [status EXCEPT ![s] = "closed"]
    /\ UNCHANGED <<instanciatedFlag, ID, own, tables, handles, looping, dump, careful>>

\* setFilter: the filter is compiled with the mask of the slot.
setFilter(c) ==
    /\ JavaRuns
    /\ OnSlot(c) /\ Usable(ID[c])
    /\ handles' = [handles EXCEPT ![pcds[ID[c]]].mask = netmasks[ID[c]]]
    /\ UNCHANGED <<instances, tables, soc_num, looping, dump, careful>>

-----------------------------------------------------------------------------
Interrupt(i) == [k \in DOMAIN stack |-> [stack[k] EXCEPT !.interrupted = (@ \/ stack[k].slot = i)]]

\* processPacket and loopPacket begin: the handler of the slot is replaced.
loopPacket(c) ==
    /\ JavaRuns
    /\ OnSlot(c) /\ Usable(ID[c])
    /\ loops < MaxLoops /\ Len(stack) < MaxDepth
    /\ loops' = loops + 1
    /\ refs' = refs \cup {loops'}
    /\ jpcap_handlers' = [jpcap_handlers EXCEPT ![ID[c]] = loops']
    /\ stack' = Append(Interrupt(ID[c]),
                       [slot |-> ID[c], handle |-> pcds[ID[c]], ref |-> loops',
                        inHandler |-> FALSE, interrupted |-> FALSE])
    /\ UNCHANGED <<instances, tables, handles, soc_num, dump, careful>>

top == Last(stack)
InLoop == stack # <<>> /\ ~top.inHandler /\ handles[top.handle].open
SetTop(inHandler) == [stack EXCEPT ![Len(stack)].inHandler = inHandler]

\* dispatcher_handler: a packet is given to the handler of the slot, which must exist.
dispatcher_handler ==
    /\ InLoop
    /\ jpcap_handlers[top.slot] \in refs
    /\ stack' = SetTop(TRUE)
    /\ UNCHANGED <<instances, tables, handles, soc_num, jpcap_handlers, refs, loops, dump, careful>>

handlerReturns ==
    /\ stack # <<>> /\ top.inHandler
    /\ stack' = SetTop(FALSE)
    /\ UNCHANGED <<instances, tables, handles, soc_num, jpcap_handlers, refs, loops, dump, careful>>

\* The loop returns and deletes the first reference that exists.
loopReturns_First ==
    /\ InLoop
    /\ refs # {}
    /\ refs' = refs \ {CHOOSE r \in refs : \A q \in refs : r <= q}
    /\ stack' = Front(stack)
    /\ UNCHANGED <<instances, tables, handles, soc_num, jpcap_handlers, loops, dump, careful>>

\* The loop returns, after enough packets, a timeout or an error, or because of
\* breakLoop; it deletes the reference that is now in the slot.
loopReturns ==
    /\ InLoop
    /\ jpcap_handlers[top.slot] \in refs
    /\ refs' = refs \ {jpcap_handlers[top.slot]}
    /\ stack' = Front(stack)
    /\ UNCHANGED <<instances, tables, handles, soc_num, jpcap_handlers, loops, dump, careful>>

-----------------------------------------------------------------------------
\* JpcapWriter.openDumpFile.  Where the file cannot be opened there is none to close.
openDumpFile(c) ==
    /\ JavaRuns
    /\ OnSlot(c) /\ Usable(ID[c])
    /\ dump' \in {pcds[ID[c]], NULL}
    /\ UNCHANGED <<instances, tables, handles, soc_num, looping, careful>>

\* writer.close frees the handle of the captor, which stays in the table.
closeDumpFile ==
    /\ JavaRuns
    /\ dump # NULL
    /\ handles[dump].open
    /\ handles' = [handles EXCEPT ![dump].open = FALSE]
    /\ dump' = NULL
    /\ careful' = FALSE
    /\ UNCHANGED <<instances, tables, soc_num, looping>>

Next ==
    \/ \E o \in Objects : Refused(o) \/ close(o)
    \/ \E c \in Captors :
         \/ \E d \in Devices : openDevice(c, d) \/ openDevice_Fails(c, d)
         \/ \E f \in Files : openFile(c, f)
         \/ openFile_Fails(c) \/ setFilter(c) \/ loopPacket(c)
         \/ openDumpFile(c)
         \/ \E s \in Senders : getJpcapSenderInstance(c, s)
    \/ \E s \in Senders :
         \/ \E d \in Devices : openSender(s, d)
         \/ openSender_Fails(s) \/ openRawSocket(s) \/ closeRawSocket(s)
    \/ dispatcher_handler \/ handlerReturns \/ loopReturns \/ closeDumpFile

Spec == Init /\ [][Next]_vars
-----------------------------------------------------------------------------
TypeOK ==
    /\ instanciatedFlag \in [Slots -> BOOLEAN]
    /\ ID \in [Objects -> Slots \cup {-1, RAW_SOCKET_ID}]
    /\ status \in [Objects -> {"new", "open", "shared", "closed", "failed", "refused"}]
    /\ handles \in Seq([source : Sources, open : BOOLEAN,
                        mask : Devices \cup {"none", "unfiltered"}])
    /\ pcds \in [Slots -> 0..Len(handles)] /\ own \in [Objects -> 0..Len(handles)]
    /\ linktypes \in [Slots -> Range(LinkType) \cup {0}]
    /\ netmasks \in [Slots -> Devices \cup {"none"}]
    /\ soc_num \in {"none", "open", "closed"}
    /\ loops \in 0..MaxLoops /\ refs \subseteq 1..loops
    /\ jpcap_handlers \in [Slots -> 0..loops]
    /\ stack \in Seq([slot : Slots, handle : 1..Len(handles), ref : 1..loops,
                      inHandler : BOOLEAN, interrupted : BOOLEAN])
    /\ dump \in 0..Len(handles)
    /\ careful \in BOOLEAN

\* As long as a program closes each object once, no sender it got from a captor, and no
\* writer, every object that is open uses the handle that was opened for it and no other
\* object's, and so does a sender from a captor until the captor is closed.
HandleIsOwn ==
    careful =>
      \A o \in Objects :
        ID[o] # RAW_SOCKET_ID /\ (status[o] = "open" \/ (status[o] = "shared" /\ handles[own[o]].open)) =>
          /\ pcds[ID[o]] = own[o]
          /\ handles[own[o]].open
          /\ \A p \in Objects : status[p] = "open" /\ p # o /\ own[p] = own[o] => status[o] = "shared"

\* The slots that are reserved are those of the objects that are open, of those that
\* failed to, and of those on the raw socket, which are never given back: none is lost
\* otherwise.  A slot that is free has no handle, so that "Another Jpcap instance is
\* being used" is never the answer - even if objects are closed twice or a sender
\* closes its captor's handle.
SlotsAccounted ==
    /\ careful =>
         Cardinality({i \in Slots : instanciatedFlag[i]})
           = Cardinality({o \in Objects : status[o] \in {"open", "failed"} \/ ID[o] = RAW_SOCKET_ID})
    /\ \A i \in Slots : ~instanciatedFlag[i] => pcds[i] = NULL

\* A captor's packets are taken apart by the link type of what it has open, and the
\* filter of a live capture is compiled with the mask of its own device, whatever the
\* slot was used for before.
ParsedAsItsDevice ==
    careful =>
      \A c \in Captors : status[c] = "open" =>
        LET handle == handles[own[c]]
        IN  /\ linktypes[ID[c]] = LinkType[handle.source]
            /\ handle.source \in Devices => handle.mask \in {handle.source, "unfiltered"}

\* The packets of a loop go to the handler it was started with, which exists for as long
\* as the loop runs - unless a loop was started on the same slot inside it, which
\* replaces the handler for good.
HandlerKept ==
    \A k \in DOMAIN stack :
      ~stack[k].interrupted => jpcap_handlers[stack[k].slot] = stack[k].ref /\ stack[k].ref \in refs
=============================================================================
