----------------------------- MODULE JpcapProofs -----------------------------
(* Theorems about Jpcap, for any number of objects, slots, devices, files   *)
(* and loops.                                                               *)
EXTENDS Jpcap, FiniteSetTheorems, SequenceTheorems, WellFoundedInduction, TLAPS

(* What is true of every object, by how far it is.                          *)
ObjectsInv ==
    \A o \in Objects :
      /\ status[o] = "new" => ID[o] = -1 /\ own[o] = NULL
      /\ ID[o] = RAW_SOCKET_ID => own[o] = NULL
      /\ Held(o) => ID[o] \in Slots \cup {RAW_SOCKET_ID}
      /\ OnSlot(o) => own[o] # NULL
      /\ status[o] = "shared" => ID[o] \in Slots
      /\ o \in Captors => ID[o] # RAW_SOCKET_ID /\ status[o] # "shared"

(* A slot that is not reserved has no handle, and no two slots have one     *)
(* handle.                                                                  *)
FreeIsEmpty == \A i \in Slots : ~instanciatedFlag[i] => pcds[i] = NULL
HandlesDiffer == \A i, j \in Slots : pcds[i] # NULL /\ pcds[i] = pcds[j] => i = j

IInv == TypeOK /\ ObjectsInv /\ FreeIsEmpty /\ HandlesDiffer

-----------------------------------------------------------------------------
(* As long as the program is careful.                                       *)

OpenOnSlot(o) == status[o] = "open" /\ ID[o] \in Slots

(* An open object has a slot of its own and in it the handle opened for it. *)
SlotIsOwn ==
    /\ \A o \in Objects : OpenOnSlot(o) =>
         instanciatedFlag[ID[o]] /\ pcds[ID[o]] = own[o] /\ handles[own[o]].open
    /\ \A o, p \in Objects : OpenOnSlot(o) /\ OpenOnSlot(p) /\ ID[o] = ID[p] => o = p

(* The handle of an object, be it shared, is in its slot until it is closed. *)
HeldIsOwn ==
    \A o \in Objects : OnSlot(o) /\ handles[own[o]].open => pcds[ID[o]] = own[o]

(* What the tables say of a slot is about the captor that has it open.      *)
TablesAreOwn ==
    \A c \in Captors : OpenOnSlot(c) =>
      LET handle == handles[own[c]]
      IN  /\ linktypes[ID[c]] = LinkType[handle.source]
          /\ handle.source \in Devices =>
               netmasks[ID[c]] = handle.source /\ handle.mask \in {handle.source, "unfiltered"}

Reserved == {i \in Slots : instanciatedFlag[i]}
Reserving == {o \in Objects : status[o] \in {"open", "failed"} \/ ID[o] = RAW_SOCKET_ID}
SlotsCounted == Cardinality(Reserved) = Cardinality(Reserving)

OwnInv == SlotIsOwn /\ HeldIsOwn /\ TablesAreOwn
CarefulInv == careful => OwnInv /\ SlotsCounted

-----------------------------------------------------------------------------
(* Of two loops on one slot the outer one is interrupted, and no two slots  *)
(* have one packet handler.                                                 *)
OuterInterrupted ==
    \A j, k \in DOMAIN stack : j < k /\ stack[j].slot = stack[k].slot => stack[j].interrupted
HandlersDiffer ==
    \A i, j \in Slots : jpcap_handlers[i] # NULL /\ jpcap_handlers[i] = jpcap_handlers[j] => i = j

LoopInv == OuterInterrupted /\ HandlersDiffer /\ HandlerKept

-----------------------------------------------------------------------------
(* reserveID answers -1 or the least slot that is free.                     *)
LEMMA ReserveID ==
    \/ FreeSlots = {} /\ reserveID = -1
    \/ reserveID \in FreeSlots /\ reserveID # -1
<1> DEFINE Less == {ss \in Nat \X Nat : ss[1] < ss[2]}
<1>1. FreeSlots \subseteq Slots /\ Slots \subseteq Nat
  BY JpcapAssumption DEF FreeSlots, Slots
<1>2. CASE FreeSlots # {}
  <2>1. IsWellFoundedOn(Less, Nat)
    BY NatLessThanWellFounded DEF OpToRel
  <2>2. \E i \in FreeSlots : \A j \in FreeSlots : ~(<<j, i>> \in Less)
    <3> HIDE DEF Less
    <3> QED BY <1>1, <1>2, <2>1, WFMin
  <2>3. PICK i \in FreeSlots : \A j \in FreeSlots : ~(<<j, i>> \in Less)
    BY <2>2
  <2>4. ASSUME NEW j \in FreeSlots PROVE i <= j
    <3>1. i \in Nat /\ j \in Nat
      BY <1>1
    <3>2. ~(j < i)
      BY <2>3, <3>1
    <3> QED BY <3>1, <3>2
  <2>5. FreeSlots # {} /\ \E k \in FreeSlots : \A j \in FreeSlots : k <= j
    BY <2>4
  <2>6. reserveID \in FreeSlots
    BY <2>5 DEF reserveID
  <2> QED BY <1>1, <2>6
<1> QED BY <1>2 DEF reserveID

(* The steps, by what they do.                                              *)

Constructs ==
    \/ \E c \in Captors : \E d \in Devices : openDevice(c, d) \/ openDevice_Fails(c, d)
    \/ \E c \in Captors : \E f \in Files : openFile(c, f)
    \/ \E c \in Captors : openFile_Fails(c)
    \/ \E s \in Senders : \E d \in Devices : openSender(s, d)
    \/ \E s \in Senders : openSender_Fails(s)

Loops ==
    dispatcher_handler \/ handlerReturns \/ loopReturns \/ \E c \in Captors : loopPacket(c)

Dumps == closeDumpFile \/ \E c \in Captors : openDumpFile(c)

LEMMA NextKinds ==
    ASSUME [Next]_vars
    PROVE  \/ Constructs \/ Loops \/ Dumps \/ UNCHANGED vars
           \/ \E o \in Objects : Refused(o) \/ close(o)
           \/ \E c \in Captors : setFilter(c) \/ \E s \in Senders : getJpcapSenderInstance(c, s)
           \/ \E s \in Senders : openRawSocket(s) \/ closeRawSocket(s)
<1> SUFFICES ASSUME Next PROVE
           \/ Constructs \/ Loops \/ Dumps
           \/ \E o \in Objects : Refused(o) \/ close(o)
           \/ \E c \in Captors : setFilter(c) \/ \E s \in Senders : getJpcapSenderInstance(c, s)
           \/ \E s \in Senders : openRawSocket(s) \/ closeRawSocket(s)
  OBVIOUS
<1> QED BY Zenon DEF Next, Constructs, Loops, Dumps

(* Loops on the handles and references there are.                           *)
Stacks(h, r) == Seq([slot : Slots, handle : 1..h, ref : 1..r,
                     inHandler : BOOLEAN, interrupted : BOOLEAN])

LEMMA StacksGrow ==
    ASSUME NEW h \in Nat, NEW g \in Nat, NEW r \in Nat, NEW q \in Nat, h <= g, r <= q,
           NEW s \in Stacks(h, r)
    PROVE  s \in Stacks(g, q)
<1>1. [slot : Slots, handle : 1..h, ref : 1..r, inHandler : BOOLEAN, interrupted : BOOLEAN]
        \subseteq
      [slot : Slots, handle : 1..g, ref : 1..q, inHandler : BOOLEAN, interrupted : BOOLEAN]
  OBVIOUS
<1> QED BY <1>1, SeqMonotonic DEF Stacks

Handle == [source : Sources, open : BOOLEAN, mask : Devices \cup {"none", "unfiltered"}]

(* RAW_SOCKET_ID and -1 are no slots.                                       *)
LEMMA NotSlots == RAW_SOCKET_ID \notin Slots /\ -1 \notin Slots /\ RAW_SOCKET_ID # -1
BY JpcapAssumption DEF Slots

(* A new object gets a slot that was free, and what only objects with a     *)
(* handle need holds whatever becomes of it otherwise.                      *)
LEMMA Constructed ==
    ASSUME IInv, NEW o \in Objects, NEW result \in {"open", "failed"}, Construct(o, result)
    PROVE  /\ reserveID \in Slots /\ ~instanciatedFlag[reserveID] /\ pcds[reserveID] = NULL
           /\ instanciatedFlag' = [instanciatedFlag EXCEPT ![reserveID] = TRUE]
           /\ instanciatedFlag' \in [Slots -> BOOLEAN]
           /\ ID' = [ID EXCEPT ![o] = reserveID]
           /\ ID' \in [Objects -> Slots \cup {-1, RAW_SOCKET_ID}]
           /\ status' = [status EXCEPT ![o] = result]
           /\ status' \in [Objects -> {"new", "open", "shared", "closed", "failed", "refused"}]
           /\ status[o] = "new" /\ ID[o] = -1 /\ own[o] = NULL
<1>1. reserveID \in Slots /\ ~instanciatedFlag[reserveID]
  BY ReserveID DEF Construct, FreeSlots
<1>2. pcds[reserveID] = NULL
  BY <1>1 DEF IInv, FreeIsEmpty
<1>3. status[o] = "new" /\ ID[o] = -1 /\ own[o] = NULL
  BY DEF Construct, IInv, ObjectsInv
<1> QED BY <1>1, <1>2, <1>3 DEF Construct, IInv, TypeOK

(* What a new handle does to the table of handles.                          *)
LEMMA HandleAdded ==
    ASSUME IInv, NEW o \in Objects, NEW source \in Sources, reserveID \in Slots,
           NewHandle(o, source)
    PROVE  /\ Len(handles) \in Nat /\ Len(handles') = Len(handles) + 1
           /\ handles' \in Seq(Handle)
           /\ \A h \in 1..Len(handles) : handles'[h] = handles[h]
           /\ handles'[Len(handles')] = [source |-> source, open |-> TRUE, mask |-> "unfiltered"]
           /\ pcds' = [pcds EXCEPT ![reserveID] = Len(handles')]
           /\ own' = [own EXCEPT ![o] = Len(handles')]
           /\ pcds' \in [Slots -> 0..Len(handles')] /\ own' \in [Objects -> 0..Len(handles')]
           /\ \A i \in Slots : pcds[i] < Len(handles')
           /\ \A p \in Objects : own[p] < Len(handles')
<1> DEFINE new == [source |-> source, open |-> TRUE, mask |-> "unfiltered"]
<1>1. handles \in Seq(Handle) /\ new \in Handle /\ Len(handles) \in Nat
  BY DEF IInv, TypeOK, Handle
<1>2. handles' = Append(handles, new)
  BY DEF NewHandle
<1>3. /\ handles' \in Seq(Handle) /\ Len(handles') = Len(handles) + 1
      /\ \A h \in 1..Len(handles) : handles'[h] = handles[h]
      /\ handles'[Len(handles')] = new
  <2> HIDE DEF new
  <2> QED BY <1>1, <1>2
<1>4. /\ pcds' = [pcds EXCEPT ![reserveID] = Len(handles')]
      /\ own' = [own EXCEPT ![o] = Len(handles')]
  BY DEF NewHandle
<1>5. /\ pcds \in [Slots -> 0..Len(handles)] /\ own \in [Objects -> 0..Len(handles)]
  BY DEF IInv, TypeOK
<1> QED BY <1>1, <1>3, <1>4, <1>5

LEMMA OpenStep ==
    ASSUME IInv, NEW o \in Objects, NEW source \in Sources,
           Construct(o, "open"), NewHandle(o, source),
           linktypes' \in [Slots -> Range(LinkType) \cup {0}],
           netmasks' \in [Slots -> Devices \cup {"none"}],
           UNCHANGED <<soc_num, looping, dump, careful>>
    PROVE  IInv'
<1>1. /\ reserveID \in Slots /\ ~instanciatedFlag[reserveID] /\ pcds[reserveID] = NULL
      /\ instanciatedFlag' = [instanciatedFlag EXCEPT ![reserveID] = TRUE]
      /\ instanciatedFlag' \in [Slots -> BOOLEAN]
      /\ ID' = [ID EXCEPT ![o] = reserveID]
      /\ ID' \in [Objects -> Slots \cup {-1, RAW_SOCKET_ID}]
      /\ status' = [status EXCEPT ![o] = "open"]
      /\ status' \in [Objects -> {"new", "open", "shared", "closed", "failed", "refused"}]
  BY Constructed
<1>2. /\ Len(handles) \in Nat /\ Len(handles') = Len(handles) + 1
      /\ handles' \in Seq(Handle)
      /\ pcds' = [pcds EXCEPT ![reserveID] = Len(handles')]
      /\ own' = [own EXCEPT ![o] = Len(handles')]
      /\ pcds' \in [Slots -> 0..Len(handles')] /\ own' \in [Objects -> 0..Len(handles')]
      /\ \A i \in Slots : pcds[i] < Len(handles')
  BY <1>1, HandleAdded
<1>3. TypeOK'
  <2>1. stack \in Stacks(Len(handles), loops) /\ loops \in Nat
    BY JpcapAssumption DEF IInv, TypeOK, Stacks
  <2>2. stack \in Stacks(Len(handles'), loops)
    BY <1>2, <2>1, StacksGrow
  <2>3. dump \in 0..Len(handles')
    BY <1>2 DEF IInv, TypeOK
  <2> QED BY <1>1, <1>2, <2>2, <2>3 DEF IInv, TypeOK, Handle, Stacks, looping
<1>4. ObjectsInv'
  BY <1>1, <1>2, NotSlots DEF IInv, TypeOK, ObjectsInv, Held, OnSlot, NULL
<1>5. FreeIsEmpty'
  BY <1>1, <1>2 DEF IInv, TypeOK, FreeIsEmpty
<1>6. HandlesDiffer'
  <2>1. \A i \in Slots : pcds'[i] = IF i = reserveID THEN Len(handles') ELSE pcds[i]
    BY <1>1, <1>2 DEF IInv, TypeOK
  <2>2. \A i \in Slots : pcds[i] # Len(handles')
    BY <1>2 DEF IInv, TypeOK
  <2> QED BY <2>1, <2>2 DEF IInv, HandlesDiffer
<1> QED BY <1>3, <1>4, <1>5, <1>6 DEF IInv

LEMMA FailStep ==
    ASSUME IInv, NEW o \in Objects, Construct(o, "failed"),
           netmasks' \in [Slots -> Devices \cup {"none"}],
           UNCHANGED <<own, pcds, linktypes, handles, soc_num, looping, dump, careful>>
    PROVE  IInv'
<1>1. /\ reserveID \in Slots
      /\ instanciatedFlag' = [instanciatedFlag EXCEPT ![reserveID] = TRUE]
      /\ instanciatedFlag' \in [Slots -> BOOLEAN]
      /\ ID' = [ID EXCEPT ![o] = reserveID]
      /\ ID' \in [Objects -> Slots \cup {-1, RAW_SOCKET_ID}]
      /\ status' = [status EXCEPT ![o] = "failed"]
      /\ status' \in [Objects -> {"new", "open", "shared", "closed", "failed", "refused"}]
  BY Constructed
<1>2. TypeOK'
  BY <1>1 DEF IInv, TypeOK, looping
<1>3. ObjectsInv'
  BY <1>1, NotSlots DEF IInv, TypeOK, ObjectsInv, Held, OnSlot
<1>4. FreeIsEmpty' /\ HandlesDiffer'
  BY <1>1 DEF IInv, TypeOK, FreeIsEmpty, HandlesDiffer
<1> QED BY <1>2, <1>3, <1>4 DEF IInv

LEMMA RawSocketStep == ASSUME IInv, NEW s \in Senders, openRawSocket(s) PROVE IInv'
<1>1. s \in Objects /\ reserveID \in Slots /\ s \notin Captors
  BY ReserveID, JpcapAssumption DEF openRawSocket, FreeSlots, Objects
<1>2. status[s] = "new" /\ own[s] = NULL
  BY <1>1 DEF openRawSocket, IInv, ObjectsInv
<1>3. /\ instanciatedFlag' = [instanciatedFlag EXCEPT ![reserveID] = TRUE]
      /\ instanciatedFlag' \in [Slots -> BOOLEAN]
  BY <1>1 DEF openRawSocket, IInv, TypeOK
<1>4. PICK i \in Slots \cup {RAW_SOCKET_ID}, st \in {"open", "failed"} :
        /\ ID' = [ID EXCEPT ![s] = i] /\ status' = [status EXCEPT ![s] = st]
        /\ st = "open" => i = RAW_SOCKET_ID
  BY <1>1 DEF openRawSocket
<1>5. soc_num' \in {"none", "open", "closed"}
  BY DEF openRawSocket, IInv, TypeOK
<1>6. UNCHANGED <<own, tables, handles, looping, dump, careful>>
  BY DEF openRawSocket
<1>7. TypeOK'
  BY <1>1, <1>3, <1>4, <1>5, <1>6 DEF IInv, TypeOK, looping, tables
<1>8. ObjectsInv'
  BY <1>1, <1>2, <1>4, <1>6, NotSlots DEF IInv, TypeOK, ObjectsInv, Held, OnSlot
<1>9. FreeIsEmpty' /\ HandlesDiffer'
  BY <1>1, <1>3, <1>6 DEF IInv, TypeOK, FreeIsEmpty, HandlesDiffer, tables
<1> QED BY <1>7, <1>8, <1>9 DEF IInv

LEMMA ShareStep ==
    ASSUME IInv, NEW c \in Captors, NEW s \in Senders, getJpcapSenderInstance(c, s)
    PROVE  IInv'
<1>1. c \in Objects /\ s \in Objects /\ s \notin Captors
  BY JpcapAssumption DEF Objects
<1>2. /\ ID' = [ID EXCEPT ![s] = ID[c]] /\ ID[c] \in Slots
      /\ status' = [status EXCEPT ![s] = "shared"]
      /\ own' = [own EXCEPT ![s] = own[c]] /\ own[c] # NULL
      /\ UNCHANGED <<instanciatedFlag, tables, handles, soc_num, looping, dump, careful>>
  BY <1>1 DEF getJpcapSenderInstance, OnSlot, IInv, ObjectsInv
<1>3. TypeOK'
  BY <1>1, <1>2 DEF IInv, TypeOK, looping, tables
<1>4. ObjectsInv'
  BY <1>1, <1>2, NotSlots DEF IInv, TypeOK, ObjectsInv, Held, OnSlot
<1>5. FreeIsEmpty' /\ HandlesDiffer'
  BY <1>2 DEF IInv, FreeIsEmpty, HandlesDiffer, tables
<1> QED BY <1>3, <1>4, <1>5 DEF IInv

(* Closing a handle leaves the others as they are.                          *)
LEMMA ClosedHandles ==
    ASSUME IInv, NEW h \in 1..Len(handles), NEW hs, hs = [handles EXCEPT ![h].open = FALSE]
    PROVE  /\ hs \in Seq(Handle) /\ Len(hs) = Len(handles)
           /\ \A g \in 1..Len(handles) : g # h => hs[g] = handles[g]
           /\ ~hs[h].open /\ hs[h].source = handles[h].source /\ hs[h].mask = handles[h].mask
<1>1. handles \in Seq(Handle)
  BY DEF IInv, TypeOK, Handle
<1>2. DOMAIN handles = 1..Len(handles) /\ Len(handles) \in Nat /\ handles[h] \in Handle
  BY <1>1
<1> DEFINE new == [handles[h] EXCEPT !.open = FALSE]
<1>3. new \in Handle /\ ~new.open /\ new.source = handles[h].source /\ new.mask = handles[h].mask
  BY <1>2 DEF Handle
<1>4. hs = [handles EXCEPT ![h] = new]
  OBVIOUS
<1> HIDE DEF new
<1>5. hs \in Seq(Handle) /\ Len(hs) = Len(handles) /\ hs[h] = new
  <2>1. handles \in [1..Len(handles) -> Handle]
    BY <1>1
  <2>2. hs \in [1..Len(handles) -> Handle] /\ hs[h] = new
    BY <1>3, <1>4, <2>1
  <2>3. hs \in Seq(Handle)
    BY <1>2, <2>2, SeqDef
  <2> QED BY <1>2, <2>2, <2>3, LenProperties
<1>6. \A g \in 1..Len(handles) : g # h => hs[g] = handles[g]
  BY <1>2, <1>4
<1> QED BY <1>3, <1>5, <1>6

LEMMA CloseStep == ASSUME IInv, NEW o \in Objects, close(o) PROVE IInv'
<1>1. /\ ID[o] \in Slots
      /\ pcds' = [pcds EXCEPT ![ID[o]] = NULL]
      /\ instanciatedFlag' = [instanciatedFlag EXCEPT ![ID[o]] = FALSE]
      /\ status' = [status EXCEPT ![o] = "closed"]
      /\ status[o] \in {"open", "shared", "closed"}
      /\ careful' \in BOOLEAN
      /\ UNCHANGED <<ID, own, linktypes, netmasks, soc_num, looping, dump>>
  BY DEF close, nativeClose, unreserveID, OnSlot, Held
<1>2. handles' \in Seq(Handle) /\ Len(handles') = Len(handles)
  <2>1. handles' = Closed(ID[o])
    BY DEF close, nativeClose, unreserveID
  <2>2. CASE pcds[ID[o]] = NULL
    BY <2>1, <2>2 DEF Closed, IInv, TypeOK, Handle
  <2>3. CASE pcds[ID[o]] # NULL
    <3>1. pcds[ID[o]] \in 1..Len(handles)
      BY <1>1, <2>3 DEF IInv, TypeOK, NULL
    <3> QED BY <2>1, <2>3, <3>1, ClosedHandles DEF Closed
  <2> QED BY <2>2, <2>3
<1>3. Len(handles) \in Nat
  BY DEF IInv, TypeOK
<1>4. TypeOK'
  BY <1>1, <1>2, <1>3 DEF IInv, TypeOK, looping, Handle, NULL
<1>5. ObjectsInv'
  BY <1>1, NotSlots DEF IInv, TypeOK, ObjectsInv, Held, OnSlot
<1>6. FreeIsEmpty' /\ HandlesDiffer'
  BY <1>1 DEF IInv, TypeOK, FreeIsEmpty, HandlesDiffer, NULL
<1> QED BY <1>4, <1>5, <1>6 DEF IInv

LEMMA RawCloseStep == ASSUME IInv, NEW s \in Senders, closeRawSocket(s) PROVE IInv'
<1>1. s \in Objects /\ s \notin Captors
  BY JpcapAssumption DEF Objects
<1>2. /\ ID[s] = RAW_SOCKET_ID
      /\ soc_num' = "closed" /\ status' = [status EXCEPT ![s] = "closed"]
      /\ UNCHANGED <<instanciatedFlag, ID, own, tables, handles, looping, dump, careful>>
  BY DEF closeRawSocket
<1>3. TypeOK'
  BY <1>1, <1>2 DEF IInv, TypeOK, looping, tables
<1>4. ObjectsInv'
  BY <1>1, <1>2, NotSlots DEF IInv, TypeOK, ObjectsInv, Held, OnSlot
<1> QED BY <1>2, <1>3, <1>4 DEF IInv, FreeIsEmpty, HandlesDiffer, tables

LEMMA RefusedStep == ASSUME IInv, NEW o \in Objects, Refused(o) PROVE IInv'
<1>1. /\ status' = [status EXCEPT ![o] = "refused"]
      /\ UNCHANGED <<instanciatedFlag, ID, own, tables, handles, soc_num, looping, dump, careful>>
  BY DEF Refused
<1>2. TypeOK'
  BY <1>1 DEF IInv, TypeOK, looping, tables
<1>3. ObjectsInv'
  BY <1>1 DEF IInv, TypeOK, ObjectsInv, Held, OnSlot
<1> QED BY <1>1, <1>2, <1>3 DEF IInv, FreeIsEmpty, HandlesDiffer, tables

(* A step that leaves the objects and the tables alone.                     *)
LEMMA OtherStep ==
    ASSUME IInv, UNCHANGED <<instances, tables, soc_num>>,
           handles' \in Seq(Handle), Len(handles') = Len(handles),
           loops' \in 0..MaxLoops, refs' \subseteq 1..loops',
           jpcap_handlers' \in [Slots -> 0..loops'], stack' \in Stacks(Len(handles), loops'),
           dump' \in 0..Len(handles), careful' \in BOOLEAN
    PROVE  IInv'
<1>1. TypeOK'
  BY DEF IInv, TypeOK, Handle, Stacks, instances, tables
<1> QED BY <1>1 DEF IInv, ObjectsInv, Held, OnSlot, FreeIsEmpty, HandlesDiffer, instances, tables

(* The handle of a slot, and what setting its filter does.                  *)
LEMMA UsableHandle ==
    ASSUME IInv, NEW i \in Slots, Usable(i)
    PROVE  pcds[i] \in 1..Len(handles) /\ handles[pcds[i]].open
BY DEF Usable, IInv, TypeOK, NULL

LEMMA FilteredHandles ==
    ASSUME IInv, NEW c \in Captors, setFilter(c)
    PROVE  /\ ID[c] \in Slots /\ pcds[ID[c]] \in 1..Len(handles)
           /\ handles' \in Seq(Handle) /\ Len(handles') = Len(handles)
           /\ \A h \in 1..Len(handles) :
                /\ handles'[h].source = handles[h].source /\ handles'[h].open = handles[h].open
                /\ handles'[h].mask = IF h = pcds[ID[c]] THEN netmasks[ID[c]] ELSE handles[h].mask
<1> DEFINE i == ID[c]
           h0 == pcds[i]
           new == [handles[h0] EXCEPT !.mask = netmasks[i]]
<1>1. i \in Slots /\ h0 \in 1..Len(handles)
  BY UsableHandle DEF setFilter, OnSlot
<1>2. handles \in Seq(Handle) /\ handles \in [1..Len(handles) -> Handle] /\ Len(handles) \in Nat
  <2>1. handles \in Seq(Handle)
    BY DEF IInv, TypeOK, Handle
  <2> QED BY <2>1
<1>3. /\ new \in Handle /\ new.mask = netmasks[i]
      /\ new.open = handles[h0].open /\ new.source = handles[h0].source
  BY <1>1, <1>2 DEF Handle, IInv, TypeOK
<1>4. handles' = [handles EXCEPT ![h0] = new]
  BY DEF setFilter
<1> HIDE DEF new
<1>5. handles' \in [1..Len(handles) -> Handle]
  BY <1>1, <1>2, <1>3, <1>4
<1>6. handles' \in Seq(Handle) /\ Len(handles') = Len(handles)
  <2>1. handles' \in Seq(Handle)
    BY <1>2, <1>5, SeqDef
  <2> QED BY <1>2, <1>5, <2>1, LenProperties
<1>7. \A h \in 1..Len(handles) : handles'[h] = IF h = h0 THEN new ELSE handles[h]
  BY <1>1, <1>2, <1>4
<1> QED BY <1>1, <1>3, <1>6, <1>7

LEMMA FilterStep == ASSUME IInv, NEW c \in Captors, setFilter(c) PROVE IInv'
<1>1. handles' \in Seq(Handle) /\ Len(handles') = Len(handles)
  BY FilteredHandles
<1>2. UNCHANGED <<instances, tables, soc_num, looping, dump, careful>>
  BY DEF setFilter
<1> QED BY <1>1, <1>2, OtherStep DEF IInv, TypeOK, Stacks, looping

LEMMA DumpStep ==
    ASSUME IInv, Dumps
    PROVE  IInv'
<1>1. CASE \E c \in Captors : openDumpFile(c)
  <2>1. dump' \in 0..Len(handles)
    <3>1. PICK c \in Captors : openDumpFile(c)
      BY <1>1
    <3>2. dump' \in {pcds[ID[c]], NULL} /\ ID[c] \in Slots
      BY <3>1 DEF openDumpFile, OnSlot
    <3> QED BY <3>2 DEF IInv, TypeOK, NULL
  <2>2. UNCHANGED <<instances, tables, handles, soc_num, looping, careful>>
    BY <1>1 DEF openDumpFile
  <2> QED BY <2>1, <2>2, OtherStep DEF IInv, TypeOK, Stacks, Handle, looping
<1>2. CASE closeDumpFile
  <2>1. /\ handles' = [handles EXCEPT ![dump].open = FALSE] /\ dump' = NULL /\ careful' = FALSE
        /\ dump \in 1..Len(handles) /\ Len(handles) \in Nat
        /\ UNCHANGED <<instances, tables, soc_num, looping>>
    BY <1>2 DEF closeDumpFile, IInv, TypeOK, NULL
  <2>2. handles' \in Seq(Handle) /\ Len(handles') = Len(handles)
    BY <2>1, ClosedHandles
  <2>3. dump' \in 0..Len(handles) /\ careful' \in BOOLEAN
    <3>1. dump' \in 0..Len(handles)
      BY <2>1 DEF NULL
    <3>2. careful' \in BOOLEAN
      BY <2>1
    <3> QED BY <3>1, <3>2
  <2>4. /\ loops' \in 0..MaxLoops /\ refs' \subseteq 1..loops'
        /\ jpcap_handlers' \in [Slots -> 0..loops'] /\ stack' \in Stacks(Len(handles), loops')
    BY <2>1 DEF IInv, TypeOK, Stacks, looping
  <2> QED BY <2>1, <2>2, <2>3, <2>4, OtherStep
<1> QED BY <1>1, <1>2 DEF Dumps

-----------------------------------------------------------------------------
(* The stack of loops.                                                      *)

Loop(h, r) == [slot : Slots, handle : 1..h, ref : 1..r,
               inHandler : BOOLEAN, interrupted : BOOLEAN]

LEMMA StackFacts ==
    ASSUME IInv
    PROVE  /\ Len(stack) \in Nat /\ loops \in Nat
           /\ DOMAIN stack = 1..Len(stack)
           /\ stack \in Stacks(Len(handles), loops)
           /\ \A k \in 1..Len(stack) : stack[k] \in Loop(Len(handles), loops)
<1>1. stack \in Seq(Loop(Len(handles), loops))
  BY DEF IInv, TypeOK, Loop
<1>2. loops \in Nat
  BY JpcapAssumption DEF IInv, TypeOK
<1>3. \A k \in 1..Len(stack) : stack[k] \in Loop(Len(handles), loops)
  BY <1>1, ElementOfSeq
<1>4. Len(stack) \in Nat /\ DOMAIN stack = 1..Len(stack)
  BY <1>1
<1> QED BY <1>1, <1>2, <1>3, <1>4 DEF Loop, Stacks

(* Interrupt marks the loops of one slot and changes nothing else.          *)
LEMMA Interrupted ==
    ASSUME IInv, NEW i \in Slots
    PROVE  /\ Interrupt(i) \in Stacks(Len(handles), loops)
           /\ Len(Interrupt(i)) = Len(stack)
           /\ \A k \in 1..Len(stack) :
                /\ Interrupt(i)[k].slot = stack[k].slot /\ Interrupt(i)[k].ref = stack[k].ref
                /\ stack[k].interrupted => Interrupt(i)[k].interrupted
                /\ stack[k].slot = i => Interrupt(i)[k].interrupted
<1> DEFINE L == Loop(Len(handles), loops)
           marked(k) == [stack[k] EXCEPT !.interrupted = (@ \/ stack[k].slot = i)]
<1>1. Len(stack) \in Nat /\ DOMAIN stack = 1..Len(stack) /\ \A k \in 1..Len(stack) : stack[k] \in L
  BY StackFacts
<1>2. Interrupt(i) = [k \in 1..Len(stack) |-> marked(k)]
  BY <1>1 DEF Interrupt
<1>3. ASSUME NEW k \in 1..Len(stack)
      PROVE  /\ marked(k) \in L
             /\ marked(k).slot = stack[k].slot /\ marked(k).ref = stack[k].ref
             /\ stack[k].interrupted => marked(k).interrupted
             /\ stack[k].slot = i => marked(k).interrupted
  <2> DEFINE b == stack[k].interrupted \/ stack[k].slot = i
  <2>1. stack[k] \in L /\ b \in BOOLEAN /\ marked(k) = [stack[k] EXCEPT !.interrupted = b]
    BY <1>1
  <2> HIDE DEF b
  <2>2. /\ [stack[k] EXCEPT !.interrupted = b] \in L
        /\ [stack[k] EXCEPT !.interrupted = b].slot = stack[k].slot
        /\ [stack[k] EXCEPT !.interrupted = b].ref = stack[k].ref
        /\ [stack[k] EXCEPT !.interrupted = b].interrupted = b
    BY <2>1 DEF Loop
  <2> QED BY <2>1, <2>2 DEF b
<1> HIDE DEF marked, L
<1>4. Interrupt(i) \in [1..Len(stack) -> L]
  BY <1>2, <1>3
<1>5. Interrupt(i) \in Seq(L)
  BY <1>1, <1>4, SeqDef
<1>6. Len(Interrupt(i)) = Len(stack)
  BY <1>1, <1>4, <1>5, LenProperties
<1>7. Interrupt(i) \in Stacks(Len(handles), loops)
  BY <1>5 DEF L, Loop, Stacks
<1> QED BY <1>2, <1>3, <1>6, <1>7

LEMMA LoopStarted ==
    ASSUME IInv, NEW c \in Captors, loopPacket(c)
    PROVE  /\ ID[c] \in Slots /\ loops' = loops + 1 /\ loops' \in 0..MaxLoops
           /\ stack' \in Stacks(Len(handles), loops') /\ Len(stack') = Len(stack) + 1
           /\ \A k \in 1..Len(stack) : stack'[k] = Interrupt(ID[c])[k]
           /\ stack'[Len(stack) + 1].slot = ID[c] /\ stack'[Len(stack) + 1].ref = loops'
<1> DEFINE new == [slot |-> ID[c], handle |-> pcds[ID[c]], ref |-> loops',
                   inHandler |-> FALSE, interrupted |-> FALSE]
           old == Interrupt(ID[c])
           L == Loop(Len(handles), loops')
<1>1. ID[c] \in Slots /\ pcds[ID[c]] \in 1..Len(handles)
  BY UsableHandle DEF loopPacket, OnSlot
<1>2. loops \in Nat /\ loops' = loops + 1 /\ loops' \in 0..MaxLoops /\ Len(handles) \in Nat
  BY JpcapAssumption DEF loopPacket, IInv, TypeOK
<1>3. old \in Stacks(Len(handles), loops')
  <2>1. old \in Stacks(Len(handles), loops)
    BY <1>1, Interrupted
  <2> HIDE DEF old
  <2> QED BY <1>2, <2>1, StacksGrow
<1>4. Len(old) = Len(stack) /\ Len(stack) \in Nat
  BY <1>1, Interrupted, StackFacts
<1>5. stack' = Append(old, new)
  BY DEF loopPacket
<1>6. new \in L
  BY <1>1, <1>2 DEF Loop
<1>7. new.slot = ID[c] /\ new.ref = loops'
  OBVIOUS
<1> HIDE DEF new, old
<1>8. old \in Seq(L)
  BY <1>3 DEF Stacks, Loop
<1>9. /\ stack' \in Seq(L) /\ Len(stack') = Len(stack) + 1
      /\ \A k \in 1..Len(stack) : stack'[k] = old[k]
      /\ stack'[Len(stack) + 1] = new
  <2> HIDE DEF L
  <2> QED BY <1>4, <1>5, <1>6, <1>8
<1> QED BY <1>1, <1>2, <1>7, <1>9 DEF old, Stacks, Loop

(* The packet handler of the innermost loop begins or ends.                 *)
LEMMA TopSet ==
    ASSUME IInv, stack # <<>>, NEW b \in BOOLEAN
    PROVE  /\ SetTop(b) \in Stacks(Len(handles), loops) /\ Len(SetTop(b)) = Len(stack)
           /\ \A k \in 1..Len(stack) :
                /\ SetTop(b)[k].slot = stack[k].slot /\ SetTop(b)[k].ref = stack[k].ref
                /\ SetTop(b)[k].interrupted = stack[k].interrupted
<1> DEFINE L == Loop(Len(handles), loops)
           n == Len(stack)
           new == [stack[n] EXCEPT !.inHandler = b]
<1>1. n \in Nat /\ DOMAIN stack = 1..n /\ \A k \in 1..n : stack[k] \in L
  BY StackFacts
<1>2. stack \in [1..n -> L] /\ n \in 1..n
  <2>1. stack \in Seq(L)
    BY StackFacts DEF Stacks, Loop
  <2> HIDE DEF L
  <2> QED BY <2>1
<1>3. /\ new \in L /\ new.slot = stack[n].slot /\ new.ref = stack[n].ref
      /\ new.interrupted = stack[n].interrupted
  BY <1>1, <1>2 DEF Loop
<1>4. SetTop(b) = [stack EXCEPT ![n] = new]
  BY DEF SetTop
<1> HIDE DEF new, L
<1>5. /\ SetTop(b) \in [1..n -> L]
      /\ \A k \in 1..n : SetTop(b)[k] = IF k = n THEN new ELSE stack[k]
  BY <1>2, <1>3, <1>4
<1>6. SetTop(b) \in Seq(L) /\ Len(SetTop(b)) = n
  <2> DEFINE t == SetTop(b)
  <2>1. t \in Seq(L) /\ n \in Nat /\ DOMAIN t = 1..n
    BY <1>1, <1>5, SeqDef
  <2> HIDE DEF t, n
  <2>2. Len(t) = n
    BY <2>1, LenProperties
  <2> QED BY <2>1, <2>2 DEF t
<1>7. SetTop(b) \in Stacks(Len(handles), loops)
  BY <1>6 DEF L, Loop, Stacks
<1> QED BY <1>3, <1>5, <1>6, <1>7

(* The innermost loop returns.                                              *)
LEMMA Popped ==
    ASSUME IInv, stack # <<>>
    PROVE  /\ Front(stack) \in Stacks(Len(handles), loops)
           /\ Len(Front(stack)) = Len(stack) - 1
           /\ \A k \in 1..(Len(stack) - 1) : Front(stack)[k] = stack[k]
<1> DEFINE L == Loop(Len(handles), loops)
<1>1. stack \in Seq(L)
  BY StackFacts DEF Stacks, Loop
<1> HIDE DEF L
<1>2. /\ Front(stack) \in Seq(L) /\ Len(Front(stack)) = Len(stack) - 1
      /\ \A k \in 1..(Len(stack) - 1) : Front(stack)[k] = stack[k]
  <2> DEFINE n == Len(stack) - 1
  <2>1. n \in Nat /\ \A k \in 1..n : stack[k] \in L
    BY <1>1
  <2> HIDE DEF n
  <2>2. /\ SubSeq(stack, 1, n) \in Seq(L)
        /\ Len(SubSeq(stack, 1, n)) = IF 1 <= n THEN n - 1 + 1 ELSE 0
        /\ \A k \in 1..(n - 1 + 1) : SubSeq(stack, 1, n)[k] = stack[1 + k - 1]
    BY <2>1, SubSeqProperties
  <2>3. Front(stack) = SubSeq(stack, 1, n)
    BY DEF Front, n
  <2>4. Len(Front(stack)) = n
    BY <2>1, <2>2, <2>3
  <2>5. \A k \in 1..n : Front(stack)[k] = stack[k]
    BY <2>1, <2>2, <2>3
  <2> QED BY <2>2, <2>3, <2>4, <2>5 DEF n
<1>3. Front(stack) \in Stacks(Len(handles), loops)
  BY <1>2 DEF L, Loop, Stacks
<1> QED BY <1>2, <1>3

LEMMA LoopStep ==
    ASSUME IInv, Loops
    PROVE  IInv'
<1>1. /\ loops \in Nat /\ loops \in 0..MaxLoops /\ refs \subseteq 1..loops
      /\ jpcap_handlers \in [Slots -> 0..loops] /\ dump \in 0..Len(handles)
      /\ careful \in BOOLEAN /\ handles \in Seq(Handle)
  BY StackFacts DEF IInv, TypeOK, Handle
<1>2. UNCHANGED <<instances, tables, soc_num, handles, dump, careful>>
  BY DEF Loops, dispatcher_handler, handlerReturns, loopReturns, loopPacket
<1>3. CASE dispatcher_handler \/ handlerReturns
  <2>1. stack' \in Stacks(Len(handles), loops)
    BY <1>3, TopSet DEF dispatcher_handler, handlerReturns, InLoop
  <2>2. UNCHANGED <<jpcap_handlers, refs, loops>>
    BY <1>3 DEF dispatcher_handler, handlerReturns
  <2> QED BY <1>1, <1>2, <2>1, <2>2, OtherStep
<1>4. CASE loopReturns
  <2>1. stack' \in Stacks(Len(handles), loops)
    BY <1>4, Popped DEF loopReturns, InLoop
  <2>2. refs' \subseteq refs /\ UNCHANGED <<jpcap_handlers, loops>>
    BY <1>4 DEF loopReturns
  <2> QED BY <1>1, <1>2, <2>1, <2>2, OtherStep
<1>5. ASSUME NEW c \in Captors, loopPacket(c) PROVE IInv'
  <2>1. /\ ID[c] \in Slots /\ loops' = loops + 1 /\ loops' \in 0..MaxLoops
        /\ stack' \in Stacks(Len(handles), loops')
    BY <1>5, LoopStarted
  <2>2. refs' = refs \cup {loops'} /\ jpcap_handlers' = [jpcap_handlers EXCEPT ![ID[c]] = loops']
    BY <1>5 DEF loopPacket
  <2>3. refs' \subseteq 1..loops' /\ jpcap_handlers' \in [Slots -> 0..loops']
    BY <1>1, <2>1, <2>2
  <2> QED BY <1>1, <1>2, <2>1, <2>3, OtherStep
<1> QED BY <1>3, <1>4, <1>5 DEF Loops

(* The tables after an object was constructed keep their type.              *)
LEMMA ConstructStep ==
    ASSUME IInv, Constructs
    PROVE  IInv'
<1>1. Captors \subseteq Objects /\ Senders \subseteq Objects
      /\ Devices \subseteq Sources /\ Files \subseteq Sources
  BY DEF Objects, Sources
<1>2. \A x \in Sources : LinkType[x] \in Range(LinkType)
  BY JpcapAssumption DEF Range
<1>3. linktypes \in [Slots -> Range(LinkType) \cup {0}] /\ netmasks \in [Slots -> Devices \cup {"none"}]
  BY DEF IInv, TypeOK
<1>4. ASSUME NEW c \in Captors, NEW d \in Devices, openDevice(c, d) PROVE IInv'
  <2>1. linktypes' \in [Slots -> Range(LinkType) \cup {0}] /\ netmasks' \in [Slots -> Devices \cup {"none"}]
    BY <1>1, <1>2, <1>3, <1>4 DEF openDevice
  <2> QED BY <1>1, <1>4, <2>1, OpenStep DEF openDevice
<1>5. ASSUME NEW c \in Captors, NEW d \in Devices, openDevice_Fails(c, d) PROVE IInv'
  <2>1. netmasks' \in [Slots -> Devices \cup {"none"}]
    BY <1>3, <1>5 DEF openDevice_Fails
  <2> QED BY <1>1, <1>5, <2>1, FailStep DEF openDevice_Fails
<1>6. ASSUME NEW c \in Captors, NEW f \in Files, openFile(c, f) PROVE IInv'
  <2>1. linktypes' \in [Slots -> Range(LinkType) \cup {0}] /\ netmasks' \in [Slots -> Devices \cup {"none"}]
    BY <1>1, <1>2, <1>3, <1>6 DEF openFile
  <2> QED BY <1>1, <1>6, <2>1, OpenStep DEF openFile
<1>7. ASSUME NEW c \in Captors, openFile_Fails(c) PROVE IInv'
  BY <1>1, <1>3, <1>7, FailStep DEF openFile_Fails, tables
<1>8. ASSUME NEW s \in Senders, NEW d \in Devices, openSender(s, d) PROVE IInv'
  BY <1>1, <1>3, <1>8, OpenStep DEF openSender
<1>9. ASSUME NEW s \in Senders, openSender_Fails(s) PROVE IInv'
  BY <1>1, <1>3, <1>9, FailStep DEF openSender_Fails, tables
<1> QED BY <1>4, <1>5, <1>6, <1>7, <1>8, <1>9 DEF Constructs

LEMMA InitIInv == Init => IInv
<1> SUFFICES ASSUME Init PROVE IInv
  OBVIOUS
<1>1. TypeOK
  BY JpcapAssumption DEF Init, TypeOK, NULL
<1>2. ObjectsInv
  BY NotSlots DEF Init, ObjectsInv, Held, OnSlot
<1>3. FreeIsEmpty /\ HandlesDiffer
  BY DEF Init, FreeIsEmpty, HandlesDiffer
<1> QED BY <1>1, <1>2, <1>3 DEF IInv

LEMMA NextIInv == IInv /\ [Next]_vars => IInv'
<1> SUFFICES ASSUME IInv, [Next]_vars PROVE IInv'
  OBVIOUS
<1>2. CASE UNCHANGED vars
  BY <1>2 DEF vars, instances, tables, looping, IInv, TypeOK, ObjectsInv, Held, OnSlot,
              FreeIsEmpty, HandlesDiffer
<1>3. CASE \E o \in Objects : Refused(o) \/ close(o)
  BY <1>3, RefusedStep, CloseStep
<1>4. CASE Constructs
  BY <1>4, ConstructStep
<1>5. CASE \E c \in Captors : setFilter(c) \/ \E s \in Senders : getJpcapSenderInstance(c, s)
  BY <1>5, FilterStep, ShareStep
<1>6. CASE \E s \in Senders : openRawSocket(s) \/ closeRawSocket(s)
  BY <1>6, RawSocketStep, RawCloseStep
<1>7. CASE Loops
  BY <1>7, LoopStep
<1>8. CASE Dumps
  BY <1>8, DumpStep
<1> QED BY <1>2, <1>3, <1>4, <1>5, <1>6, <1>7, <1>8, NextKinds

LEMMA AlwaysIInv == Spec => []IInv
BY InitIInv, NextIInv, PTL DEF Spec

(* The tables of the C code keep their type: every slot number, handle and  *)
(* reference found in them is one that exists.                              *)
THEOREM TypeCorrect == Spec => []TypeOK
<1>1. IInv => TypeOK
  BY DEF IInv
<1> QED BY <1>1, AlwaysIInv, PTL

-----------------------------------------------------------------------------
(* Each step keeps LoopInv.                                                 *)

LEMMA InitLoop == Init => LoopInv
<1> SUFFICES ASSUME Init PROVE LoopInv
  OBVIOUS
<1>1. DOMAIN stack = {} /\ \A i \in Slots : jpcap_handlers[i] = NULL
  BY DEF Init
<1> QED BY <1>1 DEF LoopInv, OuterInterrupted, HandlersDiffer, HandlerKept

(* A loop begins: it interrupts those on its slot, and its packet handler   *)
(* is new.                                                                  *)
LEMMA PacketLoop ==
    ASSUME IInv, LoopInv, NEW c \in Captors, loopPacket(c)
    PROVE  LoopInv'
<1> DEFINE n == Len(stack)
           i0 == ID[c]
<1>1. /\ i0 \in Slots /\ loops' = loops + 1
      /\ stack' \in Stacks(Len(handles), loops') /\ Len(stack') = n + 1
      /\ \A k \in 1..n : stack'[k] = Interrupt(i0)[k]
      /\ stack'[n + 1].slot = i0 /\ stack'[n + 1].ref = loops'
  BY LoopStarted
<1>2. /\ n \in Nat /\ loops \in Nat /\ DOMAIN stack = 1..n
      /\ \A k \in 1..n : stack[k] \in Loop(Len(handles), loops)
  BY StackFacts
<1>3. DOMAIN stack' = 1..(n + 1)
  BY <1>1, LenProperties DEF Stacks
<1>4. \A k \in 1..n : stack'[k].slot = stack[k].slot /\ stack'[k].ref = stack[k].ref
  BY <1>1, Interrupted
<1>5. ASSUME NEW k \in 1..n, stack[k].interrupted \/ stack[k].slot = i0
       PROVE  stack'[k].interrupted
  <2>1. stack'[k] = Interrupt(i0)[k]
    BY <1>1
  <2>2. Interrupt(i0)[k].interrupted
    BY <1>1, <1>5, Interrupted, Zenon
  <2> QED BY <2>1, <2>2
<1>6. refs' = refs \cup {loops'} /\ jpcap_handlers' = [jpcap_handlers EXCEPT ![i0] = loops']
  BY DEF loopPacket
<1>7. jpcap_handlers \in [Slots -> 0..loops]
  BY DEF IInv, TypeOK
<1>8. /\ jpcap_handlers'[i0] = loops' /\ loops' \notin 0..loops
      /\ \A i \in Slots \ {i0} : jpcap_handlers'[i] = jpcap_handlers[i]
  BY <1>1, <1>2, <1>6, <1>7
<1> HIDE DEF n, i0
<1>9. OuterInterrupted'
  <2> SUFFICES ASSUME NEW j \in 1..(n + 1), NEW k \in 1..(n + 1), j < k,
                      stack'[j].slot = stack'[k].slot
               PROVE  stack'[j].interrupted
    BY <1>3 DEF OuterInterrupted
  <2>1. j \in 1..n
    BY <1>2
  <2>2. CASE k = n + 1
    <3>1. stack[j].slot = i0
      BY <1>1, <1>4, <2>1, <2>2
    <3> QED BY <1>5, <2>1, <3>1
  <2>3. CASE k # n + 1
    <3>1. k \in 1..n
      BY <1>2, <2>3
    <3>2. stack[j].slot = stack[k].slot
      BY <1>4, <2>1, <3>1
    <3>3. stack[j].interrupted
      BY <1>2, <2>1, <3>1, <3>2, Zenon DEF LoopInv, OuterInterrupted
    <3> QED BY <1>5, <2>1, <3>3
  <2> QED BY <2>2, <2>3
<1>10. HandlersDiffer'
  BY <1>7, <1>8 DEF LoopInv, HandlersDiffer, NULL
<1>11. HandlerKept'
  <2> SUFFICES ASSUME NEW k \in 1..(n + 1), ~stack'[k].interrupted
               PROVE  jpcap_handlers'[stack'[k].slot] = stack'[k].ref /\ stack'[k].ref \in refs'
    BY <1>3 DEF HandlerKept
  <2>1. CASE k = n + 1
    BY <1>1, <1>6, <1>8, <2>1
  <2>2. CASE k # n + 1
    <3>1. k \in 1..n
      BY <1>2, <2>2
    <3>2. ~stack[k].interrupted /\ stack[k].slot # i0
      BY <1>5, <3>1, Zenon
    <3>3. stack'[k].slot = stack[k].slot /\ stack'[k].ref = stack[k].ref
      BY <1>4, <3>1
    <3>4. stack[k].slot \in Slots
      BY <1>2, <3>1 DEF Loop
    <3>5. jpcap_handlers[stack[k].slot] = stack[k].ref /\ stack[k].ref \in refs
      BY <1>2, <3>1, <3>2 DEF LoopInv, HandlerKept
    <3> QED BY <1>6, <1>8, <3>2, <3>4, <3>5, <3>3
  <2> QED BY <2>1, <2>2
<1> QED BY <1>9, <1>10, <1>11 DEF LoopInv

(* The innermost loop returns: the packet handler it deletes is that of its *)
(* own slot, and every other loop on that slot is interrupted.              *)
LEMMA ReturnedLoop ==
    ASSUME IInv, LoopInv, loopReturns
    PROVE  LoopInv'
<1> DEFINE n == Len(stack)
           r0 == jpcap_handlers[stack[n].slot]
<1>1. /\ stack # <<>> /\ stack' = Front(stack)
      /\ r0 \in refs /\ refs' = refs \ {r0} /\ UNCHANGED jpcap_handlers
  BY DEF loopReturns, InLoop, top, Last
<1>2. /\ n \in Nat /\ DOMAIN stack = 1..n
      /\ \A k \in 1..n : stack[k] \in Loop(Len(handles), loops)
  BY StackFacts
<1>3. /\ n \in 1..n /\ stack' \in Stacks(Len(handles), loops) /\ Len(stack') = n - 1
      /\ \A k \in 1..(n - 1) : stack'[k] = stack[k]
  <2>1. n \in 1..n
    <3>1. stack \in Seq(Loop(Len(handles), loops))
      BY StackFacts DEF Stacks, Loop
    <3>2. n # 0
      BY <1>1, <3>1, EmptySeq
    <3> QED BY <1>2, <3>2
  <2>2. /\ stack' \in Stacks(Len(handles), loops) /\ Len(stack') = n - 1
        /\ \A k \in 1..(n - 1) : stack'[k] = stack[k]
    BY <1>1, Popped
  <2> QED BY <2>1, <2>2
<1>4. DOMAIN stack' = 1..(n - 1)
  BY <1>3, LenProperties DEF Stacks
<1> HIDE DEF n
<1>5. r0 # NULL
  <2>1. refs \subseteq 1..loops /\ loops \in Nat
    BY StackFacts DEF IInv, TypeOK
  <2> QED BY <1>1, <2>1 DEF NULL
<1>6. OuterInterrupted'
  BY <1>2, <1>3, <1>4 DEF LoopInv, OuterInterrupted
<1>7. HandlerKept'
  <2> SUFFICES ASSUME NEW k \in 1..(n - 1), ~stack[k].interrupted
               PROVE  jpcap_handlers[stack[k].slot] = stack[k].ref /\ stack[k].ref \in refs'
    BY <1>1, <1>3, <1>4 DEF HandlerKept
  <2>1. k \in 1..n /\ k < n
    BY <1>2
  <2>2. jpcap_handlers[stack[k].slot] = stack[k].ref /\ stack[k].ref \in refs
    BY <1>2, <2>1 DEF LoopInv, HandlerKept
  <2>3. stack[k].slot # stack[n].slot
    BY <1>2, <1>3, <2>1 DEF LoopInv, OuterInterrupted
  <2>4. stack[k].slot \in Slots /\ stack[n].slot \in Slots
    BY <1>2, <1>3, <2>1 DEF Loop
  <2>5. stack[k].ref # r0
    BY <1>5, <2>2, <2>3, <2>4 DEF LoopInv, HandlersDiffer
  <2> QED BY <1>1, <2>2, <2>5
<1> QED BY <1>1, <1>6, <1>7 DEF LoopInv, HandlersDiffer

LEMMA NextLoop == IInv /\ LoopInv /\ [Next]_vars => LoopInv'
<1> SUFFICES ASSUME IInv, LoopInv, [Next]_vars PROVE LoopInv'
  OBVIOUS
<1>1. CASE UNCHANGED looping
  BY <1>1 DEF looping, LoopInv, OuterInterrupted, HandlersDiffer, HandlerKept
<1>2. CASE dispatcher_handler \/ handlerReturns
  <2>1. PICK b \in BOOLEAN : stack # <<>> /\ stack' = SetTop(b)
    BY <1>2 DEF dispatcher_handler, handlerReturns, InLoop
  <2>2. UNCHANGED <<jpcap_handlers, refs>>
    BY <1>2 DEF dispatcher_handler, handlerReturns
  <2>3. stack' \in Stacks(Len(handles), loops) /\ Len(stack') = Len(stack)
    BY <2>1, TopSet
  <2>4. \A k \in 1..Len(stack) : stack'[k].slot = stack[k].slot /\ stack'[k].ref = stack[k].ref
    BY <2>1, TopSet
  <2>5. \A k \in 1..Len(stack) : stack'[k].interrupted = stack[k].interrupted
    BY <2>1, TopSet, Zenon
  <2>6. DOMAIN stack = 1..Len(stack) /\ DOMAIN stack' = 1..Len(stack)
    BY <2>3, StackFacts, LenProperties DEF Stacks
  <2>7. OuterInterrupted'
    <3> SUFFICES ASSUME NEW j \in 1..Len(stack), NEW k \in 1..Len(stack), j < k,
                        stack'[j].slot = stack'[k].slot
                 PROVE  stack'[j].interrupted
      BY <2>6, Zenon DEF OuterInterrupted
    <3>1. stack[j].slot = stack[k].slot
      BY <2>4
    <3>2. stack[j].interrupted
      BY <2>6, <3>1, Zenon DEF LoopInv, OuterInterrupted
    <3> QED BY <2>5, <3>2, Zenon
  <2>8. HandlerKept'
    <3> SUFFICES ASSUME NEW k \in 1..Len(stack), ~stack'[k].interrupted
                 PROVE  jpcap_handlers[stack'[k].slot] = stack'[k].ref /\ stack'[k].ref \in refs
      BY <2>2, <2>6, Zenon DEF HandlerKept
    <3>1. ~stack[k].interrupted
      BY <2>5, Zenon
    <3>2. jpcap_handlers[stack[k].slot] = stack[k].ref /\ stack[k].ref \in refs
      BY <2>6, <3>1, Zenon DEF LoopInv, HandlerKept
    <3> QED BY <2>4, <3>2
  <2> QED BY <2>2, <2>7, <2>8 DEF LoopInv, HandlersDiffer
<1>3. ASSUME NEW c \in Captors, loopPacket(c) PROVE LoopInv'
  BY <1>3, PacketLoop
<1>4. CASE loopReturns
  BY <1>4, ReturnedLoop
<1>5. UNCHANGED looping \/ Loops
  BY NextKinds DEF Constructs, Dumps, vars, Refused, close, nativeClose, unreserveID, openDevice, openDevice_Fails,
                   openFile, openFile_Fails, openSender, openSender_Fails, openRawSocket,
                   closeRawSocket, setFilter, getJpcapSenderInstance, openDumpFile, closeDumpFile
<1> QED BY <1>1, <1>2, <1>3, <1>4, <1>5 DEF Loops

(* The packets of a loop go to the packet handler it was started with, and  *)
(* the reference to it is not deleted, unless a loop was started on the     *)
(* same slot inside it.                                                     *)
THEOREM LoopKeepsHandler == Spec => []HandlerKept
<1>1. LoopInv => HandlerKept
  BY DEF LoopInv
<1> QED BY <1>1, InitLoop, NextLoop, AlwaysIInv, PTL DEF Spec

-----------------------------------------------------------------------------
(* Each step keeps CarefulInv.  First how the slots are counted: a          *)
(* constructor and close change both sides by one.                          *)

LEMMA FiniteSides == ASSUME IInv PROVE IsFiniteSet(Reserved) /\ IsFiniteSet(Reserving)
<1>1. IsFiniteSet(Slots)
  BY JpcapAssumption, FS_Interval DEF Slots
<1>2. Reserved \in SUBSET Slots /\ Reserving \in SUBSET Objects
  BY DEF Reserved, Reserving
<1> QED BY <1>1, <1>2, JpcapAssumption, FS_Subset

LEMMA OneMore ==
    ASSUME IInv, SlotsCounted, NEW i \in Slots, i \notin Reserved, NEW o \in Objects, o \notin Reserving,
           Reserved' = Reserved \cup {i}, Reserving' = Reserving \cup {o}
    PROVE  SlotsCounted'
<1>1. Cardinality(Reserved \cup {i}) = Cardinality(Reserved) + 1
  BY FiniteSides, FS_AddElement
<1>2. Cardinality(Reserving \cup {o}) = Cardinality(Reserving) + 1
  BY FiniteSides, FS_AddElement
<1> QED BY <1>1, <1>2 DEF SlotsCounted

LEMMA OneLess ==
    ASSUME IInv, SlotsCounted, NEW i \in Reserved, NEW o \in Reserving,
           Reserved' = Reserved \ {i}, Reserving' = Reserving \ {o}
    PROVE  SlotsCounted'
<1>1. Cardinality(Reserved \ {i}) = Cardinality(Reserved) - 1
  BY FiniteSides, FS_RemoveElement
<1>2. Cardinality(Reserving \ {o}) = Cardinality(Reserving) - 1
  BY FiniteSides, FS_RemoveElement
<1> QED BY <1>1, <1>2 DEF SlotsCounted

LEMMA ConstructCounted ==
    ASSUME IInv, SlotsCounted, NEW o \in Objects, NEW result \in {"open", "failed"},
           Construct(o, result)
    PROVE  SlotsCounted'
<1>1. /\ reserveID \in Slots /\ ~instanciatedFlag[reserveID]
      /\ instanciatedFlag' = [instanciatedFlag EXCEPT ![reserveID] = TRUE]
      /\ ID' = [ID EXCEPT ![o] = reserveID] /\ status' = [status EXCEPT ![o] = result]
      /\ status[o] = "new" /\ ID[o] = -1
  BY Constructed
<1>2. Reserved' = Reserved \cup {reserveID} /\ reserveID \notin Reserved
  BY <1>1 DEF Reserved, IInv, TypeOK
<1>3. Reserving' = Reserving \cup {o} /\ o \notin Reserving
  BY <1>1, NotSlots DEF Reserving, IInv, TypeOK
<1> QED BY <1>1, <1>2, <1>3, OneMore

LEMMA RawSocketCounted ==
    ASSUME IInv, SlotsCounted, NEW s \in Senders, openRawSocket(s)
    PROVE  SlotsCounted'
<1>1. s \in Objects /\ reserveID \in Slots /\ ~instanciatedFlag[reserveID]
  BY ReserveID DEF openRawSocket, FreeSlots, Objects
<1>2. status[s] = "new" /\ ID[s] = -1
  BY <1>1 DEF openRawSocket, IInv, ObjectsInv
<1>3. Reserved' = Reserved \cup {reserveID} /\ reserveID \notin Reserved
  BY <1>1 DEF openRawSocket, Reserved, IInv, TypeOK
<1>4. PICK i \in Slots \cup {RAW_SOCKET_ID}, st \in {"open", "failed"} :
        ID' = [ID EXCEPT ![s] = i] /\ status' = [status EXCEPT ![s] = st]
  BY <1>1 DEF openRawSocket
<1>5. Reserving' = Reserving \cup {s} /\ s \notin Reserving
  BY <1>1, <1>2, <1>4, NotSlots DEF Reserving, IInv, TypeOK
<1> QED BY <1>1, <1>3, <1>5, OneMore

(* The handle of an object that has a slot exists.                          *)
LEMMA OwnExists ==
    ASSUME IInv, NEW o \in Objects, OpenOnSlot(o) \/ OnSlot(o)
    PROVE  ID[o] \in Slots /\ own[o] \in 1..Len(handles) /\ Len(handles) \in Nat
<1>1. OnSlot(o)
  BY DEF OpenOnSlot, OnSlot, Held
<1>2. own[o] # NULL /\ own[o] \in 0..Len(handles) /\ Len(handles) \in Nat
  BY <1>1 DEF IInv, TypeOK, ObjectsInv
<1> QED BY <1>1, <1>2 DEF OnSlot, NULL

(* An open object does not have a slot that has no handle.                  *)
LEMMA NotEmpty ==
    ASSUME IInv, SlotIsOwn, NEW o \in Objects, OpenOnSlot(o), NEW i \in Slots, pcds[i] = NULL
    PROVE  ID[o] # i
BY OwnExists DEF SlotIsOwn, NULL

(* A new object opens a handle in its slot.                                 *)
LEMMA OpenOwn ==
    ASSUME IInv, OwnInv, NEW o \in Objects, NEW source \in Sources,
           Construct(o, "open"), NewHandle(o, source),
           \A i \in Slots \ {reserveID} : linktypes'[i] = linktypes[i] /\ netmasks'[i] = netmasks[i],
           o \in Captors => linktypes'[reserveID] = LinkType[source],
           o \in Captors /\ source \in Devices => netmasks'[reserveID] = source
    PROVE  OwnInv'
<1> DEFINE r == reserveID
           n == Len(handles')
           new == [source |-> source, open |-> TRUE, mask |-> "unfiltered"]
<1>1. /\ r \in Slots /\ pcds[r] = NULL
      /\ instanciatedFlag' = [instanciatedFlag EXCEPT ![r] = TRUE]
      /\ ID' = [ID EXCEPT ![o] = r]
      /\ status' = [status EXCEPT ![o] = "open"]
      /\ status[o] = "new"
  BY Constructed
<1>2. /\ \A h \in 1..Len(handles) : handles'[h] = handles[h]
      /\ n = Len(handles) + 1 /\ Len(handles) \in Nat
      /\ handles'[n] = new
      /\ pcds' = [pcds EXCEPT ![r] = n]
      /\ own' = [own EXCEPT ![o] = n]
  BY <1>1, HandleAdded
<1>3. new.source = source /\ new.mask = "unfiltered" /\ new.open
  OBVIOUS
<1> HIDE DEF r, n, new
<1>4. /\ ID'[o] = r /\ status'[o] = "open" /\ own'[o] = n /\ pcds'[r] = n
      /\ instanciatedFlag'[r] /\ OpenOnSlot(o)'
  BY <1>1, <1>2 DEF IInv, TypeOK, OpenOnSlot
<1>5. ASSUME NEW p \in Objects \ {o}
      PROVE  /\ ID'[p] = ID[p] /\ status'[p] = status[p] /\ own'[p] = own[p]
             /\ OpenOnSlot(p)' <=> OpenOnSlot(p)
  BY <1>1, <1>2, <1>5 DEF IInv, TypeOK, OpenOnSlot
<1>6. ASSUME NEW p \in Objects \ {o}, OpenOnSlot(p)
      PROVE  /\ ID[p] # r /\ ID[p] \in Slots /\ pcds'[ID[p]] = pcds[ID[p]]
             /\ instanciatedFlag'[ID[p]] /\ handles'[own[p]] = handles[own[p]]
  <2>1. ID[p] # r /\ ID[p] \in Slots /\ own[p] \in 1..Len(handles)
    BY <1>1, <1>6, NotEmpty, OwnExists DEF OwnInv
  <2>2. instanciatedFlag[ID[p]]
    BY <1>6 DEF OwnInv, SlotIsOwn
  <2> QED BY <1>1, <1>2, <2>1, <2>2 DEF IInv, TypeOK
<1>7. SlotIsOwn'
  <2>1. ASSUME NEW p \in Objects, OpenOnSlot(p)'
        PROVE  instanciatedFlag'[ID'[p]] /\ pcds'[ID'[p]] = own'[p] /\ handles'[own'[p]].open
    <3>1. CASE p = o
      BY <1>2, <1>3, <1>4, <3>1
    <3>2. CASE p # o
      <4>1. OpenOnSlot(p) /\ ID'[p] = ID[p] /\ own'[p] = own[p]
        BY <1>5, <2>1, <3>2
      <4> QED BY <1>6, <3>2, <4>1 DEF OwnInv, SlotIsOwn
    <3> QED BY <3>1, <3>2
  <2>2. ASSUME NEW p \in Objects, NEW q \in Objects,
               OpenOnSlot(p)', OpenOnSlot(q)', ID'[p] = ID'[q]
        PROVE  p = q
    BY <1>4, <1>5, <1>6, <2>2 DEF OwnInv, SlotIsOwn
  <2> QED BY <2>1, <2>2 DEF SlotIsOwn
<1>8. HeldIsOwn'
  <2> SUFFICES ASSUME NEW p \in Objects, OnSlot(p)', handles'[own'[p]].open, p # o
               PROVE  pcds'[ID'[p]] = own'[p]
    BY <1>4 DEF HeldIsOwn
  <2>1. OnSlot(p) /\ ID'[p] = ID[p] /\ own'[p] = own[p]
    BY <1>5 DEF OnSlot, Held
  <2>2. ID[p] \in Slots /\ own[p] \in 1..Len(handles)
    BY <2>1, OwnExists
  <2>3. pcds[ID[p]] = own[p]
    BY <1>2, <2>1, <2>2 DEF OwnInv, HeldIsOwn
  <2>4. ID[p] # r
    BY <1>1, <2>2, <2>3 DEF NULL
  <2> QED BY <1>1, <1>2, <2>1, <2>2, <2>3, <2>4 DEF IInv, TypeOK
<1>9. TablesAreOwn'
  <2> SUFFICES ASSUME NEW c \in Captors, OpenOnSlot(c)'
               PROVE  /\ linktypes'[ID'[c]] = LinkType[handles'[own'[c]].source]
                      /\ handles'[own'[c]].source \in Devices =>
                           /\ netmasks'[ID'[c]] = handles'[own'[c]].source
                           /\ handles'[own'[c]].mask \in {handles'[own'[c]].source, "unfiltered"}
    BY DEF TablesAreOwn
  <2>1. CASE c = o
    BY <1>2, <1>3, <1>4, <2>1 DEF r
  <2>2. CASE c # o
    <3>1. c \in Objects \ {o}
      BY <2>2 DEF Objects
    <3>2. OpenOnSlot(c) /\ ID'[c] = ID[c] /\ own'[c] = own[c]
      BY <1>5, <3>1
    <3>3. ID[c] \in Slots \ {reserveID} /\ handles'[own[c]] = handles[own[c]]
      BY <1>6, <3>1, <3>2 DEF r
    <3> QED BY <3>2, <3>3 DEF OwnInv, TablesAreOwn
  <2> QED BY <2>1, <2>2
<1> QED BY <1>7, <1>8, <1>9 DEF OwnInv

(* What neither opens nor closes an object on a slot.                       *)
LEMMA KeepsOwn ==
    ASSUME IInv, OwnInv, NEW o \in Objects, ~OpenOnSlot(o), ~OpenOnSlot(o)',
           \A p \in Objects \ {o} : ID'[p] = ID[p] /\ status'[p] = status[p] /\ own'[p] = own[p],
           OnSlot(o)' /\ handles[own'[o]].open => pcds[ID'[o]] = own'[o],
           \A i \in Slots : instanciatedFlag[i] => instanciatedFlag'[i],
           \A i \in Slots : pcds[i] # NULL => netmasks'[i] = netmasks[i],
           UNCHANGED <<pcds, linktypes, handles>>
    PROVE  OwnInv'
<1>1. ASSUME NEW p \in Objects, OpenOnSlot(p)'
      PROVE  /\ OpenOnSlot(p) /\ ID'[p] = ID[p] /\ own'[p] = own[p]
             /\ ID[p] \in Slots /\ pcds[ID[p]] = own[p] /\ pcds[ID[p]] # NULL
             /\ instanciatedFlag[ID[p]] /\ handles[own[p]].open
  <2>1. OpenOnSlot(p) /\ ID'[p] = ID[p] /\ own'[p] = own[p]
    BY <1>1 DEF OpenOnSlot
  <2>2. ID[p] \in Slots /\ own[p] # NULL
    BY <2>1, OwnExists DEF NULL
  <2> QED BY <2>1, <2>2 DEF OwnInv, SlotIsOwn
<1>2. SlotIsOwn'
  BY <1>1 DEF OwnInv, SlotIsOwn
<1>3. HeldIsOwn'
  BY DEF OwnInv, HeldIsOwn, OnSlot, Held
<1>4. TablesAreOwn'
  <2> SUFFICES ASSUME NEW c \in Captors, OpenOnSlot(c)'
               PROVE  /\ linktypes[ID'[c]] = LinkType[handles[own'[c]].source]
                      /\ handles[own'[c]].source \in Devices =>
                           /\ netmasks'[ID'[c]] = handles[own'[c]].source
                           /\ handles[own'[c]].mask \in {handles[own'[c]].source, "unfiltered"}
    BY DEF TablesAreOwn
  <2>1. c \in Objects
    BY DEF Objects
  <2> QED BY <1>1, <2>1 DEF OwnInv, TablesAreOwn
<1> QED BY <1>2, <1>3, <1>4 DEF OwnInv

LEMMA FailOwn ==
    ASSUME IInv, OwnInv, NEW o \in Objects, Construct(o, "failed"),
           \A i \in Slots \ {reserveID} : netmasks'[i] = netmasks[i],
           UNCHANGED <<own, pcds, linktypes, handles>>
    PROVE  OwnInv'
<1>1. /\ reserveID \in Slots /\ pcds[reserveID] = NULL
      /\ instanciatedFlag' = [instanciatedFlag EXCEPT ![reserveID] = TRUE]
      /\ ID' = [ID EXCEPT ![o] = reserveID] /\ status' = [status EXCEPT ![o] = "failed"]
      /\ status[o] = "new"
  BY Constructed
<1>2. ~OpenOnSlot(o) /\ ~OpenOnSlot(o)' /\ ~OnSlot(o)'
  BY <1>1 DEF OpenOnSlot, OnSlot, Held, IInv, TypeOK
<1> QED BY <1>1, <1>2, KeepsOwn DEF IInv, TypeOK

LEMMA RawSocketOwn ==
    ASSUME IInv, OwnInv, NEW s \in Senders, openRawSocket(s)
    PROVE  OwnInv'
<1>1. s \in Objects /\ reserveID \in Slots
  BY ReserveID DEF openRawSocket, FreeSlots, Objects
<1>2. PICK i \in Slots \cup {RAW_SOCKET_ID}, st \in {"open", "failed"} :
        /\ ID' = [ID EXCEPT ![s] = i] /\ status' = [status EXCEPT ![s] = st]
        /\ st = "open" => i = RAW_SOCKET_ID
  BY <1>1 DEF openRawSocket
<1>3. ~OpenOnSlot(s) /\ ~OpenOnSlot(s)' /\ ~OnSlot(s)'
  BY <1>1, <1>2, NotSlots DEF openRawSocket, OpenOnSlot, OnSlot, Held, IInv, TypeOK
<1>4. /\ instanciatedFlag' = [instanciatedFlag EXCEPT ![reserveID] = TRUE]
      /\ UNCHANGED <<own, pcds, linktypes, netmasks, handles>>
  BY DEF openRawSocket, tables
<1> QED BY <1>1, <1>2, <1>3, <1>4, KeepsOwn DEF IInv, TypeOK

(* A sender from a captor that is open shares the handle; one from a captor *)
(* that was closed has a handle that is closed.                             *)
LEMMA ShareOwn ==
    ASSUME IInv, OwnInv, NEW c \in Captors, NEW s \in Senders, getJpcapSenderInstance(c, s)
    PROVE  OwnInv'
<1>1. c \in Objects /\ s \in Objects
  BY DEF Objects
<1>2. /\ OnSlot(c) /\ status[s] = "new"
      /\ ID' = [ID EXCEPT ![s] = ID[c]] /\ status' = [status EXCEPT ![s] = "shared"]
      /\ own' = [own EXCEPT ![s] = own[c]]
      /\ UNCHANGED <<instanciatedFlag, pcds, linktypes, netmasks, handles>>
  BY DEF getJpcapSenderInstance, tables
<1>3. ~OpenOnSlot(s) /\ ~OpenOnSlot(s)'
  BY <1>1, <1>2 DEF OpenOnSlot, IInv, TypeOK
<1>4. handles[own'[s]].open => pcds[ID'[s]] = own'[s]
  BY <1>1, <1>2 DEF OwnInv, HeldIsOwn, IInv, TypeOK
<1> QED BY <1>1, <1>2, <1>3, <1>4, KeepsOwn DEF IInv, TypeOK

LEMMA RefusedOwn == ASSUME IInv, OwnInv, NEW o \in Objects, Refused(o) PROVE OwnInv'
<1>1. /\ status[o] = "new" /\ status' = [status EXCEPT ![o] = "refused"]
      /\ UNCHANGED <<instanciatedFlag, ID, own, pcds, linktypes, netmasks, handles>>
  BY DEF Refused, tables
<1>2. ~OpenOnSlot(o) /\ ~OpenOnSlot(o)' /\ ~OnSlot(o)'
  BY <1>1 DEF OpenOnSlot, OnSlot, Held, IInv, TypeOK
<1> QED BY <1>1, <1>2, KeepsOwn DEF IInv, TypeOK

LEMMA RawCloseOwn == ASSUME IInv, OwnInv, NEW s \in Senders, closeRawSocket(s) PROVE OwnInv'
<1>1. /\ s \in Objects /\ ID[s] = RAW_SOCKET_ID /\ status' = [status EXCEPT ![s] = "closed"]
      /\ UNCHANGED <<instanciatedFlag, ID, own, pcds, linktypes, netmasks, handles>>
  BY DEF closeRawSocket, tables, Objects
<1>2. ~OpenOnSlot(s) /\ ~OpenOnSlot(s)' /\ ~OnSlot(s)'
  BY <1>1, NotSlots DEF OpenOnSlot, OnSlot
<1> QED BY <1>1, <1>2, KeepsOwn DEF IInv, TypeOK

(* A careful close: the handle is that of the object, and no other object   *)
(* that is open has the slot.                                               *)
LEMMA CloseOwn ==
    ASSUME IInv, OwnInv, NEW o \in Objects, close(o), status[o] = "open"
    PROVE  OwnInv'
<1> DEFINE i0 == ID[o]
           h0 == own[o]
<1>1. /\ OpenOnSlot(o) /\ OnSlot(o)
      /\ pcds' = [pcds EXCEPT ![i0] = NULL]
      /\ instanciatedFlag' = [instanciatedFlag EXCEPT ![i0] = FALSE]
      /\ status' = [status EXCEPT ![o] = "closed"]
      /\ UNCHANGED <<ID, own, linktypes, netmasks>>
  BY DEF close, nativeClose, unreserveID, OnSlot, OpenOnSlot
<1>2. i0 \in Slots /\ h0 \in 1..Len(handles) /\ pcds[i0] = h0
  BY <1>1, OwnExists DEF OwnInv, SlotIsOwn
<1>3. handles' = [handles EXCEPT ![h0].open = FALSE]
  BY <1>2 DEF close, nativeClose, unreserveID, Closed, NULL
<1>4. /\ \A g \in 1..Len(handles) : g # h0 => handles'[g] = handles[g]
      /\ ~handles'[h0].open
  BY <1>2, <1>3, ClosedHandles
<1> HIDE DEF i0, h0
<1>5. ASSUME NEW p \in Objects, OpenOnSlot(p)'
      PROVE  /\ OpenOnSlot(p) /\ ID[p] \in Slots \ {i0}
             /\ pcds'[ID[p]] = own[p] /\ instanciatedFlag'[ID[p]]
             /\ handles'[own[p]] = handles[own[p]] /\ handles[own[p]].open
  <2>1. p # o /\ OpenOnSlot(p)
    BY <1>1, <1>5 DEF OpenOnSlot, IInv, TypeOK
  <2>2. ID[p] # i0
    BY <1>1, <2>1 DEF OwnInv, SlotIsOwn, i0
  <2>3. /\ ID[p] \in Slots /\ own[p] \in 1..Len(handles) /\ pcds[ID[p]] = own[p]
        /\ instanciatedFlag[ID[p]] /\ handles[own[p]].open
    BY <2>1, OwnExists DEF OwnInv, SlotIsOwn
  <2>4. own[p] # h0
    BY <1>2, <2>2, <2>3 DEF IInv, HandlesDiffer, NULL
  <2> QED BY <1>1, <1>2, <1>4, <2>1, <2>2, <2>3, <2>4 DEF IInv, TypeOK
<1>6. SlotIsOwn'
  <2>1. ASSUME NEW p \in Objects, OpenOnSlot(p)'
        PROVE  instanciatedFlag'[ID'[p]] /\ pcds'[ID'[p]] = own'[p] /\ handles'[own'[p]].open
    BY <1>1, <1>5, <2>1
  <2>2. ASSUME NEW p \in Objects, NEW q \in Objects,
               OpenOnSlot(p)', OpenOnSlot(q)', ID'[p] = ID'[q]
        PROVE  p = q
    BY <1>1, <1>5, <2>2 DEF OwnInv, SlotIsOwn
  <2> QED BY <2>1, <2>2 DEF SlotIsOwn
<1>7. HeldIsOwn'
  <2> SUFFICES ASSUME NEW p \in Objects, OnSlot(p)', handles'[own[p]].open
               PROVE  pcds'[ID[p]] = own[p]
    BY <1>1 DEF HeldIsOwn
  <2>1. OnSlot(p)
    BY <1>1 DEF OnSlot, Held, IInv, TypeOK
  <2>2. ID[p] \in Slots /\ own[p] \in 1..Len(handles) /\ own[p] # h0
    BY <1>4, <2>1, OwnExists
  <2>3. pcds[ID[p]] = own[p]
    BY <1>4, <2>1, <2>2 DEF OwnInv, HeldIsOwn
  <2> QED BY <1>1, <1>2, <2>2, <2>3 DEF IInv, TypeOK
<1>8. TablesAreOwn'
  <2> SUFFICES ASSUME NEW c \in Captors, OpenOnSlot(c)'
               PROVE  /\ linktypes[ID[c]] = LinkType[handles'[own[c]].source]
                      /\ handles'[own[c]].source \in Devices =>
                           /\ netmasks[ID[c]] = handles'[own[c]].source
                           /\ handles'[own[c]].mask \in {handles'[own[c]].source, "unfiltered"}
    BY <1>1 DEF TablesAreOwn
  <2>1. c \in Objects
    BY DEF Objects
  <2> QED BY <1>5, <2>1 DEF OwnInv, TablesAreOwn
<1> QED BY <1>6, <1>7, <1>8 DEF OwnInv

LEMMA CloseCounted ==
    ASSUME IInv, SlotIsOwn, SlotsCounted, NEW o \in Objects, close(o), status[o] = "open"
    PROVE  SlotsCounted'
<1>1. /\ OpenOnSlot(o) /\ ID[o] \in Slots
      /\ instanciatedFlag' = [instanciatedFlag EXCEPT ![ID[o]] = FALSE]
      /\ status' = [status EXCEPT ![o] = "closed"] /\ UNCHANGED ID
  BY DEF close, nativeClose, unreserveID, OnSlot, OpenOnSlot
<1>2. ID[o] \in Reserved /\ Reserved' = Reserved \ {ID[o]}
  BY <1>1 DEF Reserved, SlotIsOwn, IInv, TypeOK
<1>3. o \in Reserving /\ Reserving' = Reserving \ {o}
  BY <1>1, NotSlots DEF Reserving, IInv, TypeOK
<1> QED BY <1>2, <1>3, OneLess

(* setFilter compiles with the mask of the slot, which is that of the       *)
(* captor whose handle gets the filter.                                     *)
LEMMA FilterOwn ==
    ASSUME IInv, OwnInv, NEW c \in Captors, setFilter(c)
    PROVE  OwnInv'
<1>1. UNCHANGED <<instanciatedFlag, ID, status, own, pcds, linktypes, netmasks>>
  BY DEF setFilter, instances, tables
<1>2. /\ ID[c] \in Slots /\ pcds[ID[c]] \in 1..Len(handles)
      /\ \A h \in 1..Len(handles) :
           /\ handles'[h].source = handles[h].source /\ handles'[h].open = handles[h].open
           /\ handles'[h].mask = IF h = pcds[ID[c]] THEN netmasks[ID[c]] ELSE handles[h].mask
  BY FilteredHandles
<1>3. ASSUME NEW h \in 1..Len(handles)
      PROVE  handles'[h].open = handles[h].open
  BY <1>2, Zenon
<1>4. SlotIsOwn'
  <2>1. ASSUME NEW p \in Objects, OpenOnSlot(p) PROVE handles'[own[p]].open
    <3>1. own[p] \in 1..Len(handles) /\ handles[own[p]].open
      BY <2>1, OwnExists DEF OwnInv, SlotIsOwn
    <3> QED BY <1>3, <3>1, Zenon
  <2> QED BY <1>1, <2>1 DEF OwnInv, SlotIsOwn, OpenOnSlot
<1>5. HeldIsOwn'
  <2> SUFFICES ASSUME NEW p \in Objects, OnSlot(p), handles'[own[p]].open
               PROVE  pcds[ID[p]] = own[p]
    BY <1>1 DEF HeldIsOwn, OnSlot, Held
  <2>1. own[p] \in 1..Len(handles)
    BY OwnExists
  <2>2. handles[own[p]].open
    BY <1>3, <2>1, Zenon
  <2> QED BY <2>2 DEF OwnInv, HeldIsOwn
<1>6. TablesAreOwn'
  <2> SUFFICES ASSUME NEW b \in Captors, OpenOnSlot(b)
               PROVE  /\ linktypes[ID[b]] = LinkType[handles'[own[b]].source]
                      /\ handles'[own[b]].source \in Devices =>
                           /\ netmasks[ID[b]] = handles'[own[b]].source
                           /\ handles'[own[b]].mask \in {handles'[own[b]].source, "unfiltered"}
    BY <1>1 DEF TablesAreOwn, OpenOnSlot
  <2>1. b \in Objects
    BY DEF Objects
  <2>2. ID[b] \in Slots /\ own[b] \in 1..Len(handles) /\ pcds[ID[b]] = own[b]
    BY <2>1, OwnExists DEF OwnInv, SlotIsOwn
  <2>3. own[b] = pcds[ID[c]] => ID[b] = ID[c]
    BY <1>2, <2>2 DEF IInv, HandlesDiffer, NULL
  <2>4. handles'[own[b]].mask = IF ID[b] = ID[c] THEN netmasks[ID[b]] ELSE handles[own[b]].mask
    BY <1>2, <2>2, <2>3
  <2>5. handles'[own[b]].source = handles[own[b]].source
    BY <1>2, <2>2
  <2> QED BY <2>4, <2>5 DEF OwnInv, TablesAreOwn
<1> QED BY <1>4, <1>5, <1>6 DEF OwnInv

LEMMA ConstructOwn == ASSUME IInv, OwnInv, Constructs PROVE OwnInv'
<1>1. Captors \subseteq Objects /\ Senders \subseteq Objects /\ Captors \cap Senders = {}
      /\ Devices \subseteq Sources /\ Files \subseteq Sources /\ Devices \cap Files = {}
  BY JpcapAssumption DEF Objects, Sources
<1>2. /\ \A x : [linktypes EXCEPT ![reserveID] = x] = [i \in Slots |-> IF i = reserveID THEN x ELSE linktypes[i]]
      /\ \A x : [netmasks EXCEPT ![reserveID] = x] = [i \in Slots |-> IF i = reserveID THEN x ELSE netmasks[i]]
  BY DEF IInv, TypeOK
<1>3. ASSUME NEW o \in Objects, NEW result, Construct(o, result) PROVE reserveID \in Slots
  BY <1>3, ReserveID DEF Construct, FreeSlots
<1>4. ASSUME NEW c \in Captors, NEW d \in Devices, openDevice(c, d) PROVE OwnInv'
  BY <1>1, <1>2, <1>3, <1>4, OpenOwn DEF openDevice
<1>5. ASSUME NEW c \in Captors, NEW d \in Devices, openDevice_Fails(c, d) PROVE OwnInv'
  BY <1>1, <1>2, <1>5, FailOwn DEF openDevice_Fails
<1>6. ASSUME NEW c \in Captors, NEW f \in Files, openFile(c, f) PROVE OwnInv'
  BY <1>1, <1>2, <1>3, <1>6, OpenOwn DEF openFile
<1>7. ASSUME NEW c \in Captors, openFile_Fails(c) PROVE OwnInv'
  BY <1>1, <1>7, FailOwn DEF openFile_Fails, tables
<1>8. ASSUME NEW s \in Senders, NEW d \in Devices, openSender(s, d) PROVE OwnInv'
  BY <1>1, <1>8, OpenOwn DEF openSender
<1>9. ASSUME NEW s \in Senders, openSender_Fails(s) PROVE OwnInv'
  BY <1>1, <1>9, FailOwn DEF openSender_Fails, tables
<1> QED BY <1>4, <1>5, <1>6, <1>7, <1>8, <1>9 DEF Constructs

LEMMA ConstructsCounted == ASSUME IInv, SlotsCounted, Constructs PROVE SlotsCounted'
<1>1. PICK o \in Objects, result \in {"open", "failed"} : Construct(o, result)
  BY DEF Constructs, Objects, openDevice, openDevice_Fails, openFile, openFile_Fails,
         openSender, openSender_Fails
<1> QED BY <1>1, ConstructCounted

LEMMA InitCareful == Init => CarefulInv
<1> SUFFICES ASSUME Init PROVE OwnInv /\ SlotsCounted
  BY DEF CarefulInv
<1>1. \A o \in Objects : ~OpenOnSlot(o) /\ ~OnSlot(o)
  BY NotSlots DEF Init, OpenOnSlot, OnSlot
<1>2. Captors \subseteq Objects
  BY DEF Objects
<1>3. OwnInv
  BY <1>1, <1>2 DEF OwnInv, SlotIsOwn, HeldIsOwn, TablesAreOwn
<1>4. Reserved = {}
  BY DEF Init, Reserved
<1>5. Reserving = {}
  BY NotSlots DEF Init, Reserving
<1> QED BY <1>3, <1>4, <1>5 DEF SlotsCounted

LEMMA NextCareful == IInv /\ CarefulInv /\ [Next]_vars => CarefulInv'
<1> SUFFICES ASSUME IInv, CarefulInv, [Next]_vars, careful' PROVE OwnInv' /\ SlotsCounted'
  BY DEF CarefulInv
<1>1. ASSUME NEW o \in Objects, close(o) PROVE OwnInv' /\ SlotsCounted'
  <2>1. careful /\ status[o] = "open"
    BY <1>1 DEF close, nativeClose, unreserveID
  <2> QED BY <1>1, <2>1, CloseOwn, CloseCounted DEF CarefulInv, OwnInv
<1>2. CASE UNCHANGED <<instances, tables, handles, careful>>
  BY <1>2 DEF instances, tables, CarefulInv, OwnInv, SlotIsOwn, HeldIsOwn, TablesAreOwn, SlotsCounted,
              OpenOnSlot, OnSlot, Held, Reserved, Reserving
<1>3. CASE UNCHANGED careful /\ Constructs
  BY <1>3, ConstructOwn, ConstructsCounted DEF CarefulInv
<1>4. ASSUME NEW o \in Objects, Refused(o) PROVE OwnInv' /\ SlotsCounted'
  <2>1. UNCHANGED <<instanciatedFlag, ID, careful>> /\ status[o] = "new"
        /\ status' = [status EXCEPT ![o] = "refused"]
    BY <1>4 DEF Refused
  <2>2. Reserved' = Reserved /\ Reserving' = Reserving
    BY <2>1 DEF Reserved, Reserving, IInv, TypeOK
  <2> QED BY <1>4, <2>1, <2>2, RefusedOwn DEF CarefulInv, SlotsCounted
<1>5. ASSUME NEW c \in Captors, setFilter(c) PROVE OwnInv' /\ SlotsCounted'
  <2>1. UNCHANGED <<instanciatedFlag, ID, status, careful>>
    BY <1>5 DEF setFilter, instances
  <2> QED BY <1>5, <2>1, FilterOwn DEF CarefulInv, SlotsCounted, Reserved, Reserving
<1>6. ASSUME NEW c \in Captors, NEW s \in Senders, getJpcapSenderInstance(c, s)
      PROVE  OwnInv' /\ SlotsCounted'
  <2>1. /\ UNCHANGED <<instanciatedFlag, careful>> /\ c \in Objects /\ s \in Objects
        /\ status[s] = "new" /\ status' = [status EXCEPT ![s] = "shared"]
        /\ ID' = [ID EXCEPT ![s] = ID[c]] /\ ID[c] \in Slots /\ ID[s] = -1
    BY <1>6 DEF getJpcapSenderInstance, OnSlot, Objects, IInv, ObjectsInv
  <2>2. Reserved' = Reserved /\ Reserving' = Reserving
    BY <2>1, NotSlots DEF Reserved, Reserving, IInv, TypeOK
  <2> QED BY <1>6, <2>1, <2>2, ShareOwn DEF CarefulInv, SlotsCounted
<1>7. ASSUME NEW s \in Senders, openRawSocket(s) PROVE OwnInv' /\ SlotsCounted'
  <2>1. careful
    BY <1>7 DEF openRawSocket
  <2> QED BY <1>7, <2>1, RawSocketOwn, RawSocketCounted DEF CarefulInv
<1>8. ASSUME NEW s \in Senders, closeRawSocket(s) PROVE OwnInv' /\ SlotsCounted'
  <2>1. /\ UNCHANGED <<instanciatedFlag, ID, careful>> /\ s \in Objects /\ ID[s] = RAW_SOCKET_ID
        /\ status' = [status EXCEPT ![s] = "closed"]
    BY <1>8 DEF closeRawSocket, Objects
  <2>2. Reserved' = Reserved /\ Reserving' = Reserving
    BY <2>1 DEF Reserved, Reserving, IInv, TypeOK
  <2> QED BY <1>8, <2>1, <2>2, RawCloseOwn DEF CarefulInv, SlotsCounted
<1>9. CASE Loops
  BY <1>2, <1>9 DEF Loops, dispatcher_handler, handlerReturns, loopReturns, loopPacket
<1>10. CASE Dumps
  BY <1>2, <1>10 DEF Dumps, openDumpFile, closeDumpFile
<1>11. CASE Constructs
  BY <1>3, <1>11 DEF Constructs, openDevice, openDevice_Fails, openFile, openFile_Fails,
                     openSender, openSender_Fails
<1>12. CASE UNCHANGED vars
  BY <1>2, <1>12 DEF vars
<1> QED BY <1>1, <1>4, <1>5, <1>6, <1>7, <1>8, <1>9, <1>10, <1>11, <1>12, NextKinds

LEMMA AlwaysCareful == Spec => [](IInv /\ CarefulInv)
BY AlwaysIInv, InitCareful, NextCareful, PTL DEF Spec

(* Every object that is open uses the handle that was opened for it and     *)
(* nobody else's, and so does a sender from a captor until the captor is    *)
(* closed, in a program that closes each object it opened at most once.     *)
THEOREM OwnHandle == Spec => []HandleIsOwn
<1>1. ASSUME IInv, CarefulInv PROVE HandleIsOwn
  <2> SUFFICES ASSUME careful, NEW o \in Objects, ID[o] # RAW_SOCKET_ID,
                      status[o] = "open" \/ (status[o] = "shared" /\ handles[own[o]].open)
               PROVE  /\ pcds[ID[o]] = own[o] /\ handles[own[o]].open
                      /\ \A p \in Objects :
                           status[p] = "open" /\ p # o /\ own[p] = own[o] => status[o] = "shared"
    BY DEF HandleIsOwn
  <2>1. OwnInv
    BY <1>1 DEF CarefulInv
  <2>2. OnSlot(o)
    BY <1>1 DEF IInv, ObjectsInv, OnSlot, Held
  <2>3. own[o] # NULL /\ ID[o] \in Slots
    BY <1>1, <2>2 DEF IInv, ObjectsInv, OnSlot
  <2>4. status[o] = "open" => OpenOnSlot(o)
    BY <2>3 DEF OpenOnSlot
  <2>5. handles[own[o]].open
    BY <2>1, <2>4 DEF OwnInv, SlotIsOwn
  <2>6. pcds[ID[o]] = own[o]
    BY <2>1, <2>2, <2>5 DEF OwnInv, HeldIsOwn
  <2>7. ASSUME NEW p \in Objects, status[p] = "open", p # o, own[p] = own[o]
        PROVE  status[o] = "shared"
    <3>1. OpenOnSlot(p)
      BY <1>1, <2>3, <2>7 DEF IInv, ObjectsInv, OpenOnSlot, Held
    <3>2. pcds[ID[p]] = own[p] /\ ID[p] \in Slots
      BY <2>1, <3>1 DEF OwnInv, SlotIsOwn, OpenOnSlot
    <3>3. ID[p] = ID[o]
      BY <1>1, <2>3, <2>6, <2>7, <3>2 DEF IInv, HandlesDiffer
    <3> QED BY <2>1, <2>4, <2>7, <3>1, <3>3 DEF OwnInv, SlotIsOwn
  <2> QED BY <2>5, <2>6, <2>7
<1> QED BY <1>1, AlwaysCareful, PTL

(* No slot is lost but by an object that failed to open or is on the raw    *)
(* socket, and a slot that may be reserved has no handle.                   *)
THEOREM NoSlotLost == Spec => []SlotsAccounted
<1>1. IInv /\ CarefulInv => SlotsAccounted
  BY DEF IInv, CarefulInv, SlotsCounted, Reserved, Reserving, FreeIsEmpty, SlotsAccounted
<1> QED BY <1>1, AlwaysCareful, PTL

(* A captor that is open takes its packets apart by the link type of what   *)
(* it has open, and compiles its filter with the mask of its own device.    *)
THEOREM ParsedByOwnType == Spec => []ParsedAsItsDevice
<1>1. ASSUME IInv, CarefulInv PROVE ParsedAsItsDevice
  <2> SUFFICES ASSUME careful, NEW c \in Captors, status[c] = "open"
               PROVE  /\ linktypes[ID[c]] = LinkType[handles[own[c]].source]
                      /\ handles[own[c]].source \in Devices =>
                           handles[own[c]].mask \in {handles[own[c]].source, "unfiltered"}
    BY DEF ParsedAsItsDevice
  <2>1. OpenOnSlot(c)
    BY <1>1 DEF IInv, ObjectsInv, Objects, OpenOnSlot, Held
  <2> QED BY <1>1, <2>1 DEF CarefulInv, OwnInv, TablesAreOwn
<1> QED BY <1>1, AlwaysCareful, PTL
=============================================================================
