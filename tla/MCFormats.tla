----------------------------- MODULE MCFormats ------------------------------
(* The pure algorithms of the program against the formats they read or      *)
(* write: the options of a DHCP reply, the answers of a DNS reply, the      *)
(* checksum, and the packets of MCPackets.  Each state is one input;        *)
(* replies are also cut short at every byte.                                *)
EXTENDS DHCPOptions, MCPackets

CONSTANTS
    MaxOptions, MaxAnswers, MaxBytes    \* bounds on the inputs

\* A message that an IP packet can carry has less than 65536 bytes.
ASSUME BoundsAssumption == MaxOptions \in Nat /\ MaxAnswers \in Nat /\ MaxBytes \in 0..65535

\* What a DHCP server writes: code, length, value; code 0 is a pad byte.  Values
\* are chosen to hold bytes that are codes, lengths or the end themselves.
KnownOptions ==
    { [code |-> MSG_TYPE, value |-> <<2>>],
      [code |-> MSG_TYPE, value |-> <<5>>],
      [code |-> 51, value |-> <<0, 0, 53, 255>>],
      [code |-> 1, value |-> <<255, 255, 255, 0>>],
      [code |-> 3, value |-> <<192, 168, 1, 1, 53, 1, 6, 255>>],
      [code |-> 15, value |-> <<53, 1>>],
      [code |-> 0, value |-> <<>>] }

OptionBytes(options) ==
    LET one(o) == IF o.code = 0 THEN <<0>> ELSE <<o.code, Len(o.value)>> \o o.value
    IN  FlattenSeq([k \in DOMAIN options |-> one(options[k])]) \o <<END>>

\* The message types the options announce.
Announced(options) ==
    LET msgs == SelectSeq(options, LAMBDA o : o.code = MSG_TYPE)
    IN  [k \in DOMAIN msgs |-> msgs[k].value[1]]

\* The question: the name ww.b, at offset 12 of the message; .b is at 15.
transaction_id == 258
QueryName == <<2, 119, 119, 1, 98, 0>>
WholeName == <<192, 12>>
Suffix == <<192, 15>>

\* Answers: addresses of the name asked for or of an alias, and aliases, one
\* written in full and one that ends in a pointer; their owner a pointer to the name
\* asked for, or that name in full; and an answer of another type.
IPv6Address == 28
KnownAnswers ==
    [name : {WholeName}, type : {DNS_ANSWER_HOST_ADDRESS}, data : {<<192, 168, 1, 1>>, <<0, 5, 0, 192>>}]
    \cup [name : {WholeName}, type : {DNS_ANSWER_CANONICAL_NAME_FOR_ALIAS},
          data : {<<1, 97>> \o Suffix, <<1, 192, 1, 5, 0>>, WholeName}]
    \cup { [name |-> QueryName, type |-> DNS_ANSWER_HOST_ADDRESS, data |-> <<192, 168, 1, 1>>],
           [name |-> QueryName, type |-> DNS_ANSWER_CANONICAL_NAME_FOR_ALIAS, data |-> WholeName],
           [name |-> WholeName, type |-> IPv6Address, data |-> <<32, 1, 13, 184>> \o zeros(11) \o <<1>>] }

\* A long alias, and one that ends in a pointer to the last label of it, which is at
\* offset 162 of the message.
LongAlias == <<63>> \o Some(63) \o <<63>> \o Some(63) \o <<1, 98, 0>>
LatePointer == <<1, 99, 192, 162>>
LongReply ==
    LET alias(data) == [name |-> WholeName, type |-> DNS_ANSWER_CANONICAL_NAME_FOR_ALIAS, data |-> data]
    IN  <<alias(LongAlias), alias(LatePointer),
          [name |-> WholeName, type |-> DNS_ANSWER_HOST_ADDRESS, data |-> <<192, 168, 1, 1>>]>>

AnswerBytes(answers) ==
    LET one(a) == a.name \o <<0, a.type, 0, 1, 0, 0, 0, 60, 0, Len(a.data)>> \o a.data
    IN  <<1, 2, 129, 128, 0, 1, 0, Len(answers), 0, 0, 0, 0>>
        \o QueryName \o <<0, QUESTION_TYPE_A, 0, 1>>
        \o FlattenSeq([k \in DOMAIN answers |-> one(answers[k])])

\* The labels an alias stands for.
Expand(data) ==
    CASE data = <<1, 97>> \o Suffix -> << <<97>>, <<98>> >>
      [] data = <<1, 192, 1, 5, 0>> -> << <<192>>, <<5>> >>
      [] data = LongAlias           -> << Some(63), Some(63), <<98>> >>
      [] data = LatePointer         -> << <<99>>, <<98>> >>
      [] OTHER                      -> << <<119, 119>>, <<98>> >>

DataOf(answers, type) ==
    LET ones == SelectSeq(answers, LAMBDA a : a.type = type)
    IN  [k \in DOMAIN ones |-> ones[k].data]

Addresses(answers) == DataOf(answers, DNS_ANSWER_HOST_ADDRESS)
Aliases(answers) ==
    LET data == DataOf(answers, DNS_ANSWER_CANONICAL_NAME_FOR_ALIAS)
    IN  [k \in DOMAIN data |-> Expand(data[k])]

\* The answers before the first that handleData cannot read: its name is not a pointer,
\* or it is of another type.
IsRead(a) == a.name = WholeName /\ a.type # IPv6Address
BeforeUnread(answers) ==
    SubSeq(answers, 1, Min({k \in DOMAIN answers : ~IsRead(answers[k])} \cup {Len(answers) + 1}) - 1)

ListsOf(S, n) == UNION {[1..k -> S] : k \in 0..n}

Shortened(bytes) == SubSeq(bytes, 1, Len(bytes) - cut)
OptionsRead == ReadOptions(Shortened(OptionBytes(content)))
ReplyRead == HandleReply(Shortened(AnswerBytes(content)), transaction_id)

Init ==
    \/ /\ subject = "options"
       /\ content \in ListsOf(KnownOptions, MaxOptions)
       /\ cut \in 0..Len(OptionBytes(content))
    \/ /\ subject = "answers"
       /\ content \in ListsOf(KnownAnswers, MaxAnswers) \cup {LongReply}
       /\ cut \in 0..Len(AnswerBytes(content))
    \/ /\ subject = "checksum"
       /\ content \in ListsOf({0, 1, 128, 255}, MaxBytes)
       /\ cut = 0
    \/ PacketInit

Next == UNCHANGED <<subject, content, cut>>

Spec == Init /\ [][Next]_<<subject, content, cut>>

-----------------------------------------------------------------------------
\* On a whole DHCP reply made of options the client knows, readOptions reads exactly the
\* message types it announces and reaches its end.  From a whole DNS reply whose answers
\* are addresses and aliases, each with a pointer for its name, handleData prints the
\* addresses and the aliases, in their order, with every pointer into the first 128 bytes
\* followed; from another it prints those of the answers before the first that has its
\* name in full or is of another type.
ReadsWholeReply ==
    /\ subject = "options" /\ cut = 0 =>
         OptionsRead = [ended |-> TRUE, types |-> Announced(content)]
    /\ subject = "answers" /\ cut = 0 /\ content # LongReply =>
         LET read == BeforeUnread(content)
         IN  IF read = content
             THEN ReplyRead = [ok |-> TRUE, aliases |-> Aliases(read), ips |-> Addresses(read)]
             ELSE IsPrefix(Addresses(read), ReplyRead.ips) /\ IsPrefix(Aliases(read), ReplyRead.aliases)

\* The name of an answer may be a pointer or a name in full, as that of the question: from
\* a whole DNS reply handleData prints the addresses of both.
NamesOfBothFormsAreRead ==
    subject = "answers" /\ cut = 0 /\ content # LongReply
      /\ (\A k \in DOMAIN content : content[k].type = DNS_ANSWER_HOST_ADDRESS) =>
      ReplyRead.ips = Addresses(content)

\* On a DHCP reply that was cut short, readOptions never reports the end, and what it
\* read before the exception is the beginning of what was announced.  From a DNS reply
\* of addresses and aliases with pointers for their names that was cut short, or holds a
\* pointer beyond the first 128 bytes, handleData prints a beginning of it and never takes
\* it for whole.
TruncationIsNoticed ==
    /\ subject = "options" /\ cut > 0 =>
         ~OptionsRead.ended /\ IsPrefix(OptionsRead.types, Announced(content))
    /\ subject = "answers" /\ BeforeUnread(content) = content /\ (cut > 0 \/ content = LongReply) =>
         /\ ~ReplyRead.ok
         /\ IsPrefix(ReplyRead.ips, Addresses(content))
         /\ IsPrefix(ReplyRead.aliases, Aliases(content))

\* The receiver's test: the words of a message and its checksum add up, in one's
\* complement, to 65535.
Verifies(bytes) == Carry(Carry(Sum16(bytes) + checksum(bytes))) = 65535

\* A receiver accepts every message sent with the checksum, of an even or an odd
\* number of bytes, as long as adding the carry brings no second one.
ChecksumVerifies ==
    subject = "checksum" /\ Carry(Sum16(content)) < 65536
      => Verifies(content)

\* A receiver accepts every message sent with the checksum.  IP headers and ICMP
\* messages have an even number of bytes.
ChecksumAlwaysVerifies ==
    subject = "checksum" /\ Len(content) % 2 = 0 => Verifies(content)
=============================================================================
