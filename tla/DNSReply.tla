------------------------------ MODULE DNSReply ------------------------------
(***************************************************************************)
(* The query DNSApplication sends, and how handleData reads the reply:     *)
(* bytes, numbers in 0..255, at the offsets of the message plus one.  Reading *)
(* past the end, or from an offset the signed byte makes negative, raises  *)
(* an exception; what was read before it has been printed.                 *)
(* The pointers of a name do not lead back to it: Java would follow such a *)
(* ring until its stack overflows.                                         *)
(***************************************************************************)
EXTENDS Naturals, Sequences, SequencesExt

QUESTION_TYPE_A == 1
DNS_ANSWER_HOST_ADDRESS == 1
DNS_ANSWER_CANONICAL_NAME_FOR_ALIAS == 5

\* The query: identifier, recursion desired, one question; the labels of the name,
\* each behind its length, type and class.
constructDNSPacketHeader(transition_id) ==
    <<transition_id \div 256, transition_id % 256, 1, 0, 0, 1, 0, 0, 0, 0, 0, 0>>

constructDNSPacketQuestion(domain) ==
    FlattenSeq([k \in DOMAIN domain |-> <<Len(domain[k])>> \o domain[k]])
    \o <<0, 0, QUESTION_TYPE_A, 0, 1>>

queryDomain(domain, transition_id) ==
    constructDNSPacketHeader(transition_id) \o constructDNSPacketQuestion(domain)

IsNameCompression(byte) == byte >= 192

Raised == [ok |-> FALSE, labels |-> <<>>, next |-> 1]

\* What follows a length byte that Java reads as signed.
Signed(byte) == IF byte < 128 THEN byte ELSE 0

\* readStringContent from each position: the labels, and where it leaves the
\* buffer.  A pointer is followed with its second byte as the offset, and ends
\* the name.
ReadStringContent(b) ==
    LET name[p \in 1..(Len(b) + 1)] ==
          IF p > Len(b) THEN Raised
          ELSE IF b[p] = 0 THEN [ok |-> TRUE, labels |-> <<>>, next |-> p + 1]
          ELSE IF IsNameCompression(b[p]) THEN
                 IF p + 1 > Len(b) \/ b[p + 1] >= 128 \/ b[p + 1] > Len(b) THEN Raised
                 ELSE [name[b[p + 1] + 1] EXCEPT !.next = p + 2]
          ELSE IF p + Signed(b[p]) > Len(b) THEN Raised
          ELSE [name[p + Signed(b[p]) + 1] EXCEPT
                  !.labels = <<SubSeq(b, p + 1, p + Signed(b[p]))>> \o @]
    IN  name

\* The name of an answer.  The byte that is looked at to see whether it is a
\* pointer has been consumed.
AnswerName(b, p) ==
    IF p > Len(b) THEN Raised
    ELSE IF ~IsNameCompression(b[p]) THEN ReadStringContent(b)[p + 1]
    ELSE IF p + 1 > Len(b) \/ b[p + 1] >= 128 \/ b[p + 1] > Len(b) THEN Raised
    ELSE [ReadStringContent(b)[b[p + 1] + 1] EXCEPT !.next = p + 2]

Short(b, p) == 256 * b[p] + b[p + 1]

\* One answer read as if every one were an address.
ReadAnswer_AllAddresses(b, s) ==
    LET name == AnswerName(b, s.next)
        data == name.next + 10
    IN  IF ~name.ok \/ data > Len(b) + 1 THEN [s EXCEPT !.ok = FALSE]
        ELSE IF data + 3 > Len(b) THEN [s EXCEPT !.ok = FALSE]
        ELSE [s EXCEPT !.ips = Append(@, SubSeq(b, data, data + 3)), !.next = data + 4]

\* One answer, after the answers s has read: name, type, class, time to live and
\* length, then what the type calls for.  Nothing is read of other types, nor
\* skipped.
ReadAnswer(b, s) ==
    LET name == AnswerName(b, s.next)
        data == name.next + 10
    IN  IF ~name.ok \/ data > Len(b) + 1 THEN [s EXCEPT !.ok = FALSE]
        ELSE IF Short(b, name.next) = DNS_ANSWER_CANONICAL_NAME_FOR_ALIAS THEN
               LET alias == ReadStringContent(b)[data]
               IN  IF ~alias.ok THEN [s EXCEPT !.ok = FALSE]
                   ELSE [s EXCEPT !.aliases = Append(@, alias.labels), !.next = alias.next]
        ELSE IF Short(b, name.next) = DNS_ANSWER_HOST_ADDRESS THEN
               IF data + 3 > Len(b) THEN [s EXCEPT !.ok = FALSE]
               ELSE [s EXCEPT !.ips = Append(@, SubSeq(b, data, data + 3)), !.next = data + 4]
        ELSE [s EXCEPT !.next = data]

\* The questions of a reply, each a name, a type and a class.
ReadQuestions(b, n, p) ==
    LET read[k \in 0..n] ==
          IF k = 0 THEN [ok |-> TRUE, next |-> p]
          ELSE LET name == ReadStringContent(b)[read[k - 1].next]
               IN  IF read[k - 1].ok /\ name.ok /\ name.next + 3 <= Len(b)
                   THEN [ok |-> TRUE, next |-> name.next + 4]
                   ELSE [ok |-> FALSE, next |-> p]
    IN  read[n]

ReadAnswers(b, n, p) ==
    LET read[k \in 0..n] ==
          IF k = 0 THEN [ok |-> TRUE, next |-> p, aliases |-> <<>>, ips |-> <<>>]
          ELSE IF read[k - 1].ok THEN ReadAnswer(b, read[k - 1]) ELSE read[k - 1]
    IN  read[n]

Nothing(ok) == [ok |-> ok, aliases |-> <<>>, ips |-> <<>>]

\* handleData: the aliases and addresses printed, and whether the end of the
\* answers was reached without an exception.  A reply to another query is
\* refused.
HandleReply(b, transaction_id) ==
    IF Len(b) < 2 THEN Nothing(FALSE)
    ELSE IF Short(b, 1) # transaction_id THEN Nothing(TRUE)
    ELSE IF Len(b) < 12 THEN Nothing(FALSE)
    ELSE LET questions == ReadQuestions(b, Short(b, 5), 13)
             answers == ReadAnswers(b, Short(b, 7), questions.next)
         IN  IF ~questions.ok THEN Nothing(FALSE)
             ELSE [ok |-> answers.ok, aliases |-> answers.aliases, ips |-> answers.ips]
=============================================================================
