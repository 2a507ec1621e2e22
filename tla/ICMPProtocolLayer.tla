------------------------- MODULE ICMPProtocolLayer --------------------------
(***************************************************************************)
(* protocol/ICMPProtocolLayer.java: the chain of header objects an ICMP    *)
(* message is offered to, and what the first one that wants it makes of    *)
(* it.  A message is known by its type and code.                           *)
(***************************************************************************)
EXTENDS Naturals

ICMP_ECHO_REPLY_TYPE == 0
ICMP_TIMESTAMP_REPLY_TYPE == 14
ICMP_TIME_EXCEEDED_TYPE == 11
ICMP_TIME_EXCEEDED_CODE == 0

Echo(m) == m.type = ICMP_ECHO_REPLY_TYPE
TimeStamp(m) == m.type = ICMP_TIMESTAMP_REPLY_TYPE

\* A header object that takes whatever the others leave.
TimeExceeded_Any(m) == TRUE

\* Refuses a message only if its type and its code are both others.
TimeExceeded(m) ==
    ~(m.type # ICMP_TIME_EXCEEDED_TYPE /\ m.code # ICMP_TIME_EXCEEDED_CODE)

\* What handlePacket returns.  The information of a time-exceeded message holds
\* the type and code of one, whatever the message had; the others hold neither.
HandlePacket(m) ==
    CASE Echo(m)                                        -> "echo"
      [] TimeStamp(m) /\ ~Echo(m)                       -> "timestamp"
      [] TimeExceeded(m) /\ ~TimeStamp(m) /\ ~Echo(m)   -> "time exceeded"
      [] OTHER                                          -> "null"
=============================================================================
