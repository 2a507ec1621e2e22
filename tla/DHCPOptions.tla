---------------------------- MODULE DHCPOptions -----------------------------
(***************************************************************************)
(* How DHCPApplication.readOptions walks the options of a reply: a         *)
(* sequence of bytes, here of numbers in 0..255.  The values of the        *)
(* options are only printed, except those of option 53, the message type.  *)
(* Reading past the end raises an exception.                               *)
(***************************************************************************)
EXTENDS Naturals, Sequences

END == 255
MSG_TYPE == 53

\* Options whose value is a 32-bit number: the length byte is not looked at.
Timers == {51, 58, 59}

\* Options that are skipped by their length byte.
Sized == {54, 1, 28, 3, 6, 15}

\* What the length byte, which Java reads as signed, makes the loops skip.
Skipped(len) == IF len < 128 THEN len ELSE 0

Underflow == [ended |-> FALSE, types |-> <<>>]

\* A message type, before what is read behind it.
WithType(k, r) == [ended |-> r.ended, types |-> <<k>> \o r.types]

\* What is read from position p on, given what is read from each later one.  A type
\* the switch does not list costs one byte: its length and its value are then
\* taken for options.
ReadFrom(b, rest, p) ==
    IF p > Len(b) THEN Underflow
    ELSE IF b[p] = END THEN [ended |-> TRUE, types |-> <<>>]
    ELSE IF b[p] = MSG_TYPE THEN
           IF p + 2 > Len(b) THEN Underflow
           ELSE WithType(b[p + 2], rest[p + 3])
    ELSE IF b[p] \in Timers THEN
           IF p + 5 > Len(b) THEN Underflow ELSE rest[p + 6]
    ELSE IF b[p] \in Sized THEN
           IF p + 1 > Len(b) \/ p + 1 + Skipped(b[p + 1]) > Len(b)
           THEN Underflow ELSE rest[p + 2 + Skipped(b[p + 1])]
    ELSE rest[p + 1]

\* readOptions whose loop ends with the bytes instead of with the end option.
ReadOptions_WhileRemaining(b) ==
    LET walk[p \in 1..(Len(b) + 1)] ==
          IF p > Len(b) THEN [ended |-> TRUE, types |-> <<>>] ELSE ReadFrom(b, walk, p)
    IN  walk[1]

\* The message types read, in order, and whether the end option was reached
\* before the bytes ran out.
ReadOptions(b) ==
    LET walk[p \in 1..(Len(b) + 1)] == ReadFrom(b, walk, p) IN walk[1]
=============================================================================
