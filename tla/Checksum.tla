------------------------------ MODULE Checksum ------------------------------
(***************************************************************************)
(* utils/Utility.checksum, which IP headers and ICMP messages are sent     *)
(* with: 16-bit words are added up, and what overflows is added once.      *)
(***************************************************************************)
EXTENDS Naturals, Sequences

\* The k-th byte in its place in the word it belongs to.
Term(buf, k) == IF k % 2 = 1 THEN buf[k] * 256 ELSE buf[k]

Sum16(buf) ==
    LET sum[k \in 1..(Len(buf) + 1)] ==
          IF k > Len(buf) THEN 0 ELSE Term(buf, k) + sum[k + 1]
    IN  sum[1]

\* What overflows 16 bits is added at the other end.
Carry(sum) == (sum % 65536) + (sum \div 65536)

\* checksum without the carry.
checksum_NoCarry(buf) == 65535 - (Sum16(buf) % 65536)

\* A checksum is 16 bits wide: a second carry is cut off.
checksum(buf) ==
    65535 - (Carry(Sum16(buf)) % 65536)
=============================================================================
